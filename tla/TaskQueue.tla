----------------------------- MODULE TaskQueue -----------------------------
(***************************************************************************)
(* mutex_task_queue (job_queue.h, job_queue.cpp): the bounded queue of     *)
(* pointers that every thread pool, the asynchronous logger and the        *)
(* stage_queue are built on.  One mutex, two condition variables, and two  *)
(* flags, empty and full, that stand for the size of the std::queue.       *)
(*                                                                         *)
(* A thread's way through push or pop is                                   *)
(*                                                                         *)
(*    idle -> push_lock -> push -> idle      (lock, body, unlock)          *)
(*                ^         |                                              *)
(*                +-- push_wait              (pthread_cond_wait)           *)
(*                                                                         *)
(* and the same for pop.  All the queue's state is read and written with   *)
(* queue_mutex held, so the body up to the unlock is one action; the lock, *)
(* the wait and the wake-up are actions of their own because another       *)
(* thread can get in between.  A woken thread contends for the mutex like  *)
(* any other, and finds the flag it waited for set again if it is late.    *)
(***************************************************************************)
EXTENDS Naturals, Sequences, FiniteSets

CONSTANTS
    Producers,        \* threads that call push
    Consumers,        \* threads that call pop
    Elements,         \* the void* the callers hand over
    max_queue_size,   \* 2000 in task_queue::task_queue
    None              \* no holder of the mutex, no element

ASSUME QueueAssumption ==
    /\ max_queue_size \in Nat \ {0}
    /\ None \notin Elements
    /\ None \notin Producers \cup Consumers
    /\ Producers # {} /\ Consumers # {}
    /\ Producers \cap Consumers = {}

VARIABLES
    queue,         \* task_queue::_queue
    empty, full,   \* the flags of task_queue
    queue_mutex,   \* the holder of the mutex, or None
    qpc,           \* qpc[t]: where thread t is in push or pop
    val            \* val[t]: push's argument, or what pop returned

vars == <<queue, empty, full, queue_mutex, qpc, val>>

Thread == Producers \cup Consumers

PushPC == {"push_lock", "push", "push_wait"}
PopPC == {"pop_lock", "pop", "pop_wait"}

-----------------------------------------------------------------------------
(* task_queue::task_queue and mutex_task_queue::mutex_task_queue *)
Init ==
    /\ queue = <<>>
    /\ empty = TRUE
    /\ full = FALSE
    /\ queue_mutex = None
    /\ qpc = [t \in Thread |-> "idle"]
    /\ val = [t \in Thread |-> None]

(* pthread_cond_signal: the program counters that can result when the      *)
(* threads are at pcs; one thread waiting at `at' goes to contend for the  *)
(* mutex, and nothing happens when nobody waits.                           *)
Signal(pcs, at, to) ==
    LET waiting == {t \in Thread : pcs[t] = at}
    IN  IF waiting = {} THEN {pcs}
        ELSE {[pcs EXCEPT ![t] = to] : t \in waiting}

(* if (empty) pthread_cond_signal(&not_empty) in push, and the same of full *)
(* and not_full in pop; the mutants forget the signal.                      *)
WakeNobody(pcs) == {pcs}
WakeConsumer(pcs) == IF empty THEN Signal(pcs, "pop_wait", "pop_lock") ELSE {pcs}
WakeProducer(pcs) == IF full THEN Signal(pcs, "push_wait", "push_lock") ELSE {pcs}

(* The caller enters push(e); the mutant hands over a null pointer. *)
PushCallNull(t, e) ==
    /\ qpc[t] = "idle"
    /\ qpc' = [qpc EXCEPT ![t] = "push_lock"]
    /\ UNCHANGED <<queue, empty, full, queue_mutex, val>>

PushCall(t, e) ==
    /\ qpc[t] = "idle"
    /\ qpc' = [qpc EXCEPT ![t] = "push_lock"]
    /\ val' = [val EXCEPT ![t] = e]
    /\ UNCHANGED <<queue, empty, full, queue_mutex>>

(* The caller enters pop(). *)
PopCall(t) ==
    /\ qpc[t] = "idle"
    /\ qpc' = [qpc EXCEPT ![t] = "pop_lock"]
    /\ val' = [val EXCEPT ![t] = None]
    /\ UNCHANGED <<queue, empty, full, queue_mutex>>

(* pthread_mutex_lock, on entry and when pthread_cond_wait returns. *)
Lock(t) ==
    /\ queue_mutex = None
    /\ \/ qpc[t] = "push_lock" /\ qpc' = [qpc EXCEPT ![t] = "push"]
       \/ qpc[t] = "pop_lock" /\ qpc' = [qpc EXCEPT ![t] = "pop"]
    /\ queue_mutex' = t
    /\ UNCHANGED <<queue, empty, full, val>>

(* while (full) pthread_cond_wait(&not_full, &queue_mutex) *)
PushWait(t) ==
    /\ qpc[t] = "push"
    /\ full
    /\ queue_mutex' = None
    /\ qpc' = [qpc EXCEPT ![t] = "push_wait"]
    /\ UNCHANGED <<queue, empty, full, val>>

(* _queue->size() == max_queue_size, off by one in the mutant. *)
SizeAboveMax(q) == Len(q) > max_queue_size
SizeAtMax(q) == Len(q) = max_queue_size

(* The body of push, up to and including the unlock. *)
PushBody(t) ==
    /\ qpc[t] = "push"
    /\ queue' = Append(queue, val[t])
    /\ qpc' \in WakeConsumer([qpc EXCEPT ![t] = "idle"])
    /\ empty' = FALSE
    /\ full' = (full \/ SizeAtMax(queue'))
    /\ queue_mutex' = None
    /\ val' = [val EXCEPT ![t] = None]

(* push leaves its while loop; the mutant's is an if, not tested again.    *)
PushAfterIf(t) == PushBody(t)
Push(t) == ~full /\ PushBody(t)

(* while (empty) pthread_cond_wait(&not_empty, &queue_mutex) *)
PopWait(t) ==
    /\ qpc[t] = "pop"
    /\ empty
    /\ queue_mutex' = None
    /\ qpc' = [qpc EXCEPT ![t] = "pop_wait"]
    /\ UNCHANGED <<queue, empty, full, val>>

(* The rest of pop, up to and including the unlock and the return.  The    *)
(* mutant sets empty one element too early.                                *)
PopEmptyEarly(t) ==
    /\ qpc[t] = "pop"
    /\ ~empty
    /\ val' = [val EXCEPT ![t] = Head(queue)]
    /\ queue' = Tail(queue)
    /\ empty' = (Len(queue') <= 1)
    /\ qpc' \in WakeProducer([qpc EXCEPT ![t] = "idle"])
    /\ full' = FALSE
    /\ queue_mutex' = None
Pop(t) ==
    /\ qpc[t] = "pop"
    /\ ~empty
    /\ val' = [val EXCEPT ![t] = Head(queue)]
    /\ queue' = Tail(queue)
    /\ empty' = (empty \/ Len(queue') = 0)
    /\ qpc' \in WakeProducer([qpc EXCEPT ![t] = "idle"])
    /\ full' = FALSE
    /\ queue_mutex' = None

(* POSIX lets pthread_cond_wait return without a signal. *)
SpuriousWakeup(t) ==
    /\ \/ qpc[t] = "push_wait" /\ qpc' = [qpc EXCEPT ![t] = "push_lock"]
       \/ qpc[t] = "pop_wait" /\ qpc' = [qpc EXCEPT ![t] = "pop_lock"]
    /\ UNCHANGED <<queue, empty, full, queue_mutex, val>>

(* What a thread does inside push and pop before the element moves, and    *)
(* what can happen to it there.                                            *)
Advance(t) == Lock(t) \/ PushWait(t) \/ PopWait(t)
Internal(t) == Advance(t) \/ SpuriousWakeup(t)

-----------------------------------------------------------------------------
(* The callers.  An element is a live allocation: it is not pushed again   *)
(* while it is on its way or in the queue.                                 *)
InFlight == {queue[i] : i \in DOMAIN queue}
              \cup {val[t] : t \in {u \in Thread : qpc[u] \in PushPC}}

Produce(t, e) == e \notin InFlight /\ PushCall(t, e)

Next ==
    \/ \E t \in Producers : \/ \E e \in Elements : Produce(t, e)
                            \/ Push(t)
    \/ \E t \in Consumers : PopCall(t) \/ Pop(t)
    \/ \E t \in Thread : Internal(t)

Spec == Init /\ [][Next]_vars

(* A thread that can run does run, consumers are loops that keep calling   *)
(* pop, and wake-ups nobody asked for do not go on for ever.  Nothing is   *)
(* assumed of producers' callers, nor of who wins a contended mutex.       *)
Fairness ==
    /\ \A t \in Thread : WF_vars(Advance(t))
    /\ \A t \in Producers : WF_vars(Push(t))
    /\ \A t \in Consumers : WF_vars(PopCall(t)) /\ WF_vars(Pop(t))
    /\ <>[][~ \E t \in Thread : SpuriousWakeup(t)]_vars

FairSpec == Spec /\ Fairness

-----------------------------------------------------------------------------
TypeOK ==
    /\ queue \in Seq(Elements)
    /\ empty \in BOOLEAN /\ full \in BOOLEAN
    /\ queue_mutex \in Thread \cup {None}
    /\ qpc \in [Thread -> {"idle"} \cup PushPC \cup PopPC]
    /\ \A t \in Consumers : qpc[t] \notin PushPC
    /\ \A t \in Producers : qpc[t] \notin PopPC
    /\ val \in [Thread -> Elements \cup {None}]

(* The flags that push and pop wait on say exactly what the std::queue's   *)
(* size says, however the two bodies interleave: a flag that lagged would  *)
(* make push overrun max_queue_size, or pop call front() on an empty       *)
(* std::queue.                                                             *)
FlagsExact ==
    /\ empty <=> queue = <<>>
    /\ full <=> Len(queue) = max_queue_size
    /\ Len(queue) <= max_queue_size

(* push signals not_empty only on the empty-to-nonempty step and pop       *)
(* signals not_full only on the full-to-not-full step.  Even so the queue  *)
(* never comes to a standstill: while it holds an element not every        *)
(* consumer is asleep on not_empty, and while it has room not every        *)
(* producer is asleep on not_full.                                         *)
NoStandstill ==
    /\ queue # <<>> => \E c \in Consumers : qpc[c] # "pop_wait"
    /\ Len(queue) < max_queue_size => \E p \in Producers : qpc[p] # "push_wait"

CallOf(p) == IF p \in PushPC THEN "push" ELSE IF p \in PopPC THEN "pop" ELSE "idle"

(* push and pop behave as those of a bounded FIFO: each takes effect once, *)
(* between its call and its return, in the order of the critical sections. *)
Fifo == INSTANCE BoundedFifo WITH
            buf <- queue, Capacity <- max_queue_size,
            op <- [t \in Thread |-> CallOf(qpc[t])]
RefinesFifo == Fifo!Spec

(* Everything pushed is popped in the end: the wake-ups that push omits    *)
(* (a queue that was not empty) never strand an element, as long as        *)
(* consumers come back for more.                                           *)
EveryElementLeaves ==
    \A e \in Elements :
        (\E i \in DOMAIN queue : queue[i] = e)
            ~> ~(\E i \in DOMAIN queue : queue[i] = e)

(* A push that has to wait for room returns in the end, when one thread    *)
(* does all the pushing (the pollers of acceptor and message_queue_server).*)
PushReturns == \A p \in Producers : qpc[p] \in PushPC ~> qpc[p] = "idle"

=============================================================================
