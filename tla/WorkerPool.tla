----------------------------- MODULE WorkerPool -----------------------------
(***************************************************************************)
(* worker_pool and thread_worker_pool (worker_pool.h, worker_pool.cpp): a  *)
(* fixed set of threads, each looping over pop, the callback and delete,   *)
(* on one mutex_task_queue; clients submit tasks with run.  The queue is   *)
(* TaskQueue.tla, whose push and pop the clients and workers go through    *)
(* step by step.                                                           *)
(*                                                                         *)
(* start() sets running before it creates a thread, and nothing clears it, *)
(* so the test of `while (wp->running)' never fails and is left out.  A    *)
(* thread that was created and has not run yet is at "loop".               *)
(*                                                                         *)
(* running_num is shared by all workers: its ++ and -- are a load and a    *)
(* store, under statics_lock.                                              *)
(***************************************************************************)
EXTENDS Integers, Sequences, FiniteSets

CONSTANTS
    Clients,          \* threads that call run
    Workers,          \* the threads that start() creates
    Task,             \* the queue_elements that run allocates, one per call
    Endless,          \* the tasks whose callback loops for ever
    max_queue_size, None

ASSUME PoolAssumption ==
    /\ max_queue_size \in Nat \ {0}
    /\ None \notin Task /\ None \notin Clients \cup Workers
    /\ Clients # {} /\ Workers # {} /\ Clients \cap Workers = {}
    /\ IsFiniteSet(Workers)
    /\ Endless \subseteq Task

VARIABLES
    queue, empty, full, queue_mutex, qpc, val,   \* the task queue jq
    wpc,            \* wpc[w]: where worker w is in per_worker_task
    statics_lock,   \* the holder, or None
    running_num,
    loaded,         \* loaded[w]: the running_num that w's ++ or -- read
    fresh,          \* the queue_elements not yet allocated by a run
    deleted         \* the queue_elements already deleted

jqvars == <<queue, empty, full, queue_mutex, qpc, val>>
vars == <<jqvars, wpc, statics_lock, running_num, loaded, fresh, deleted>>

jq == INSTANCE TaskQueue WITH
          Producers <- Clients, Consumers <- Workers, Elements <- Task

WorkerPC == {"loop", "pop", "inc_lock", "inc", "run", "dec_lock", "dec"}

-----------------------------------------------------------------------------
(* worker_pool::init, then start *)
Init ==
    /\ jq!Init
    /\ wpc = [w \in Workers |-> "loop"]
    /\ statics_lock = None
    /\ running_num = 0
    /\ loaded = [w \in Workers |-> 0]
    /\ fresh = Task
    /\ deleted = {}

(* worker_pool::run: new queue_element, then push; the mutant pushes one   *)
(* that was allocated before.                                              *)
runAgain(c, t) ==
    /\ jq!PushCall(c, t)
    /\ UNCHANGED <<wpc, statics_lock, running_num, loaded, fresh, deleted>>
run(c, t) ==
    /\ t \in fresh
    /\ jq!PushCall(c, t)
    /\ fresh' = fresh \ {t}
    /\ UNCHANGED <<wpc, statics_lock, running_num, loaded, deleted>>

(* push inside run, and the locking and waiting inside push and pop. *)
Push(c) ==
    /\ jq!Push(c)
    /\ UNCHANGED <<wpc, statics_lock, running_num, loaded, fresh, deleted>>

Advance(t) ==
    /\ jq!Advance(t)
    /\ UNCHANGED <<wpc, statics_lock, running_num, loaded, fresh, deleted>>

SpuriousWakeup(t) ==
    /\ jq!SpuriousWakeup(t)
    /\ UNCHANGED <<wpc, statics_lock, running_num, loaded, fresh, deleted>>

(* per_worker_task: the worker comes round and calls pop. *)
Loop(w) ==
    /\ wpc[w] = "loop"
    /\ jq!PopCall(w)
    /\ wpc' = [wpc EXCEPT ![w] = "pop"]
    /\ UNCHANGED <<statics_lock, running_num, loaded, fresh, deleted>>

(* pop returns the queue_element. *)
Pop(w) ==
    /\ wpc[w] = "pop"
    /\ jq!Pop(w)
    /\ wpc' = [wpc EXCEPT ![w] = "inc_lock"]
    /\ UNCHANGED <<statics_lock, running_num, loaded, fresh, deleted>>

(* pthread_mutex_lock(&statics_lock) and the load of running_num.  The     *)
(* mutant does not lock.                                                   *)
LoadRunningNum(w) ==
    /\ \/ wpc[w] = "inc_lock" /\ wpc' = [wpc EXCEPT ![w] = "inc"]
       \/ wpc[w] = "dec_lock" /\ wpc' = [wpc EXCEPT ![w] = "dec"]
    /\ loaded' = [loaded EXCEPT ![w] = running_num]
    /\ UNCHANGED <<jqvars, running_num, fresh, deleted>>
StatsUnlocked(w) == LoadRunningNum(w) /\ UNCHANGED statics_lock
StatsLock(w) ==
    /\ statics_lock = None
    /\ statics_lock' = w
    /\ LoadRunningNum(w)

(* The store of running_num and the unlock; the worker goes on to the      *)
(* callback, or comes round.                                               *)
StatsStore(w) ==
    /\ \/ /\ wpc[w] = "inc"
          /\ running_num' = loaded[w] + 1
          /\ wpc' = [wpc EXCEPT ![w] = "run"]
       \/ /\ wpc[w] = "dec"
          /\ running_num' = loaded[w] - 1
          /\ wpc' = [wpc EXCEPT ![w] = "loop"]
    /\ statics_lock' = None
    /\ UNCHANGED <<jqvars, loaded, fresh, deleted>>

(* The callback returns, and the worker deletes the queue_element. *)
Return(w) ==
    /\ wpc[w] = "run"
    /\ deleted' = deleted \cup {val[w]}
    /\ wpc' = [wpc EXCEPT ![w] = "dec_lock"]
    /\ UNCHANGED <<jqvars, statics_lock, running_num, loaded, fresh>>

-----------------------------------------------------------------------------
(* The steps of a thread that do not depend on the tasks. *)
Client(c) == Push(c) \/ Advance(c)
Worker(w) == Loop(w) \/ Pop(w) \/ Advance(w) \/ StatsLock(w) \/ StatsStore(w)

Next ==
    \/ \E c \in Clients : Client(c) \/ \E t \in Task : run(c, t)
    \/ \E w \in Workers : \/ Worker(w)
                          \/ val[w] \notin Endless /\ Return(w)
    \/ \E t \in Clients \cup Workers : SpuriousWakeup(t)

Spec == Init /\ [][Next]_vars

(* Threads that can run do run, and wake-ups that nobody asked for come to *)
(* an end.  Nothing is assumed of who wins a contended mutex.              *)
ThreadFairness ==
    /\ \A c \in Clients : WF_vars(Client(c))
    /\ \A w \in Workers : WF_vars(Worker(w))
    /\ <>[][~ \E t \in Clients \cup Workers : SpuriousWakeup(t)]_vars

(* A callback that is not endless returns. *)
Fairness ==
    /\ ThreadFairness
    /\ \A w \in Workers : WF_vars(val[w] \notin Endless /\ Return(w))

FairSpec == Spec /\ Fairness

-----------------------------------------------------------------------------
TypeOK ==
    /\ jq!TypeOK
    /\ wpc \in [Workers -> WorkerPC]
    /\ statics_lock \in Workers \cup {None}
    /\ running_num \in Int
    /\ loaded \in [Workers -> Int]
    /\ fresh \subseteq Task /\ deleted \subseteq Task

(* Where the queue_elements that were allocated and not yet deleted are.   *)
Pushing(t) == {c \in Clients : qpc[c] \in jq!PushPC /\ val[c] = t}
Places(t) == {i \in DOMAIN queue : queue[i] = t}
Holding(t) == {w \in Workers : wpc[w] \in {"inc_lock", "inc", "run"} /\ val[w] = t}

AtMostOne(S) == \A x, y \in S : x = y

(* A queue_element has one owner all its life: one client that is pushing  *)
(* it, then one place of the queue, then one worker, then none.  No two    *)
(* workers run or delete the same one, and none is lost on the way.        *)
OneOwner ==
    \A t \in Task :
        /\ AtMostOne(Pushing(t)) /\ AtMostOne(Places(t)) /\ AtMostOne(Holding(t))
        /\ t \in fresh => t \notin deleted
        /\ t \in fresh \cup deleted
              <=> Pushing(t) = {} /\ Places(t) = {} /\ Holding(t) = {}
        /\ Pushing(t) # {} => Places(t) = {} /\ Holding(t) = {}
        /\ Places(t) # {} => Holding(t) = {}

(* The workers that stage_control sees as running: those between the       *)
(* store of ++ and the store of --.                                        *)
Counted == {w \in Workers : wpc[w] \in {"run", "dec_lock", "dec"}}

(* running_num counts the workers that are in a callback or just out of    *)
(* one: no ++ or -- is lost, it never goes below zero and never above the  *)
(* number of workers.                                                      *)
RunningNumExact == running_num = Cardinality(Counted)

(* The pool keeps to what the queue expects of its callers (no element is  *)
(* pushed while it is still on its way or queued, workers only pop), so    *)
(* everything TaskQueue promises holds of the pool's queue.                *)
UsesQueue == jq!Spec

(* Every task given to run finishes, however often the queue fills up in   *)
(* between, when no callback is endless and one thread submits.            *)
EveryTaskFinishes == \A t \in Task : t \notin fresh ~> t \in deleted

=============================================================================
