------------------------------ MODULE Receiver ------------------------------
(***************************************************************************)
(* receiver (receiver.h, receiver.cpp): the thread of receiver::run takes  *)
(* messages off a ZeroMQ SUB socket and queues them; the stage handler     *)
(* takes them out one at a time with fetchOne, blocking while there are    *)
(* none.  One mutex, one condition variable; the signal is sent after the  *)
(* mutex is released, and only if the queue was empty before the push.     *)
(*                                                                         *)
(* A zmq_recv that fails is logged and tried again: it changes nothing.  A *)
(* queue above MAX_QUEUE_SIZE is only logged, so it changes nothing either.*)
(***************************************************************************)
EXTENDS Messages, Sequences

VARIABLES
    elements,   \* the std::queue
    lock,       \* "rc", "sh" or "free"
    running,    \* receiver::running
    rpc,        \* where receiver::run is
    received,   \* the message in run's buf: the last one received
    fpc,        \* where the caller of fetchOne is
    fetched     \* what fetchOne returned last

vars == <<elements, lock, running, rpc, received, fpc, fetched>>

-----------------------------------------------------------------------------
(* receiver::receiver *)
Init ==
    /\ elements = <<>>
    /\ lock = "free"
    /\ running = TRUE
    /\ rpc = "connect"
    /\ received = 0
    /\ fpc = "idle"
    /\ fetched = 0

(* zmq_connect and the subscription, either of which may fail. *)
Connect ==
    /\ rpc = "connect"
    /\ rpc' = "recv"
    /\ UNCHANGED <<elements, lock, running, received, fpc, fetched>>

ConnectError ==
    /\ rpc = "connect"
    /\ running' = FALSE
    /\ rpc' = "exited"
    /\ UNCHANGED <<elements, lock, received, fpc, fetched>>

(* zmq_recv returns a message.                                             *)
Recv ==
    /\ rpc = "recv" /\ running
    /\ received < MaxMsg
    /\ received' = received + 1
    /\ rpc' = "lock"
    /\ UNCHANGED <<elements, lock, running, fpc, fetched>>

RecvLock ==
    /\ rpc = "lock"
    /\ lock = "free" /\ lock' = "rc"
    /\ rpc' = "push"
    /\ UNCHANGED <<elements, running, received, fpc, fetched>>

(* The critical section of run, up to the unlock; is_signal is the test    *)
(* for an empty queue, made too late in the mutant.                        *)
IsSignalAfter(q, m) == Append(q, m) = <<>>
IsSignal(q, m) == q = <<>>
RecvPush ==
    /\ rpc = "push"
    /\ elements' = Append(elements, received)
    /\ rpc' = IF IsSignal(elements, received) THEN "signal" ELSE "recv"
    /\ lock' = "free"
    /\ UNCHANGED <<running, received, fpc, fetched>>

(* pthread_cond_signal(&empty_queue), with the mutex already released. *)
RecvSignal ==
    /\ rpc = "signal"
    /\ fpc' = IF fpc = "wait" THEN "lock" ELSE fpc
    /\ rpc' = "recv"
    /\ UNCHANGED <<elements, lock, running, received, fetched>>

(* fetchOne: the call, its mutex, its wait, and its return. *)
FetchCall ==
    /\ fpc = "idle"
    /\ fpc' = "lock"
    /\ UNCHANGED <<elements, lock, running, rpc, received, fetched>>

FetchLock ==
    /\ fpc = "lock"
    /\ lock = "free" /\ lock' = "sh"
    /\ fpc' = "check"
    /\ UNCHANGED <<elements, running, rpc, received, fetched>>

FetchWait ==
    /\ fpc = "check"
    /\ elements = <<>>
    /\ lock' = "free"
    /\ fpc' = "wait"
    /\ UNCHANGED <<elements, running, rpc, received, fetched>>

(* The mutant returns a copy of the front and leaves it in the queue. *)
FetchReturnKeep ==
    /\ fpc = "check"
    /\ elements # <<>>
    /\ fetched' = Head(elements)
    /\ lock' = "free"
    /\ fpc' = "idle"
    /\ UNCHANGED <<elements, running, rpc, received>>
FetchReturn ==
    /\ fpc = "check"
    /\ elements # <<>>
    /\ fetched' = Head(elements)
    /\ elements' = Tail(elements)
    /\ lock' = "free"
    /\ fpc' = "idle"
    /\ UNCHANGED <<running, rpc, received>>

(* POSIX lets pthread_cond_wait return without a signal. *)
SpuriousWakeup ==
    /\ fpc = "wait"
    /\ fpc' = "lock"
    /\ UNCHANGED <<elements, lock, running, rpc, received, fetched>>

Run == RecvLock \/ RecvPush \/ RecvSignal
FetchStep == FetchLock \/ FetchWait

Next ==
    \/ Connect \/ ConnectError \/ Recv \/ Run
    \/ FetchCall \/ FetchStep \/ FetchReturn
    \/ SpuriousWakeup

Spec == Init /\ [][Next]_vars

-----------------------------------------------------------------------------
TypeOK ==
    /\ elements \in Seq(Msg)
    /\ lock \in {"free", "rc", "sh"}
    /\ running \in BOOLEAN
    /\ rpc \in {"connect", "recv", "lock", "push", "signal", "exited"}
    /\ received \in 0 .. MaxMsg
    /\ fpc \in {"idle", "lock", "check", "wait"}
    /\ fetched \in 0 .. MaxMsg

(* 1 while run holds a message that it has not queued yet. *)
InHand == IF rpc \in {"lock", "push"} THEN 1 ELSE 0

(* fetchOne returns the messages in the order of their arrival, each once: *)
(* the queue holds exactly those after the last one fetched and before the *)
(* one in run's buf.                                                       *)
InOrderNoLoss ==
    /\ fetched + Len(elements) + InHand = received
    /\ \A i \in DOMAIN elements : elements[i] = fetched + i

(* Signalling after the unlock, and only for the first message of a queue, *)
(* is enough for the one thread that calls fetchOne: it never sleeps on a  *)
(* queue with messages unless the signal is just about to be sent.         *)
NoLostWakeup == fpc = "wait" /\ elements # <<>> => rpc = "signal"

=============================================================================
