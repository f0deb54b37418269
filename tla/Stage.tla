------------------------------- MODULE Stage -------------------------------
(***************************************************************************)
(* A stage at work: the receiver, the stage handler and the worker pool    *)
(* together (receiver.cpp, stage_handler.cpp, worker_pool.cpp).            *)
(*                                                                         *)
(*   receiver::run -> elements -> fetchOne -> sh->ie -> worker -> sendMsg  *)
(*                                                                         *)
(* stage_handler::run fetches a message, assigns it to the member ie, and  *)
(* submits handlerFunc to the pool with the handler object itself as the   *)
(* argument.  The worker reads ie when it gets round to it, in place and   *)
(* with no lock, while stage_handler::run goes on to the next message.     *)
(* Message n and the task submitted after it share the number n.           *)
(*                                                                         *)
(* ie is 256 bytes that one thread copies over while others read: a data   *)
(* race.  It is modelled as two halves that are written and read one after *)
(* the other, so a reader can find halves of two messages.                 *)
(*                                                                         *)
(* The modules rc, sc and sh keep three of the pool's threads for good     *)
(* (StageStart.tla); Workers are the others, and "sh" is the thread of     *)
(* stage_handler::run, a client of the pool.  The pool's queue is the      *)
(* BoundedFifo that TaskQueue implements and WorkerPool uses as it should  *)
(* (theorems ImplementsFifo and PoolUsesQueue), so its mutex and its       *)
(* wake-ups need not be repeated here; the receiver is Receiver.tla.       *)
(***************************************************************************)
EXTENDS Messages, Integers, Sequences, FiniteSets

CONSTANTS Workers, max_queue_size, None

ASSUME StageAssumption ==
    /\ max_queue_size \in Nat \ {0}
    /\ Workers # {} /\ IsFiniteSet(Workers) /\ "sh" \notin Workers
    /\ None \notin Msg

VARIABLES
    elements, lock, running, rpc, received, fpc, fetched,   \* the receiver rec
    buf, op, val,   \* the queue of the pool wp, and its callers
    spc,    \* where stage_handler::run is
    ie,     \* the member ie: the message in each half of the buffer
    hpc,    \* hpc[n]: where handlerFunc is in task n
    seen,   \* seen[n]: what the stage's function read in task n
    out     \* out[n]: what task n sent to the next stage, or None

recvars == <<elements, lock, running, rpc, received, fpc, fetched>>
queuevars == <<buf, op, val>>
vars == <<recvars, queuevars, spc, ie, hpc, seen, out>>

Copy == [lo : 0 .. MaxMsg, hi : 0 .. MaxMsg]

rec == INSTANCE Receiver
jq == INSTANCE BoundedFifo WITH
          Producers <- {"sh"}, Consumers <- Workers, Elements <- Msg,
          Capacity <- max_queue_size

-----------------------------------------------------------------------------
Init ==
    /\ rec!Init
    /\ jq!Init
    /\ spc = "fetch"
    /\ ie = [lo |-> 0, hi |-> 0]
    /\ hpc = [n \in Msg |-> "new"]
    /\ seen = [n \in Msg |-> [lo |-> 0, hi |-> 0]]
    /\ out = [n \in Msg |-> None]

(* receiver::run, in a thread of its own. *)
RecStep(A) == A /\ UNCHANGED <<queuevars, spc, ie, hpc, seen, out>>
ReceiverRun == RecStep(rec!Connect \/ rec!ConnectError \/ rec!Recv \/ rec!Run)

(* stage_handler::run: sh->ie = sh->rec->fetchOne() *)
CallFetch ==
    /\ spc = "fetch"
    /\ rec!FetchCall
    /\ spc' = "fetching"
    /\ UNCHANGED <<queuevars, ie, hpc, seen, out>>
Fetched(then) ==
    /\ spc = "fetching"
    /\ rec!FetchReturn
    /\ spc' = then
    /\ UNCHANGED <<queuevars, ie, hpc, seen, out>>
CopyLo ==
    /\ spc = "copy_lo"
    /\ ie' = [ie EXCEPT !.lo = fetched]
    /\ spc' = "copy_hi"
    /\ UNCHANGED <<recvars, queuevars, hpc, seen, out>>
CopyHi(then) ==
    /\ spc = "copy_hi"
    /\ ie' = [ie EXCEPT !.hi = fetched]
    /\ spc' = then
    /\ UNCHANGED <<recvars, queuevars, hpc, seen, out>>

(* Function func(handlerFunc, sh); sh->wp->run(func) *)
Submit ==
    /\ spc = "submit"
    /\ jq!CallPush("sh", fetched)
    /\ hpc' = [hpc EXCEPT ![fetched] = "lo"]
    /\ spc' = "submitting"
    /\ UNCHANGED <<recvars, ie, seen, out>>
Submitted(then) ==
    /\ spc = "submitting"
    /\ jq!Put("sh")
    /\ spc' = then
    /\ UNCHANGED <<recvars, ie, hpc, seen, out>>

(* The body of the loop in this order: fetch, assign, submit.  The mutant  *)
(* submits the task before it assigns ie.                                  *)
LoopSubmitFirst == Fetched("submit") \/ Submitted("copy_lo") \/ CopyLo \/ CopyHi("fetch")
Loop == Fetched("copy_lo") \/ CopyLo \/ CopyHi("submit") \/ Submitted("fetch")

(* per_worker_task: pop, and the task that it returned. *)
Running(w) == op[w] = "idle" /\ val[w] # None
WorkerStep(A) == A /\ UNCHANGED <<recvars, spc, ie, hpc, seen, out>>
PopTask(w) ==
    \/ /\ Running(w) => hpc[val[w]] = "done"
       /\ WorkerStep(jq!CallPop(w))
    \/ WorkerStep(jq!Get(w))

(* handlerFunc in worker w: the stage's function reads ie in place (the    *)
(* memcpy of receiveAndResponse, the log line of searchCache).             *)
ReadLo(w) ==
    /\ Running(w) /\ hpc[val[w]] = "lo"
    /\ seen' = [seen EXCEPT ![val[w]].lo = ie.lo]
    /\ hpc' = [hpc EXCEPT ![val[w]] = "hi"]
    /\ UNCHANGED <<recvars, queuevars, spc, ie, out>>
ReadHi(w) ==
    /\ Running(w) /\ hpc[val[w]] = "hi"
    /\ seen' = [seen EXCEPT ![val[w]].hi = ie.hi]
    /\ hpc' = [hpc EXCEPT ![val[w]] = "answer"]
    /\ UNCHANGED <<recvars, queuevars, spc, ie, out>>

(* The function returns a pointer into ie; handlerFunc copies from there   *)
(* into a new IElement, which sendMsg publishes.                           *)
Send(w) ==
    /\ Running(w) /\ hpc[val[w]] = "answer"
    /\ out' = [out EXCEPT ![val[w]] = ie]
    /\ hpc' = [hpc EXCEPT ![val[w]] = "done"]
    /\ UNCHANGED <<recvars, queuevars, spc, ie, seen>>

(* The function returns NULL, or zmq_send with ZMQ_DONTWAIT gives up with  *)
(* EAGAIN and the result of sendMsg is ignored.                            *)
SendNothing(w) ==
    /\ Running(w) /\ hpc[val[w]] = "answer"
    /\ hpc' = [hpc EXCEPT ![val[w]] = "done"]
    /\ UNCHANGED <<recvars, queuevars, spc, ie, seen, out>>

HandlerRun ==
    CallFetch \/ RecStep(rec!FetchStep) \/ Loop \/ Submit

Worker(w) ==
    PopTask(w) \/ ReadLo(w) \/ ReadHi(w) \/ Send(w) \/ SendNothing(w)

Wakeup == RecStep(rec!SpuriousWakeup)

Next == ReceiverRun \/ HandlerRun \/ (\E w \in Workers : Worker(w)) \/ Wakeup

Spec == Init /\ [][Next]_vars

(* The threads run when they can, and the stage's function returns.        *)
(* Nothing is assumed about messages arriving or about the network.        *)
FairSpec ==
    /\ Spec
    /\ WF_vars(RecStep(rec!Run))
    /\ WF_vars(HandlerRun)
    /\ \A w \in Workers : WF_vars(Worker(w))
    /\ <>[][~Wakeup]_vars

-----------------------------------------------------------------------------
TypeOK ==
    /\ rec!TypeOK
    /\ buf \in Seq(Msg)
    /\ op \in [Workers \cup {"sh"} -> {"idle", "push", "pop"}]
    /\ val \in [Workers \cup {"sh"} -> Msg \cup {None}]
    /\ spc \in {"fetch", "fetching", "copy_lo", "copy_hi", "submit", "submitting"}
    /\ ie \in Copy
    /\ hpc \in [Msg -> {"new", "lo", "hi", "answer", "done"}]
    /\ seen \in [Msg -> Copy]
    /\ out \in [Msg -> Copy \cup {None}]

(* What fetchOne promises, in the stage that calls it: the messages come   *)
(* out in the order in which they came in, each once.                      *)
InOrderNoLoss == rec!InOrderNoLoss

(* The thread of stage_handler::run never sleeps in fetchOne on a queue    *)
(* with messages unless the signal is just about to be sent.               *)
NoLostWakeup == rec!NoLostWakeup

AtLeast(c, d) == c.lo >= d.lo /\ c.hi >= d.hi
Whole(n) == [lo |-> n, hi |-> n]

(* A worker may find in ie a later message than the one its task was       *)
(* submitted for, or halves of two, but never an older one; and what it    *)
(* sends is never older than what its function read.                       *)
NeverStale ==
    \A n \in Msg :
        /\ hpc[n] \in {"answer", "done"} => AtLeast(seen[n], Whole(n))
        /\ out[n] # None => AtLeast(out[n], seen[n])

(* Tasks that were submitted and are not finished: at most those in the    *)
(* queue, those in the workers' hands and the one stage_handler::run is    *)
(* pushing.  A slow function holds back stage_handler::run; the messages   *)
(* pile up in the receiver, which has no limit.                            *)
OutstandingBounded ==
    Cardinality({n \in Msg : hpc[n] \notin {"new", "done"}})
        <= max_queue_size + Cardinality(Workers) + 1

(* What arrives is not forgotten: of every message or of one that came     *)
(* later, each half is read by some task.                                  *)
NewsGetsThrough ==
    \A n \in Msg :
        received >= n ~> \E k \in Msg : hpc[k] = "done" /\ AtLeast(seen[k], Whole(n))

(* Every task handles the message that it was submitted for. *)
HandlesOwnMessage ==
    \A n \in Msg : hpc[n] \in {"answer", "done"} => seen[n] = Whole(n)

=============================================================================
