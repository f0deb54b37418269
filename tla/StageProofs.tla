---------------------------- MODULE StageProofs ----------------------------
(***************************************************************************)
(* Proofs about Stage, for any number of messages and workers and any      *)
(* capacity of the queue: what a worker finds in the shared ie is never    *)
(* older than the message its task was submitted for, and the tasks under  *)
(* way are bounded.  The receiver comes first, by itself: its invariant is *)
(* proved of any caller of fetchOne and then carried over to the stage.    *)
(***************************************************************************)
EXTENDS Stage, FiniteSetTheorems, FunctionTheorems, TLAPS

(* The receiver by itself: its types, and what its two threads keep.       *)
RecInv == rec!TypeOK /\ rec!InOrderNoLoss /\ rec!NoLostWakeup

LEMMA InitRecInv == rec!Init => RecInv
BY MessageAssumption DEF rec!Msg, rec!Init, RecInv, rec!TypeOK, rec!InOrderNoLoss, rec!InHand, rec!NoLostWakeup

LEMMA NextRecInv == RecInv /\ [rec!Next]_(rec!vars) => RecInv'
<1> SUFFICES ASSUME RecInv, [rec!Next]_(rec!vars) PROVE RecInv'
  OBVIOUS
<1> USE MessageAssumption DEF rec!Msg, RecInv, rec!TypeOK, rec!InOrderNoLoss, rec!InHand, rec!NoLostWakeup
<1>1. CASE rec!Connect
  BY <1>1 DEF rec!Connect
<1>2. CASE rec!ConnectError
  BY <1>2 DEF rec!ConnectError
<1>3. CASE rec!Recv
  <2>1. rec!TypeOK' /\ rec!NoLostWakeup'
    BY <1>3 DEF rec!Recv
  <2>2. fetched' + Len(elements') + rec!InHand' = received'
    BY <1>3 DEF rec!Recv
  <2>3. \A i \in DOMAIN elements' : elements'[i] = fetched' + i
    BY <1>3 DEF rec!Recv
  <2> QED BY <2>1, <2>2, <2>3
<1>4. CASE rec!RecvLock
  BY <1>4 DEF rec!RecvLock
<1>5. CASE rec!RecvPush
  <2>1. /\ elements' \in Seq(rec!Msg)
        /\ Len(elements') = Len(elements) + 1
        /\ elements'[Len(elements) + 1] = received
        /\ \A i \in DOMAIN elements : elements'[i] = elements[i]
        /\ DOMAIN elements' = 1 .. Len(elements) + 1
    BY <1>5 DEF rec!RecvPush
  <2>2. received = fetched + Len(elements) + 1
    BY <1>5 DEF rec!RecvPush
  <2>3. rec!TypeOK'
    BY <1>5, <2>1 DEF rec!RecvPush
  <2>4. rec!InOrderNoLoss'
    <3>1. fetched' + Len(elements') + rec!InHand' = received'
      BY <1>5, <2>1, <2>2 DEF rec!RecvPush
    <3>2. /\ \A i \in DOMAIN elements : elements[i] = fetched + i
          /\ Len(elements) \in Nat /\ DOMAIN elements = 1 .. Len(elements)
          /\ fetched \in Nat /\ fetched' = fetched
      BY <1>5 DEF rec!RecvPush
    <3>3. \A i \in DOMAIN elements' : elements'[i] = fetched' + i
      <4> TAKE i \in DOMAIN elements'
      <4>1. CASE i \in DOMAIN elements
        BY <4>1, <2>1, <3>2
      <4>2. CASE i = Len(elements) + 1
        BY <4>2, <2>1, <2>2, <3>2
      <4> QED BY <4>1, <4>2, <2>1, <3>2
    <3> QED BY <3>1, <3>3
  <2>5. rec!NoLostWakeup'
    BY <1>5 DEF rec!RecvPush, rec!IsSignal
  <2> QED BY <2>3, <2>4, <2>5
<1>6. CASE rec!RecvSignal
  BY <1>6 DEF rec!RecvSignal
<1>7. CASE rec!FetchCall
  BY <1>7 DEF rec!FetchCall
<1>8. CASE rec!FetchLock
  BY <1>8 DEF rec!FetchLock
<1>9. CASE rec!FetchWait
  BY <1>9 DEF rec!FetchWait
<1>10. CASE rec!FetchReturn
  <2>1. /\ elements' \in Seq(rec!Msg)
        /\ Len(elements') = Len(elements) - 1
        /\ \A i \in DOMAIN elements' : i + 1 \in DOMAIN elements /\ elements'[i] = elements[i + 1]
        /\ Len(elements) > 0
        /\ fetched' = elements[1]
    BY <1>10 DEF rec!FetchReturn
  <2>2. fetched' = fetched + 1
    <3>1. 1 \in DOMAIN elements
      BY <2>1
    <3> QED BY <2>1, <3>1
  <2>3. rec!TypeOK'
    BY <1>10, <2>1, <2>2 DEF rec!FetchReturn
  <2>4. rec!InOrderNoLoss'
    <3>4. PICK h \in {0, 1} : h = rec!InHand /\ h = rec!InHand'
      BY <1>10 DEF rec!FetchReturn
    <3>5. /\ fetched \in Nat /\ Len(elements) \in Nat
          /\ fetched + Len(elements) + h = received /\ received' = received
      BY <1>10, <3>4 DEF rec!FetchReturn
    <3>1. fetched' + Len(elements') + h = received'
      BY <2>1, <2>2, <3>4, <3>5
    <3>2. /\ \A i \in DOMAIN elements : elements[i] = fetched + i
          /\ DOMAIN elements' \subseteq Nat
      <4>1. DOMAIN elements' = 1 .. Len(elements')
        BY <2>1
      <4> QED BY <4>1
    <3>3. \A i \in DOMAIN elements' : elements'[i] = fetched' + i
      <4> TAKE i \in DOMAIN elements'
      <4>1. elements'[i] = elements[i + 1] /\ elements[i + 1] = fetched + (i + 1)
        BY <2>1, <3>2
      <4> QED BY <4>1, <2>2, <3>2, <3>5
    <3> QED BY <3>1, <3>3, <3>4
  <2>5. rec!NoLostWakeup'
    BY <1>10 DEF rec!FetchReturn
  <2> QED BY <2>3, <2>4, <2>5
<1>11. CASE rec!SpuriousWakeup
  BY <1>11 DEF rec!SpuriousWakeup
<1>12. CASE UNCHANGED rec!vars
  BY <1>12 DEF rec!vars
<1> QED BY <1>1, <1>2, <1>3, <1>4, <1>5, <1>6, <1>7, <1>8, <1>9, <1>10, <1>11, <1>12
        DEF rec!Next, rec!Run, rec!FetchStep

(* The queue, the lock and the two program counters of the receiver keep   *)
(* their types, whatever connection errors and wake-ups come in between.   *)
THEOREM ReceiverTypeCorrect == rec!Spec => []rec!TypeOK
<1>1. RecInv => rec!TypeOK
  BY DEF RecInv
<1> QED BY <1>1, InitRecInv, NextRecInv, PTL DEF rec!Spec

(* fetchOne returns every message once and in the order of arrival,        *)
(* however many messages there are and however the two threads interleave. *)
THEOREM FetchInOrder == rec!Spec => []rec!InOrderNoLoss
<1>1. RecInv => rec!InOrderNoLoss
  BY DEF RecInv
<1> QED BY <1>1, InitRecInv, NextRecInv, PTL DEF rec!Spec

(* The signal that receiver::run sends after its unlock always comes for a *)
(* caller of fetchOne that sleeps on a non-empty queue.                    *)
THEOREM FetchNeverStranded == rec!Spec => []rec!NoLostWakeup
<1>1. RecInv => rec!NoLostWakeup
  BY DEF RecInv
<1> QED BY <1>1, InitRecInv, NextRecInv, PTL DEF rec!Spec

-----------------------------------------------------------------------------
QueueType ==
    /\ buf \in Seq(Msg)
    /\ op \in [Workers \cup {"sh"} -> {"idle", "push", "pop"}]
    /\ val \in [Workers \cup {"sh"} -> Msg \cup {None}]
    /\ op["sh"] = "push" => val["sh"] \in Msg
    /\ spc = "submitting" => op["sh"] = "push"

HandlerType ==
    /\ spc \in {"fetch", "fetching", "copy_lo", "copy_hi", "submit", "submitting"}
    /\ ie \in Copy
    /\ hpc \in [Msg -> {"new", "lo", "hi", "answer", "done"}]
    /\ seen \in [Msg -> Copy]
    /\ out \in [Msg -> Copy \cup {None}]

(* ie runs behind fetchOne, and has caught up when a task is submitted.    *)
IeCurrent ==
    /\ ie.lo <= fetched /\ ie.hi <= fetched
    /\ spc = "copy_hi" => ie.lo = fetched
    /\ spc \in {"copy_hi", "copy_lo", "submit"} => fetched >= 1 /\ hpc[fetched] = "new"
    /\ spc \in {"submit", "submitting"} => ie = Whole(fetched)
    /\ \A n \in Msg : hpc[n] # "new" => AtLeast(ie, Whole(n))

(* What a task has read so far is as recent as its own message and no more *)
(* recent than ie.                                                         *)
ReadSoFar ==
    \A n \in Msg :
        /\ hpc[n] = "hi" => seen[n].lo >= n /\ seen[n].lo <= ie.lo
        /\ hpc[n] = "answer" => AtLeast(seen[n], Whole(n)) /\ AtLeast(ie, seen[n])
        /\ hpc[n] = "done" => AtLeast(seen[n], Whole(n))
        /\ out[n] # None => hpc[n] = "done" /\ AtLeast(out[n], seen[n])

StageInv == RecInv /\ QueueType /\ HandlerType /\ IeCurrent /\ ReadSoFar

-----------------------------------------------------------------------------
(* fetchOne hands out the message after the last one.                      *)
LEMMA FetchNext ==
    ASSUME RecInv
    PROVE  /\ fetched \in Nat /\ fetched <= MaxMsg
           /\ rec!FetchReturn => fetched' = fetched + 1 /\ fetched + 1 \in Msg
<1> USE MessageAssumption
<1>1. /\ fetched \in 0 .. MaxMsg /\ elements \in Seq(Msg)
      /\ \A i \in DOMAIN elements : elements[i] = fetched + i
  BY DEF RecInv, rec!TypeOK, rec!InOrderNoLoss, rec!Msg, Msg
<1>2. ASSUME rec!FetchReturn PROVE fetched' = fetched + 1 /\ fetched + 1 \in Msg
  <2>1. fetched' = elements[1] /\ 1 \in DOMAIN elements
    BY <1>1, <1>2 DEF rec!FetchReturn
  <2>2. elements[1] \in Msg /\ elements[1] = fetched + 1
    BY <1>1, <2>1
  <2> QED BY <2>1, <2>2
<1> QED BY <1>1, <1>2

(* Every step of a stage is a step of its receiver or leaves it alone.     *)
LEMMA ReceiverStep == StageInv /\ [Next]_vars => RecInv'
<1> SUFFICES ASSUME StageInv, [Next]_vars PROVE RecInv'
  OBVIOUS
<1>1. [rec!Next]_(rec!vars)
  <2>1. ASSUME UNCHANGED recvars PROVE UNCHANGED rec!vars
    BY <2>1 DEF recvars, rec!vars
  <2>2. CASE ReceiverRun \/ Wakeup
    BY <2>2 DEF ReceiverRun, Wakeup, RecStep, rec!Next
  <2>3. CASE HandlerRun
    BY <2>1, <2>3 DEF HandlerRun, CallFetch, Loop, Fetched, CopyLo, CopyHi, Submit, Submitted,
       RecStep, rec!Next
  <2>4. ASSUME NEW w \in Workers, Worker(w) PROVE UNCHANGED rec!vars
    BY <2>1, <2>4 DEF Worker, PopTask, WorkerStep, ReadLo, ReadHi, Send, SendNothing
  <2>5. CASE UNCHANGED vars
    BY <2>1, <2>5 DEF vars
  <2> QED BY <2>2, <2>3, <2>4, <2>5 DEF Next
<1> QED BY <1>1, NextRecInv DEF StageInv

-----------------------------------------------------------------------------
HandlerInv == QueueType /\ HandlerType /\ IeCurrent /\ ReadSoFar

LEMMA NextHandler == StageInv /\ [Next]_vars => HandlerInv'
<1> SUFFICES ASSUME StageInv, [Next]_vars PROVE HandlerInv'
  OBVIOUS
<1> USE MessageAssumption, StageAssumption DEF Msg, Copy
<1>0. /\ RecInv /\ QueueType /\ HandlerType /\ IeCurrent /\ ReadSoFar
      /\ fetched \in Nat /\ fetched <= MaxMsg
  BY FetchNext DEF StageInv
<1>A. ASSUME UNCHANGED <<queuevars, spc, ie, hpc, seen, out, fetched>> PROVE HandlerInv'
  BY <1>0, <1>A DEF HandlerInv, queuevars, QueueType, HandlerType, IeCurrent, ReadSoFar,
     AtLeast, Whole
<1>1. CASE ReceiverRun \/ Wakeup \/ RecStep(rec!FetchStep)
  BY <1>A, <1>1 DEF ReceiverRun, Wakeup, RecStep, rec!Connect, rec!ConnectError, rec!Recv,
     rec!Run, rec!RecvLock, rec!RecvPush, rec!RecvSignal, rec!SpuriousWakeup,
     rec!FetchStep, rec!FetchLock, rec!FetchWait
<1>2. CASE CallFetch
  BY <1>0, <1>2 DEF CallFetch, rec!FetchCall, HandlerInv, queuevars, QueueType, HandlerType,
     IeCurrent, ReadSoFar, AtLeast, Whole
<1>3. CASE Fetched("copy_lo")
  <2>1. fetched' = fetched + 1 /\ fetched + 1 \in Msg
    BY <1>0, <1>3, FetchNext DEF Fetched
  <2>2. UNCHANGED <<queuevars, ie, hpc, seen, out>> /\ spc' = "copy_lo"
    BY <1>3 DEF Fetched
  <2>3. hpc[fetched + 1] = "new"
    BY <1>0, <2>1 DEF HandlerType, IeCurrent, AtLeast, Whole
  <2>4. QueueType' /\ HandlerType' /\ ReadSoFar'
    BY <1>0, <2>2 DEF queuevars, QueueType, HandlerType, ReadSoFar, AtLeast, Whole
  <2>5. IeCurrent'
    BY <1>0, <2>1, <2>2, <2>3 DEF HandlerType, IeCurrent, AtLeast, Whole
  <2> QED BY <2>4, <2>5 DEF HandlerInv
<1>4. CASE CopyLo
  BY <1>0, <1>4 DEF CopyLo, recvars, HandlerInv, queuevars, QueueType, HandlerType,
     IeCurrent, ReadSoFar, AtLeast, Whole
<1>5. CASE CopyHi("submit")
  BY <1>0, <1>5 DEF CopyHi, recvars, HandlerInv, queuevars, QueueType, HandlerType,
     IeCurrent, ReadSoFar, AtLeast, Whole
<1>6. CASE Submit
  <2>1. fetched \in Msg /\ fetched' = fetched /\ hpc[fetched] = "new" /\ ie' = ie
        /\ spc' = "submitting" /\ UNCHANGED <<seen, out>> /\ spc = "submit"
        /\ hpc' = [hpc EXCEPT ![fetched] = "lo"]
    BY <1>0, <1>6 DEF Submit, recvars, IeCurrent
  <2>2. QueueType'
    BY <1>0, <1>6, <2>1 DEF Submit, jq!CallPush, QueueType
  <2>3. HandlerType' /\ IeCurrent'
    BY <1>0, <2>1 DEF HandlerType, IeCurrent, AtLeast, Whole
  <2>4. ReadSoFar'
    BY <1>0, <2>1 DEF HandlerType, ReadSoFar, AtLeast, Whole
  <2> QED BY <2>2, <2>3, <2>4 DEF HandlerInv
<1>7. CASE Submitted("fetch")
  <2>1. UNCHANGED <<fetched, ie, hpc, seen, out>> /\ spc = "submitting" /\ spc' = "fetch"
    BY <1>7 DEF Submitted, recvars
  <2>2. val["sh"] \in Msg
    BY <1>0, <2>1 DEF QueueType
  <2>3. QueueType'
    BY <1>0, <1>7, <2>1, <2>2 DEF Submitted, jq!Put, QueueType
  <2>4. HandlerType' /\ IeCurrent' /\ ReadSoFar'
    BY <1>0, <2>1 DEF HandlerType, IeCurrent, ReadSoFar, AtLeast, Whole
  <2> QED BY <2>3, <2>4 DEF HandlerInv
<1>8. ASSUME NEW w \in Workers, PopTask(w) PROVE HandlerInv'
  <2>1. UNCHANGED <<spc, ie, hpc, seen, out, fetched>> /\ op'["sh"] = op["sh"] /\ val'["sh"] = val["sh"]
    BY <1>0, <1>8 DEF PopTask, WorkerStep, jq!CallPop, jq!Get, recvars, QueueType
  <2>2. CASE jq!CallPop(w)
    BY <1>0, <2>1, <2>2 DEF jq!CallPop, HandlerInv, QueueType, HandlerType, IeCurrent, ReadSoFar,
       AtLeast, Whole
  <2>3. CASE jq!Get(w)
    <3>1. Head(buf) \in Msg /\ Tail(buf) \in Seq(Msg)
      BY <1>0, <2>3 DEF jq!Get, QueueType
    <3>2. QueueType'
      BY <1>0, <2>1, <2>3, <3>1 DEF jq!Get, QueueType
    <3> QED BY <1>0, <2>1, <3>2 DEF HandlerInv, HandlerType, IeCurrent, ReadSoFar, AtLeast, Whole
  <2> QED BY <1>8, <2>2, <2>3 DEF PopTask, WorkerStep
<1>9. ASSUME NEW w \in Workers, ReadLo(w) PROVE HandlerInv'
  <2>1. PICK n \in Msg : n = val[w]
    BY <1>0, <1>9 DEF ReadLo, Running, QueueType
  <2>2. /\ hpc[n] = "lo" /\ UNCHANGED <<queuevars, spc, ie, out, fetched>>
        /\ seen' = [seen EXCEPT ![n].lo = ie.lo] /\ hpc' = [hpc EXCEPT ![n] = "hi"]
    BY <1>9, <2>1 DEF ReadLo, recvars
  <2>3. QueueType' /\ HandlerType' /\ IeCurrent'
    <3>1. seen' \in [Msg -> Copy]
      BY <1>0, <2>2 DEF HandlerType
    <3>2. hpc' \in [Msg -> {"new", "lo", "hi", "answer", "done"}]
      BY <1>0, <2>2 DEF HandlerType
    <3>3. QueueType' /\ HandlerType'
      BY <1>0, <2>2, <3>1, <3>2 DEF queuevars, QueueType, HandlerType
    <3>4. IeCurrent'
      BY <1>0, <2>2 DEF HandlerType, IeCurrent, AtLeast, Whole
    <3> QED BY <3>3, <3>4
  <2>4. ie.lo >= n
    BY <1>0, <2>2 DEF IeCurrent, AtLeast, Whole
  <2>5. ReadSoFar'
    BY <1>0, <2>2, <2>4 DEF HandlerType, ReadSoFar, AtLeast, Whole
  <2> QED BY <2>3, <2>5 DEF HandlerInv
<1>10. ASSUME NEW w \in Workers, ReadHi(w) PROVE HandlerInv'
  <2>1. PICK n \in Msg : n = val[w]
    BY <1>0, <1>10 DEF ReadHi, Running, QueueType
  <2>2. /\ hpc[n] = "hi" /\ UNCHANGED <<queuevars, spc, ie, out, fetched>>
        /\ seen' = [seen EXCEPT ![n].hi = ie.hi] /\ hpc' = [hpc EXCEPT ![n] = "answer"]
    BY <1>10, <2>1 DEF ReadHi, recvars
  <2>3. QueueType' /\ HandlerType' /\ IeCurrent'
    <3>1. seen' \in [Msg -> Copy]
      BY <1>0, <2>2 DEF HandlerType
    <3>2. hpc' \in [Msg -> {"new", "lo", "hi", "answer", "done"}]
      BY <1>0, <2>2 DEF HandlerType
    <3>3. QueueType' /\ HandlerType'
      BY <1>0, <2>2, <3>1, <3>2 DEF queuevars, QueueType, HandlerType
    <3>4. IeCurrent'
      BY <1>0, <2>2 DEF HandlerType, IeCurrent, AtLeast, Whole
    <3> QED BY <3>3, <3>4
  <2>4. ie.hi >= n
    BY <1>0, <2>2 DEF IeCurrent, AtLeast, Whole
  <2>5. ReadSoFar'
    BY <1>0, <2>2, <2>4 DEF HandlerType, ReadSoFar, AtLeast, Whole
  <2> QED BY <2>3, <2>5 DEF HandlerInv
<1>11. ASSUME NEW w \in Workers, Send(w) PROVE HandlerInv'
  <2>1. PICK n \in Msg : n = val[w]
    BY <1>0, <1>11 DEF Send, Running, QueueType
  <2>2. /\ hpc[n] = "answer" /\ UNCHANGED <<queuevars, spc, ie, seen, fetched>>
        /\ out' = [out EXCEPT ![n] = ie] /\ hpc' = [hpc EXCEPT ![n] = "done"]
    BY <1>11, <2>1 DEF Send, recvars
  <2>3. QueueType' /\ HandlerType' /\ IeCurrent'
    BY <1>0, <2>2 DEF queuevars, QueueType, HandlerType, IeCurrent, AtLeast, Whole
  <2>4. ReadSoFar'
    BY <1>0, <2>2 DEF HandlerType, ReadSoFar, AtLeast, Whole
  <2> QED BY <2>3, <2>4 DEF HandlerInv
<1>12. ASSUME NEW w \in Workers, SendNothing(w) PROVE HandlerInv'
  <2>1. PICK n \in Msg : n = val[w]
    BY <1>0, <1>12 DEF SendNothing, Running, QueueType
  <2>2. /\ hpc[n] = "answer" /\ UNCHANGED <<queuevars, spc, ie, seen, out, fetched>>
        /\ hpc' = [hpc EXCEPT ![n] = "done"]
    BY <1>12, <2>1 DEF SendNothing, recvars
  <2>3. QueueType' /\ HandlerType' /\ IeCurrent'
    BY <1>0, <2>2 DEF queuevars, QueueType, HandlerType, IeCurrent, AtLeast, Whole
  <2>4. ReadSoFar'
    BY <1>0, <2>2 DEF HandlerType, ReadSoFar, AtLeast, Whole
  <2> QED BY <2>3, <2>4 DEF HandlerInv
<1>13. CASE UNCHANGED vars
  BY <1>A, <1>13 DEF vars, recvars
<1> QED BY <1>1, <1>2, <1>3, <1>4, <1>5, <1>6, <1>7, <1>8, <1>9, <1>10, <1>11, <1>12, <1>13
        DEF Next, HandlerRun, Loop, Worker

LEMMA InitStageInv == Init => StageInv
<1> SUFFICES ASSUME Init PROVE StageInv
  OBVIOUS
<1>1. RecInv
  BY InitRecInv DEF Init
<1>2. QueueType /\ HandlerType /\ IeCurrent /\ ReadSoFar
  BY MessageAssumption, StageAssumption DEF Init, rec!Init, jq!Init, jq!Thread, Msg, Copy, QueueType, HandlerType,
     IeCurrent, ReadSoFar, AtLeast, Whole
<1> QED BY <1>1, <1>2 DEF StageInv

(* The shared message, the queue and the tasks of a stage at work keep     *)
(* their types, those of the receiver with it included.                    *)
THEOREM StageTypeCorrect == Spec => []TypeOK
<1>1. StageInv /\ [Next]_vars => StageInv'
  BY ReceiverStep, NextHandler DEF StageInv, HandlerInv
<1>2. StageInv => TypeOK
  BY DEF StageInv, RecInv, QueueType, HandlerType, TypeOK
<1> QED BY <1>1, <1>2, InitStageInv, PTL DEF Spec

(* However far stage_handler::run has gone on overwriting ie, a task reads *)
(* its own message or a later one, and what it sends is no older.          *)
THEOREM StageNeverStale == Spec => []NeverStale
<1>1. StageInv /\ [Next]_vars => StageInv'
  BY ReceiverStep, NextHandler DEF StageInv, HandlerInv
<1>2. StageInv => NeverStale
  BY DEF StageInv, ReadSoFar, NeverStale
<1> QED BY <1>1, <1>2, InitStageInv, PTL DEF Spec

(* In a stage, whatever its workers are doing, fetchOne hands out every    *)
(* message once and in the order of arrival.                               *)
THEOREM StageFetchInOrder == Spec => []InOrderNoLoss
<1>1. StageInv /\ [Next]_vars => StageInv'
  BY ReceiverStep, NextHandler DEF StageInv, HandlerInv
<1>2. StageInv => InOrderNoLoss
  BY DEF StageInv, RecInv, InOrderNoLoss
<1> QED BY <1>1, <1>2, InitStageInv, PTL DEF Spec

(* stage_handler::run never sleeps in fetchOne on a queue with messages    *)
(* unless receiver::run is about to send the signal.                       *)
THEOREM StageFetchNeverStranded == Spec => []NoLostWakeup
<1>1. StageInv /\ [Next]_vars => StageInv'
  BY ReceiverStep, NextHandler DEF StageInv, HandlerInv
<1>2. StageInv => NoLostWakeup
  BY DEF StageInv, RecInv, NoLostWakeup
<1> QED BY <1>1, <1>2, InitStageInv, PTL DEF Spec
-----------------------------------------------------------------------------
(* A task that is under way is being pushed, in the queue, or in the hands *)
(* of a worker that is out of pop; and the queue keeps to its capacity.    *)
Outstanding == {n \in Msg : hpc[n] \notin {"new", "done"}}
AtPush(n) == op["sh"] = "push" /\ val["sh"] = n
InQueue(n) == \E i \in DOMAIN buf : buf[i] = n
AtWorker(n) == \E w \in Workers : op[w] = "idle" /\ val[w] = n
Located == \A n \in Outstanding : AtPush(n) \/ InQueue(n) \/ AtWorker(n)

BoundInv == Located /\ Len(buf) <= max_queue_size

(* handlerFunc moves on in a worker that keeps its task.                   *)
LEMMA NextLocated == StageInv /\ BoundInv /\ [Next]_vars => BoundInv'
<1> SUFFICES ASSUME StageInv, BoundInv, [Next]_vars PROVE BoundInv'
  OBVIOUS
<1> USE StageAssumption
<1>0. /\ QueueType /\ HandlerType /\ IeCurrent /\ Located /\ Len(buf) <= max_queue_size
      /\ buf \in Seq(Msg) /\ "sh" \notin Workers
  BY DEF StageInv, BoundInv, QueueType
<1>A. ASSUME UNCHANGED queuevars, Outstanding' \subseteq Outstanding PROVE BoundInv'
  BY <1>0, <1>A DEF BoundInv, queuevars, Located, AtPush, InQueue, AtWorker
<1>1. ASSUME UNCHANGED <<queuevars, hpc>> PROVE BoundInv'
  BY <1>A, <1>1 DEF Outstanding
<1>2. CASE Submit
  <2>1. /\ fetched \in Msg /\ op["sh"] = "idle" /\ UNCHANGED buf
        /\ op' = [op EXCEPT !["sh"] = "push"] /\ val' = [val EXCEPT !["sh"] = fetched]
        /\ hpc' = [hpc EXCEPT ![fetched] = "lo"]
    <3>1. fetched \in Msg
      BY <1>0, <1>2, FetchNext, MessageAssumption DEF Submit, IeCurrent, StageInv, Msg
    <3> QED BY <1>2, <3>1 DEF Submit, jq!CallPush
  <2>2. ASSUME NEW n \in Outstanding' PROVE (AtPush(n) \/ InQueue(n) \/ AtWorker(n))'
    <3>1. CASE n = fetched
      BY <1>0, <2>1, <3>1 DEF QueueType, AtPush
    <3>2. CASE n # fetched
      <4>1. n \in Outstanding
        BY <1>0, <2>1, <2>2, <3>2 DEF Outstanding, HandlerType
      <4>2. InQueue(n) \/ AtWorker(n)
        BY <1>0, <2>1, <4>1 DEF Located, AtPush
      <4> QED BY <1>0, <2>1, <4>2 DEF QueueType, InQueue, AtWorker
    <3> QED BY <3>1, <3>2
  <2> QED BY <1>0, <2>1, <2>2 DEF BoundInv, Located
<1>3. CASE Submitted("fetch")
  <2>1. /\ op["sh"] = "push" /\ Len(buf) < max_queue_size /\ buf' = Append(buf, val["sh"])
        /\ op' = [op EXCEPT !["sh"] = "idle"] /\ val' = [val EXCEPT !["sh"] = None]
        /\ UNCHANGED hpc
    BY <1>3 DEF Submitted, jq!Put
  <2>2. /\ Len(buf') = Len(buf) + 1 /\ buf'[Len(buf) + 1] = val["sh"]
        /\ \A i \in DOMAIN buf : i \in DOMAIN buf' /\ buf'[i] = buf[i]
        /\ Len(buf) + 1 \in DOMAIN buf'
    BY <1>0, <2>1 DEF QueueType
  <2>3. ASSUME NEW n \in Outstanding PROVE (InQueue(n) \/ AtWorker(n))'
    <3>1. CASE AtPush(n)
      BY <2>2, <3>1 DEF AtPush, InQueue
    <3>2. CASE InQueue(n)
      BY <2>2, <3>2 DEF InQueue
    <3>3. CASE AtWorker(n)
      BY <1>0, <2>1, <3>3 DEF AtWorker, QueueType
    <3> QED BY <1>0, <3>1, <3>2, <3>3 DEF Located
  <2> QED BY <1>0, <2>1, <2>2, <2>3 DEF BoundInv, Located, Outstanding
<1>4. ASSUME NEW w \in Workers, PopTask(w) PROVE BoundInv'
  <2>1. UNCHANGED hpc
    BY <1>4 DEF PopTask, WorkerStep
  <2>2. CASE (Running(w) => hpc[val[w]] = "done") /\ jq!CallPop(w)
    <3>1. ASSUME NEW n \in Outstanding PROVE op[w] # "idle" \/ val[w] # n
      BY <1>0, <2>2, <3>1 DEF Running, Outstanding, QueueType
    <3> QED BY <1>0, <2>1, <2>2, <3>1 DEF jq!CallPop, BoundInv, Located, Outstanding, AtPush, InQueue,
               AtWorker, QueueType
  <2>3. CASE jq!Get(w)
    <3>1. /\ op[w] = "pop" /\ buf # <<>> /\ buf' = Tail(buf)
          /\ op' = [op EXCEPT ![w] = "idle"] /\ val' = [val EXCEPT ![w] = Head(buf)]
      BY <2>3 DEF jq!Get
    <3>2. /\ Len(buf') = Len(buf) - 1 /\ Head(buf) = buf[1]
          /\ \A i \in DOMAIN buf : i = 1 \/ (i - 1 \in DOMAIN buf' /\ buf'[i - 1] = buf[i])
      BY <1>0, <3>1
    <3>3. ASSUME NEW n \in Outstanding PROVE (AtPush(n) \/ InQueue(n) \/ AtWorker(n))'
      <4>1. CASE AtPush(n)
        BY <1>0, <3>1, <4>1 DEF AtPush, QueueType
      <4>2. CASE InQueue(n)
        <5>1. PICK i \in DOMAIN buf : buf[i] = n
          BY <4>2 DEF InQueue
        <5>2. CASE i = 1
          BY <1>0, <3>1, <3>2, <5>1, <5>2 DEF AtWorker, QueueType
        <5>3. CASE i # 1
          BY <3>2, <5>1, <5>3 DEF InQueue
        <5> QED BY <5>2, <5>3
      <4>3. CASE AtWorker(n)
        BY <1>0, <3>1, <4>3 DEF AtWorker, QueueType
      <4> QED BY <1>0, <4>1, <4>2, <4>3 DEF Located
    <3>4. Len(buf') <= max_queue_size
      BY <1>0, <3>2
    <3> QED BY <2>1, <3>3, <3>4 DEF BoundInv, Located, Outstanding
  <2> QED BY <1>4, <2>2, <2>3 DEF PopTask, WorkerStep
<1>5. ASSUME NEW w \in Workers, ReadLo(w) \/ ReadHi(w) \/ Send(w) \/ SendNothing(w) PROVE BoundInv'
  <2>1. /\ UNCHANGED queuevars /\ val[w] \in Msg /\ val[w] \in Outstanding
        /\ \E p \in {"hi", "answer", "done"} : hpc' = [hpc EXCEPT ![val[w]] = p]
    BY <1>0, <1>5 DEF ReadLo, ReadHi, Send, SendNothing, Running, Outstanding, QueueType
  <2> QED BY <1>0, <1>A, <2>1 DEF Outstanding, HandlerType
<1>6. CASE ReceiverRun \/ Wakeup \/ RecStep(rec!FetchStep) \/ CallFetch \/ Fetched("copy_lo")
           \/ CopyLo \/ CopyHi("submit")
  BY <1>1, <1>6 DEF ReceiverRun, Wakeup, RecStep, CallFetch, Fetched, CopyLo, CopyHi
<1>7. CASE UNCHANGED vars
  BY <1>1, <1>7 DEF vars
<1> QED BY <1>2, <1>3, <1>4, <1>5, <1>6, <1>7 DEF Next, HandlerRun, Loop, Worker

(* A sequence has at most as many values as places.                        *)
LEMMA RangeBound ==
    ASSUME NEW S, NEW D, IsFiniteSet(D), NEW f \in [D -> S]
    PROVE  IsFiniteSet(Range(f)) /\ Cardinality(Range(f)) <= Cardinality(D)
<1>1. f \in Surjection(D, Range(f))
  BY Fun_RangeProperties
<1> QED BY <1>1, FS_Surjection

(* The places a task can be at, counted.                                   *)
LEMMA CountPlaces == StageInv /\ BoundInv => OutstandingBounded
<1> SUFFICES ASSUME StageInv, BoundInv PROVE OutstandingBounded
  OBVIOUS
<1> USE StageAssumption
<1> DEFINE held == [w \in Workers |-> val[w]]
           queued == Range(buf)
           atWork == Range(held)
           all == (queued \cup atWork) \cup {val["sh"]}
<1>1. /\ Len(buf) \in Nat /\ buf \in [1 .. Len(buf) -> Msg] /\ Len(buf) <= max_queue_size
      /\ val \in [Workers \cup {"sh"} -> Msg \cup {None}]
  BY DEF StageInv, QueueType, BoundInv
<1>2. IsFiniteSet(1 .. Len(buf)) /\ Cardinality(1 .. Len(buf)) = Len(buf)
  <2>1. 1 \in Int /\ Len(buf) \in Int
    BY <1>1
  <2>2. /\ IsFiniteSet(1 .. Len(buf))
        /\ Cardinality(1 .. Len(buf)) = IF 1 > Len(buf) THEN 0 ELSE Len(buf) - 1 + 1
    BY <2>1, FS_Interval, Zenon
  <2> QED BY <1>1, <2>2
<1>3. IsFiniteSet(queued) /\ Cardinality(queued) <= Len(buf)
  <2>1. IsFiniteSet(queued) /\ Cardinality(queued) <= Cardinality(1 .. Len(buf))
    BY <1>1, <1>2, RangeBound, Zenon
  <2> QED BY <1>2, <2>1
<1>4. held \in [Workers -> Msg \cup {None}]
  BY <1>1
<1>5. IsFiniteSet(atWork) /\ Cardinality(atWork) <= Cardinality(Workers)
  BY <1>4, RangeBound
<1>6. Outstanding \subseteq all
  BY <1>1 DEF BoundInv, Located, AtPush, InQueue, AtWorker, Range
<1> HIDE DEF queued, atWork
<1>7. /\ Cardinality(queued) \in Nat /\ Cardinality(atWork) \in Nat /\ Cardinality(Workers) \in Nat
      /\ Cardinality(queued \cap atWork) \in Nat
  BY <1>3, <1>5, FS_CardinalityType, FS_Intersection
<1>8. /\ IsFiniteSet(queued \cup atWork)
      /\ Cardinality(queued \cup atWork) <= Len(buf) + Cardinality(Workers)
      /\ Cardinality(queued \cup atWork) \in Nat
  <2>1. /\ IsFiniteSet(queued \cup atWork)
        /\ Cardinality(queued \cup atWork)
              = Cardinality(queued) + Cardinality(atWork) - Cardinality(queued \cap atWork)
    BY <1>3, <1>5, FS_Union, Zenon
  <2>2. Cardinality(queued \cup atWork) \in Nat
    BY <2>1, FS_CardinalityType
  <2> QED BY <1>1, <1>3, <1>5, <1>7, <2>1, <2>2
<1>9. /\ IsFiniteSet(all)
      /\ Cardinality(all) <= Len(buf) + Cardinality(Workers) + 1
      /\ Cardinality(all) \in Nat
  <2>1. /\ IsFiniteSet(all)
        /\ Cardinality(all) = IF val["sh"] \in queued \cup atWork THEN Cardinality(queued \cup atWork)
                              ELSE Cardinality(queued \cup atWork) + 1
    BY <1>8, FS_AddElement, Zenon
  <2>2. Cardinality(all) \in Nat
    BY <2>1, FS_CardinalityType
  <2> QED BY <1>1, <1>7, <1>8, <2>1, <2>2
<1>10. Cardinality(Outstanding) <= Cardinality(all) /\ Cardinality(Outstanding) \in Nat
  BY <1>6, <1>9, FS_Subset, FS_CardinalityType
<1>11. Cardinality(Outstanding) <= max_queue_size + Cardinality(Workers) + 1
  <2> HIDE DEF all, Outstanding
  <2> QED BY <1>1, <1>7, <1>9, <1>10
<1> QED BY <1>11 DEF OutstandingBounded, Outstanding

(* Tasks that were submitted and are not finished are at most those in the *)
(* queue of the pool, those at its workers and the one being pushed,       *)
(* however many messages arrive: a slow function holds back                *)
(* stage_handler::run, and not the pool's memory.                          *)
THEOREM StageOutstandingBounded == Spec => []OutstandingBounded
<1>1. Init => StageInv /\ BoundInv
  <2>1. Init => BoundInv
    BY StageAssumption DEF Init, jq!Init, BoundInv, Located, Outstanding
  <2> QED BY <2>1, InitStageInv
<1>2. StageInv /\ BoundInv /\ [Next]_vars => (StageInv /\ BoundInv)'
  BY ReceiverStep, NextHandler, NextLocated DEF StageInv, HandlerInv
<1> QED BY <1>1, <1>2, CountPlaces, PTL DEF Spec

=============================================================================
