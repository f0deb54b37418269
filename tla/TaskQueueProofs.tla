-------------------------- MODULE TaskQueueProofs --------------------------
(***************************************************************************)
(* Proofs about TaskQueue, for any numbers of threads, any elements and    *)
(* any max_queue_size: the invariants TypeOK, FlagsExact and NoStandstill, *)
(* and that mutex_task_queue implements BoundedFifo.                       *)
(***************************************************************************)
EXTENDS TaskQueue, TLAPS

(* A push carries an element from its call to its unlock.                  *)
Carried == \A t \in Thread : qpc[t] \in PushPC => val[t] \in Elements

IInv == TypeOK /\ Carried /\ FlagsExact /\ NoStandstill

-----------------------------------------------------------------------------
PC == {"idle"} \cup PushPC \cup PopPC

(* What pthread_cond_signal leaves of the program counters.                *)
LEMMA SignalType ==
    ASSUME NEW pcs \in [Thread -> PC], NEW at, NEW to \in PC,
           NEW r \in Signal(pcs, at, to)
    PROVE  /\ r \in [Thread -> PC]
           /\ \A t \in Thread : r[t] = pcs[t] \/ (pcs[t] = at /\ r[t] = to)
BY DEF Signal

(* A signal with a sleeper wakes one.                                      *)
LEMMA SignalWakes ==
    ASSUME NEW pcs \in [Thread -> PC], NEW at, NEW to \in PC,
           NEW r \in Signal(pcs, at, to),
           \E t \in Thread : pcs[t] = at
    PROVE  \E t \in Thread : pcs[t] = at /\ r[t] = to
BY DEF Signal

(* What push does to the program counters: the caller returns, and at most *)
(* a consumer asleep on not_empty is sent to the mutex.                    *)
PushMoves(t) ==
    /\ qpc' \in [Thread -> PC]
    /\ \A u \in Thread : \/ u # t /\ qpc'[u] = qpc[u]
                         \/ u = t /\ qpc'[u] = "idle"
                         \/ u # t /\ qpc[u] = "pop_wait" /\ qpc'[u] = "pop_lock"

LEMMA PushEffect ==
    ASSUME TypeOK, NEW t \in Thread, Push(t)
    PROVE  PushMoves(t)
<1> DEFINE pcs == [qpc EXCEPT ![t] = "idle"]
<1>1. /\ pcs \in [Thread -> PC]
      /\ \A u \in Thread : pcs[u] = IF u = t THEN "idle" ELSE qpc[u]
  BY DEF TypeOK, PC
<1>2. qpc' = pcs \/ qpc' \in Signal(pcs, "pop_wait", "pop_lock")
  BY DEF Push, PushBody, WakeConsumer
<1>3. "pop_lock" \in PC
  BY DEF PC, PopPC
<1> HIDE DEF pcs
<1>4. /\ qpc' \in [Thread -> PC]
      /\ \A u \in Thread : qpc'[u] = pcs[u] \/ (pcs[u] = "pop_wait" /\ qpc'[u] = "pop_lock")
  BY <1>1, <1>2, <1>3, SignalType
<1> QED BY <1>1, <1>4 DEF PushMoves

(* What pop does to them: the caller returns, and at most a producer       *)
(* asleep on not_full is sent to the mutex.                                *)
PopMoves(t) ==
    /\ qpc' \in [Thread -> PC]
    /\ \A u \in Thread : \/ u # t /\ qpc'[u] = qpc[u]
                         \/ u = t /\ qpc'[u] = "idle"
                         \/ u # t /\ qpc[u] = "push_wait" /\ qpc'[u] = "push_lock"

LEMMA PopEffect ==
    ASSUME TypeOK, NEW t \in Thread, Pop(t)
    PROVE  PopMoves(t)
<1> DEFINE pcs == [qpc EXCEPT ![t] = "idle"]
<1>1. /\ pcs \in [Thread -> PC]
      /\ \A u \in Thread : pcs[u] = IF u = t THEN "idle" ELSE qpc[u]
  BY DEF TypeOK, PC
<1>2. qpc' = pcs \/ qpc' \in Signal(pcs, "push_wait", "push_lock")
  BY DEF Pop, WakeProducer
<1>3. "push_lock" \in PC
  BY DEF PC, PushPC
<1> HIDE DEF pcs
<1>4. /\ qpc' \in [Thread -> PC]
      /\ \A u \in Thread : qpc'[u] = pcs[u] \/ (pcs[u] = "push_wait" /\ qpc'[u] = "push_lock")
  BY <1>1, <1>2, <1>3, SignalType
<1> QED BY <1>1, <1>4 DEF PopMoves

-----------------------------------------------------------------------------
LEMMA InitIInv == Init => IInv
<1> SUFFICES ASSUME Init PROVE IInv
  OBVIOUS
<1> USE QueueAssumption DEF Init
<1>1. TypeOK
  <2>1. empty \in BOOLEAN /\ full \in BOOLEAN
    BY Zenon
  <2>3. queue \in Seq(Elements)
    OBVIOUS
  <2>2. /\ qpc \in [Thread -> PC]
        /\ \A t \in Thread : qpc[t] \notin PushPC \cup PopPC
        /\ val \in [Thread -> Elements \cup {None}]
        /\ queue_mutex \in Thread \cup {None}
    BY DEF PC, PushPC, PopPC
  <2> QED BY <2>1, <2>2, <2>3 DEF TypeOK, PC, Thread
<1>2. Carried
  BY DEF Carried, PushPC
<1>3. FlagsExact
  BY DEF FlagsExact
<1>4. NoStandstill
  BY DEF NoStandstill, Thread
<1> QED BY <1>1, <1>2, <1>3, <1>4 DEF IInv

LEMMA NextIInv == IInv /\ [Next]_vars => IInv'
<1> SUFFICES ASSUME IInv, [Next]_vars PROVE IInv'
  OBVIOUS
<1> USE QueueAssumption DEF IInv
<1>1. ASSUME NEW t \in Producers, NEW e \in Elements, Produce(t, e) PROVE IInv'
  BY <1>1 DEF Produce, PushCall, TypeOK, Carried, FlagsExact, NoStandstill,
     Thread, PC, PushPC, PopPC
<1>2. ASSUME NEW t \in Producers, Push(t) PROVE IInv'
  <2>1. queue' = Append(queue, val[t]) /\ val[t] \in Elements /\ Len(queue) < max_queue_size
    BY <1>2 DEF Push, PushBody, Carried, Thread, PushPC, FlagsExact, TypeOK
  <2>2. PushMoves(t)
    BY <1>2, PushEffect DEF Thread
  <2>3. TypeOK'
    <3>1. queue' \in Seq(Elements) /\ queue_mutex' \in Thread \cup {None}
      BY <1>2, <2>1 DEF Push, PushBody, TypeOK
    <3>2. empty' \in BOOLEAN /\ full' \in BOOLEAN
      BY <1>2, Zenon DEF Push, PushBody, TypeOK
    <3>3. val' \in [Thread -> Elements \cup {None}]
      BY <1>2 DEF Push, PushBody, TypeOK
    <3>4. /\ \A u \in Consumers : qpc'[u] \notin PushPC
          /\ \A u \in Producers : qpc'[u] \notin PopPC
      BY <2>2 DEF PushMoves, TypeOK, Thread, PushPC, PopPC
    <3> QED BY <2>2, <3>1, <3>2, <3>3, <3>4 DEF TypeOK, PushMoves, PC
  <2>4. Carried'
    BY <1>2, <2>2 DEF PushMoves, Push, PushBody, Carried, TypeOK, Thread, PC, PushPC, PopPC
  <2>5. FlagsExact'
    <3>1. empty' = FALSE /\ ~full /\ full' = (full \/ Len(queue') = max_queue_size)
      BY <1>2 DEF Push, PushBody, SizeAtMax
    <3>2. queue' # <<>> /\ Len(queue') = Len(queue) + 1 /\ Len(queue') <= max_queue_size
      BY <2>1 DEF TypeOK
    <3> QED BY <3>1, <3>2 DEF FlagsExact
  <2>6. \E c \in Consumers : qpc'[c] # "pop_wait"
    <3>1. CASE queue # <<>>
      BY <3>1, <2>2 DEF PushMoves, NoStandstill, Thread
    <3>2. CASE queue = <<>> /\ \A c \in Consumers : qpc[c] # "pop_wait"
      BY <3>2, <2>2 DEF PushMoves, Thread
    <3>3. CASE queue = <<>> /\ \E c \in Consumers : qpc[c] = "pop_wait"
      <4> DEFINE pcs == [qpc EXCEPT ![t] = "idle"]
      <4>1. /\ pcs \in [Thread -> PC]
            /\ "pop_lock" \in PC
            /\ \A u \in Thread : pcs[u] = IF u = t THEN "idle" ELSE qpc[u]
        BY DEF TypeOK, PC, PopPC
      <4>2. qpc' \in Signal(pcs, "pop_wait", "pop_lock")
        BY <1>2, <3>3 DEF Push, PushBody, WakeConsumer, FlagsExact
      <4>3. \E u \in Thread : pcs[u] = "pop_wait"
        BY <3>3, <4>1 DEF Thread
      <4> HIDE DEF pcs
      <4>4. PICK u \in Thread : pcs[u] = "pop_wait" /\ qpc'[u] = "pop_lock"
        BY <4>1, <4>2, <4>3, SignalWakes
      <4>5. u \in Consumers
        BY <4>4, <4>1 DEF TypeOK, Thread, PopPC
      <4> QED BY <4>4, <4>5
    <3> QED BY <3>1, <3>2, <3>3
  <2>7. NoStandstill'
    <3>1. qpc'[t] = "idle"
      BY <2>2 DEF PushMoves, Thread
    <3> QED BY <2>6, <3>1 DEF NoStandstill
  <2> QED BY <2>3, <2>4, <2>5, <2>7
<1>3. ASSUME NEW t \in Consumers, PopCall(t) PROVE IInv'
  BY <1>3 DEF PopCall, TypeOK, Carried, FlagsExact, NoStandstill,
     Thread, PC, PushPC, PopPC
<1>4. ASSUME NEW t \in Consumers, Pop(t) PROVE IInv'
  <2>1. queue # <<>> /\ queue' = Tail(queue) /\ Head(queue) \in Elements
    BY <1>4 DEF Pop, FlagsExact, TypeOK
  <2>2. PopMoves(t)
    BY <1>4, PopEffect DEF Thread
  <2>3. TypeOK'
    <3>1. queue' \in Seq(Elements) /\ queue_mutex' \in Thread \cup {None}
      BY <1>4, <2>1 DEF Pop, TypeOK
    <3>2. empty' \in BOOLEAN /\ full' \in BOOLEAN
      BY <1>4, Zenon DEF Pop, TypeOK
    <3>3. val' \in [Thread -> Elements \cup {None}]
      BY <1>4, <2>1 DEF Pop, TypeOK
    <3>4. /\ \A u \in Consumers : qpc'[u] \notin PushPC
          /\ \A u \in Producers : qpc'[u] \notin PopPC
      BY <2>2 DEF PopMoves, TypeOK, Thread, PushPC, PopPC
    <3> QED BY <2>2, <3>1, <3>2, <3>3, <3>4 DEF TypeOK, PopMoves, PC
  <2>4. Carried'
    BY <1>4, <2>2 DEF PopMoves, Pop, Carried, TypeOK, Thread, PC, PushPC, PopPC
  <2>5. FlagsExact'
    <3>1. ~empty /\ empty' = (empty \/ Len(queue') = 0) /\ full' = FALSE
      BY <1>4 DEF Pop
    <3>2. /\ queue \in Seq(Elements) /\ Len(queue) <= max_queue_size
          /\ queue' \in Seq(Elements)
      BY <2>3 DEF TypeOK, FlagsExact
    <3>3. Len(queue') = Len(queue) - 1 /\ Len(queue) > 0
      BY <2>1, <3>2
    <3>4. Len(queue') < max_queue_size /\ (queue' = <<>> <=> Len(queue') = 0)
      BY <3>2, <3>3
    <3>5. empty' <=> queue' = <<>>
      BY <3>1, <3>4
    <3> QED BY <3>1, <3>4, <3>5 DEF FlagsExact
  <2>6. \E p \in Producers : qpc'[p] # "push_wait"
    <3>1. CASE \E p \in Producers : qpc[p] # "push_wait"
      BY <3>1, <2>2 DEF PopMoves, Thread
    <3>2. CASE \A p \in Producers : qpc[p] = "push_wait"
      <4> DEFINE pcs == [qpc EXCEPT ![t] = "idle"]
      <4>1. /\ pcs \in [Thread -> PC]
            /\ "push_lock" \in PC
            /\ \A u \in Thread : pcs[u] = IF u = t THEN "idle" ELSE qpc[u]
        BY DEF TypeOK, PC, PushPC
      <4>2. full
        BY <3>2, <2>1 DEF NoStandstill, FlagsExact, TypeOK
      <4>3. qpc' \in Signal(pcs, "push_wait", "push_lock")
        BY <1>4, <4>2 DEF Pop, WakeProducer
      <4>4. \E u \in Thread : pcs[u] = "push_wait"
        BY <3>2, <4>1 DEF Thread
      <4> HIDE DEF pcs
      <4>5. PICK u \in Thread : pcs[u] = "push_wait" /\ qpc'[u] = "push_lock"
        BY <4>1, <4>3, <4>4, SignalWakes
      <4>6. u \in Producers
        BY <4>5, <4>1 DEF TypeOK, Thread, PushPC
      <4> QED BY <4>5, <4>6
    <3> QED BY <3>1, <3>2
  <2>7. NoStandstill'
    <3>1. qpc'[t] = "idle"
      BY <2>2 DEF PopMoves, Thread
    <3> QED BY <2>6, <3>1 DEF NoStandstill
  <2> QED BY <2>3, <2>4, <2>5, <2>7
<1>5. ASSUME NEW t \in Thread, Internal(t) PROVE IInv'
  <2>1. CASE Lock(t)
    BY <2>1 DEF Lock, TypeOK, Carried, FlagsExact, NoStandstill, Thread, PC, PushPC, PopPC
  <2>2. CASE PushWait(t)
    BY <2>2 DEF PushWait, TypeOK, Carried, FlagsExact, NoStandstill, Thread, PC, PushPC, PopPC
  <2>3. CASE PopWait(t)
    BY <2>3 DEF PopWait, TypeOK, Carried, FlagsExact, NoStandstill, Thread, PC, PushPC, PopPC
  <2>4. CASE SpuriousWakeup(t)
    BY <2>4 DEF SpuriousWakeup, TypeOK, Carried, FlagsExact, NoStandstill, Thread, PC, PushPC, PopPC
  <2> QED BY <1>5, <2>1, <2>2, <2>3, <2>4 DEF Internal, Advance
<1>6. CASE UNCHANGED vars
  BY <1>6 DEF vars, TypeOK, Carried, FlagsExact, NoStandstill
<1> QED BY <1>1, <1>2, <1>3, <1>4, <1>5, <1>6 DEF Next

(* The program counters, the mutex, the flags and the arguments of         *)
(* mutex_task_queue keep their types, whatever the threads do.             *)
THEOREM TypeCorrect == Spec => []TypeOK
<1>1. IInv => TypeOK
  BY DEF IInv
<1> QED BY <1>1, InitIInv, NextIInv, PTL DEF Spec

(* empty and full agree with the size of the std::queue after every push   *)
(* and pop, and the size never passes max_queue_size.                      *)
THEOREM FlagsCorrect == Spec => []FlagsExact
<1>1. IInv => FlagsExact
  BY DEF IInv
<1> QED BY <1>1, InitIInv, NextIInv, PTL DEF Spec

(* Signalling only on the empty-to-nonempty and full-to-not-full steps     *)
(* never leaves all consumers asleep on a queue with elements, nor all     *)
(* producers asleep on a queue with room.                                  *)
THEOREM NeverAtStandstill == Spec => []NoStandstill
<1>1. IInv => NoStandstill
  BY DEF IInv
<1> QED BY <1>1, InitIInv, NextIInv, PTL DEF Spec

-----------------------------------------------------------------------------
(* The abstract call each thread is in.                                    *)
opBar == [t \in Thread |-> CallOf(qpc[t])]

LEMMA SimInit == Init => Fifo!Init
BY DEF Init, Fifo!Init, Fifo!Thread, Thread, CallOf, PushPC, PopPC

LEMMA SimStep == IInv /\ [Next]_vars => [Fifo!Next]_(Fifo!vars)
<1> SUFFICES ASSUME IInv, [Next]_vars PROVE [Fifo!Next]_(Fifo!vars)
  OBVIOUS
<1> USE QueueAssumption
<1>0. qpc \in [Thread -> PC] /\ TypeOK /\ Carried /\ FlagsExact
  BY DEF IInv, TypeOK, PC
<1>1. ASSUME NEW t \in Producers, NEW e \in Elements, Produce(t, e)
      PROVE  Fifo!CallPush(t, e)
  <2>1. opBar' = [opBar EXCEPT ![t] = "push"] /\ opBar[t] = "idle"
    BY <1>0, <1>1 DEF Produce, PushCall, opBar, CallOf, Thread, PushPC, PopPC
  <2> QED BY <1>1, <2>1 DEF Produce, PushCall, Fifo!CallPush, opBar
<1>2. ASSUME NEW t \in Producers, Push(t) PROVE Fifo!Put(t)
  <2>1. PushMoves(t) /\ qpc[t] = "push" /\ t \in Thread
    BY <1>0, <1>2, PushEffect DEF Push, PushBody, Thread
  <2>2. opBar' = [opBar EXCEPT ![t] = "idle"] /\ opBar[t] = "push"
    BY <2>1 DEF PushMoves, opBar, CallOf, PushPC, PopPC
  <2>3. Len(queue) < max_queue_size
    BY <1>0, <1>2 DEF Push, FlagsExact, TypeOK
  <2> QED BY <1>2, <2>2, <2>3 DEF Push, PushBody, Fifo!Put, opBar
<1>3. ASSUME NEW t \in Consumers, PopCall(t) PROVE Fifo!CallPop(t)
  <2>1. opBar' = [opBar EXCEPT ![t] = "pop"] /\ opBar[t] = "idle"
    BY <1>0, <1>3 DEF PopCall, opBar, CallOf, Thread, PushPC, PopPC
  <2> QED BY <1>3, <2>1 DEF PopCall, Fifo!CallPop, opBar
<1>4. ASSUME NEW t \in Consumers, Pop(t) PROVE Fifo!Get(t)
  <2>1. PopMoves(t) /\ qpc[t] = "pop" /\ t \in Thread
    BY <1>0, <1>4, PopEffect DEF Pop, Thread
  <2>2. opBar' = [opBar EXCEPT ![t] = "idle"] /\ opBar[t] = "pop"
    BY <2>1 DEF PopMoves, opBar, CallOf, PushPC, PopPC
  <2>3. queue # <<>>
    BY <1>0, <1>4 DEF Pop, FlagsExact
  <2> QED BY <1>4, <2>2, <2>3 DEF Pop, Fifo!Get, opBar
<1>5. ASSUME NEW t \in Thread, Internal(t) PROVE UNCHANGED Fifo!vars
  <2>1. opBar' = opBar
    <3>1. CASE Lock(t)
      BY <1>0, <3>1 DEF Lock, opBar, CallOf, PushPC, PopPC
    <3>2. CASE PushWait(t)
      BY <1>0, <3>2 DEF PushWait, opBar, CallOf, PushPC, PopPC
    <3>3. CASE PopWait(t)
      BY <1>0, <3>3 DEF PopWait, opBar, CallOf, PushPC, PopPC
    <3>4. CASE SpuriousWakeup(t)
      BY <1>0, <3>4 DEF SpuriousWakeup, opBar, CallOf, PushPC, PopPC
    <3> QED BY <1>5, <3>1, <3>2, <3>3, <3>4 DEF Internal, Advance
  <2> QED BY <1>5, <2>1 DEF Internal, Advance, Lock, PushWait, PopWait, SpuriousWakeup,
             Fifo!vars, opBar
<1>6. CASE UNCHANGED vars
  BY <1>6 DEF vars, Fifo!vars
<1> QED BY <1>1, <1>2, <1>3, <1>4, <1>5, <1>6 DEF Next, Fifo!Next

(* push and pop of mutex_task_queue are those of a bounded FIFO of         *)
(* max_queue_size places: whatever the threads and the wake-ups do, every  *)
(* behaviour of TaskQueue is one of BoundedFifo.                           *)
THEOREM ImplementsFifo == Spec => RefinesFifo
BY InitIInv, NextIInv, SimInit, SimStep, PTL DEF Spec, RefinesFifo, Fifo!Spec
=============================================================================
