-------------------------- MODULE WorkerPoolProofs --------------------------
(***************************************************************************)
(* Proofs about WorkerPool, for any numbers of clients and workers and any *)
(* tasks: every queue_element has one owner, running_num is exact, and the *)
(* pool is a well-behaved user of TaskQueue.  What TaskQueueProofs proves  *)
(* of the queue is used here through an instance of that module.           *)
(***************************************************************************)
EXTENDS WorkerPool, FiniteSetTheorems, TLAPS

Q == INSTANCE TaskQueueProofs WITH
          Producers <- Clients, Consumers <- Workers, Elements <- Task

LEMMA QueueInit == jq!Init => Q!IInv
<1>1. Q!Init => Q!IInv
  BY PoolAssumption, Q!InitIInv DEF Q!QueueAssumption
<1>2. jq!Init => Q!Init
  BY DEF jq!Init, Q!Init, jq!Thread, Q!Thread
<1> QED BY <1>1, <1>2

LEMMA PushSame == ASSUME NEW t, jq!Push(t) PROVE Q!Push(t)
BY DEF jq!Push, Q!Push, jq!PushBody, Q!PushBody, jq!SizeAtMax, Q!SizeAtMax,
   jq!WakeConsumer, Q!WakeConsumer, jq!Signal, Q!Signal, jq!Thread, Q!Thread

LEMMA PopSame == ASSUME NEW t, jq!Pop(t) PROVE Q!Pop(t)
BY DEF jq!Pop, Q!Pop, jq!WakeProducer, Q!WakeProducer, jq!Signal, Q!Signal,
   jq!Thread, Q!Thread

LEMMA QueueStep == Q!IInv /\ [jq!Next]_jqvars => Q!IInv'
<1>1. Q!IInv /\ [Q!Next]_(Q!vars) => Q!IInv'
  BY PoolAssumption, Q!NextIInv DEF Q!QueueAssumption
<1>2. [jq!Next]_jqvars => [Q!Next]_(Q!vars)
  <2>1. ASSUME NEW t, NEW e, jq!Produce(t, e) PROVE Q!Produce(t, e)
    BY <2>1 DEF jq!Produce, Q!Produce, jq!PushCall, Q!PushCall, jq!InFlight, Q!InFlight,
       jq!Thread, Q!Thread, jq!PushPC, Q!PushPC
  <2>2. ASSUME NEW t, jq!Push(t) PROVE Q!Push(t)
    BY <2>2, PushSame
  <2>3. ASSUME NEW t, jq!Pop(t) PROVE Q!Pop(t)
    BY <2>3, PopSame
  <2>4. ASSUME NEW t, jq!PopCall(t) PROVE Q!PopCall(t)
    BY <2>4 DEF jq!PopCall, Q!PopCall
  <2>5. ASSUME NEW t, jq!Internal(t) PROVE Q!Internal(t)
    BY <2>5 DEF jq!Internal, Q!Internal, jq!Advance, Q!Advance, jq!Lock, Q!Lock,
       jq!PushWait, Q!PushWait, jq!PopWait, Q!PopWait, jq!SpuriousWakeup, Q!SpuriousWakeup
  <2>6. jqvars = Q!vars /\ jq!Thread = Q!Thread
    BY DEF jqvars, Q!vars, jq!Thread, Q!Thread
  <2>7. ASSUME UNCHANGED jqvars PROVE UNCHANGED Q!vars
    BY <2>7 DEF jqvars, Q!vars
  <2> QED BY <2>1, <2>2, <2>3, <2>4, <2>5, <2>6, <2>7 DEF jq!Next, Q!Next
<1> QED BY <1>1, <1>2

-----------------------------------------------------------------------------
PoolType ==
    /\ wpc \in [Workers -> WorkerPC]
    /\ statics_lock \in Workers \cup {None}
    /\ running_num \in Int
    /\ loaded \in [Workers -> Int]
    /\ fresh \subseteq Task /\ deleted \subseteq Task

(* A worker is inside pop exactly while per_worker_task is at that call,   *)
(* and comes out of it with a queue_element.                               *)
PopMatches ==
    /\ \A w \in Workers : qpc[w] # "idle" <=> wpc[w] = "pop"
    /\ \A w \in Workers : wpc[w] \in {"inc_lock", "inc", "run"} => val[w] \in Task

(* Between its load and its store a worker holds statics_lock, and nobody  *)
(* else has changed running_num.                                           *)
StatsExclusive ==
    \A w \in Workers :
        wpc[w] \in {"inc", "dec"} => statics_lock = w /\ loaded[w] = running_num

PoolInv ==
    Q!IInv /\ PoolType /\ PopMatches /\ StatsExclusive /\ RunningNumExact /\ OneOwner

(* What Q!IInv gives, in the terms of WorkerPool.                          *)
LEMMA QueueFacts ==
    ASSUME Q!IInv
    PROVE  /\ jq!TypeOK
           /\ qpc \in [Clients \cup Workers -> Q!PC]
           /\ queue \in Seq(Task)
           /\ \A c \in Clients : qpc[c] \notin jq!PopPC
           /\ \A w \in Workers : qpc[w] \notin jq!PushPC
           /\ \A c \in Clients : qpc[c] \in jq!PushPC => val[c] \in Task
           /\ ~empty => queue # <<>>
           /\ val \in [Clients \cup Workers -> Task \cup {None}]
BY DEF Q!IInv, Q!TypeOK, jq!TypeOK, Q!Thread, jq!Thread, Q!PC, Q!PushPC, jq!PushPC,
   Q!PopPC, jq!PopPC, Q!Carried, Q!FlagsExact

(* The moves of the program counters in push and pop.                      *)
LEMMA Moves ==
    ASSUME Q!IInv
    PROVE  /\ \A c \in Clients : jq!Push(c) => Q!PushMoves(c)
           /\ \A w \in Workers : jq!Pop(w) => Q!PopMoves(w)
<1>1. Q!TypeOK /\ Clients \cup Workers = Q!Thread
  BY DEF Q!IInv, Q!Thread
<1>2. ASSUME NEW c \in Clients, jq!Push(c) PROVE Q!PushMoves(c)
  BY <1>1, <1>2, PushSame, PoolAssumption, Q!PushEffect DEF Q!QueueAssumption
<1>3. ASSUME NEW w \in Workers, jq!Pop(w) PROVE Q!PopMoves(w)
  BY <1>1, <1>3, PopSame, PoolAssumption, Q!PopEffect DEF Q!QueueAssumption
<1> QED BY <1>2, <1>3

-----------------------------------------------------------------------------
(* Every step of the pool is a step of its queue or leaves it alone.       *)
LEMMA StepUsesQueue == PoolInv /\ [Next]_vars => [jq!Next]_jqvars
<1> SUFFICES ASSUME PoolInv, Next PROVE [jq!Next]_jqvars
  BY DEF vars
<1>1. ASSUME NEW c \in Clients, NEW t \in Task, run(c, t) PROVE jq!Next
  <2>1. Pushing(t) = {} /\ Places(t) = {}
    BY <1>1 DEF run, PoolInv, OneOwner
  <2>2. \A w \in Workers : qpc[w] \notin jq!PushPC
    BY QueueFacts DEF PoolInv
  <2>3. t \notin jq!InFlight
    BY <2>1, <2>2 DEF Pushing, Places, jq!InFlight, jq!Thread
  <2> QED BY <1>1, <2>3 DEF run, jq!Next, jq!Produce
<1>2. ASSUME NEW c \in Clients, Client(c) PROVE jq!Next
  BY <1>2 DEF Client, Push, Advance, jq!Next, jq!Internal, jq!Thread
<1>3. ASSUME NEW w \in Workers, Worker(w) PROVE jq!Next \/ UNCHANGED jqvars
  BY <1>3 DEF Worker, Loop, Pop, Advance, StatsLock, LoadRunningNum, StatsStore,
     jq!Next, jq!Internal, jq!Thread
<1>4. ASSUME NEW w \in Workers, Return(w) PROVE UNCHANGED jqvars
  BY <1>4 DEF Return
<1>5. ASSUME NEW t \in Clients \cup Workers, SpuriousWakeup(t) PROVE jq!Next
  BY <1>5 DEF SpuriousWakeup, jq!Next, jq!Internal, jq!Thread
<1> QED BY <1>1, <1>2, <1>3, <1>4, <1>5 DEF Next

-----------------------------------------------------------------------------
(* Control: per_worker_task and pop stay in step, and the ++ and -- of     *)
(* running_num exclude one another.                                        *)
Control == PoolType /\ PopMatches /\ StatsExclusive

LEMMA NextControl == PoolInv /\ [Next]_vars => Control'
<1> SUFFICES ASSUME PoolInv, [Next]_vars PROVE Control'
  OBVIOUS
<1> USE PoolAssumption
<1>0. /\ Q!IInv /\ PoolType /\ PopMatches /\ StatsExclusive
      /\ qpc \in [Clients \cup Workers -> Q!PC]
      /\ val \in [Clients \cup Workers -> Task \cup {None}]
      /\ queue \in Seq(Task)
      /\ ~empty => queue # <<>>
  BY QueueFacts DEF PoolInv
<1>1. ASSUME NEW c \in Clients, NEW t \in Task, run(c, t) PROVE Control'
  BY <1>0, <1>1 DEF run, jq!PushCall, Control, PoolType, PopMatches, StatsExclusive
<1>2. ASSUME NEW c \in Clients, Push(c) PROVE Control'
  <2>1. Q!PushMoves(c)
    BY <1>0, <1>2, Moves DEF Push
  <2>2. PopMatches'
    BY <1>0, <1>2, <2>1 DEF Push, jq!Push, jq!PushBody, PopMatches, Q!PushMoves, Q!Thread
  <2>3. PoolType' /\ StatsExclusive'
    BY <1>0, <1>2 DEF Push, PoolType, StatsExclusive
  <2> QED BY <2>2, <2>3 DEF Control
<1>3. ASSUME NEW t \in Clients \cup Workers, Advance(t) PROVE Control'
  <2>1. CASE jq!Lock(t)
    BY <1>0, <1>3, <2>1 DEF Advance, jq!Lock, Control, PoolType, PopMatches, StatsExclusive
  <2>2. CASE jq!PushWait(t)
    BY <1>0, <1>3, <2>2 DEF Advance, jq!PushWait, Control, PoolType, PopMatches, StatsExclusive
  <2>3. CASE jq!PopWait(t)
    BY <1>0, <1>3, <2>3 DEF Advance, jq!PopWait, Control, PoolType, PopMatches, StatsExclusive
  <2> QED BY <1>3, <2>1, <2>2, <2>3 DEF Advance, jq!Advance
<1>4. ASSUME NEW t \in Clients \cup Workers, SpuriousWakeup(t) PROVE Control'
  BY <1>0, <1>4 DEF SpuriousWakeup, jq!SpuriousWakeup, Control, PoolType, PopMatches,
     StatsExclusive
<1>5. ASSUME NEW w \in Workers, Loop(w) PROVE Control'
  BY <1>0, <1>5 DEF Loop, jq!PopCall, Control, PoolType, WorkerPC, PopMatches, StatsExclusive
<1>6. ASSUME NEW w \in Workers, Pop(w) PROVE Control'
  <2>1. Q!PopMoves(w)
    BY <1>0, <1>6, Moves DEF Pop
  <2>4. ~empty
    BY <1>6 DEF Pop, jq!Pop
  <2>5. Head(queue) \in Task
    BY <1>0, <2>4
  <2>2. PopMatches'
    BY <1>0, <1>6, <2>1, <2>5 DEF Pop, jq!Pop, PopMatches, PoolType, Q!PopMoves, Q!Thread
  <2>3. PoolType' /\ StatsExclusive'
    BY <1>0, <1>6 DEF Pop, PoolType, WorkerPC, StatsExclusive
  <2> QED BY <2>2, <2>3 DEF Control
<1>7. ASSUME NEW w \in Workers, StatsLock(w) PROVE Control'
  BY <1>0, <1>7 DEF StatsLock, LoadRunningNum, jqvars, Control, PoolType, WorkerPC, PopMatches,
     StatsExclusive
<1>8. ASSUME NEW w \in Workers, StatsStore(w) PROVE Control'
  BY <1>0, <1>8 DEF StatsStore, jqvars, Control, PoolType, WorkerPC, PopMatches, StatsExclusive
<1>9. ASSUME NEW w \in Workers, Return(w) PROVE Control'
  BY <1>0, <1>9 DEF Return, jqvars, Control, PoolType, WorkerPC, PopMatches, StatsExclusive
<1>10. CASE UNCHANGED vars
  BY <1>0, <1>10 DEF vars, jqvars, Control, PoolType, PopMatches, StatsExclusive
<1> QED BY <1>1, <1>2, <1>3, <1>4, <1>5, <1>6, <1>7, <1>8, <1>9, <1>10
        DEF Next, Client, Worker

-----------------------------------------------------------------------------
(* A worker enters Counted with the store of its ++ and leaves it with the *)
(* store of its --; no other step changes Counted or running_num.          *)
LEMMA NextCount == PoolInv /\ [Next]_vars => RunningNumExact'
<1> SUFFICES ASSUME PoolInv, [Next]_vars PROVE RunningNumExact'
  OBVIOUS
<1> USE PoolAssumption
<1>0. PoolType /\ StatsExclusive /\ running_num = Cardinality(Counted)
  BY DEF PoolInv, RunningNumExact
<1>1. IsFiniteSet(Counted)
  BY FS_Subset DEF Counted
<1>2. ASSUME NEW w \in Workers, StatsStore(w) PROVE RunningNumExact'
  <2>1. CASE wpc[w] = "inc"
    <3>1. Counted' = Counted \cup {w} /\ w \notin Counted /\ running_num' = running_num + 1
      BY <1>0, <1>2, <2>1 DEF StatsStore, Counted, PoolType, StatsExclusive
    <3> QED BY <1>0, <1>1, <3>1, FS_AddElement DEF RunningNumExact
  <2>2. CASE wpc[w] = "dec"
    <3>1. Counted' = Counted \ {w} /\ w \in Counted /\ running_num' = running_num - 1
      BY <1>0, <1>2, <2>2 DEF StatsStore, Counted, PoolType, StatsExclusive
    <3> QED BY <1>0, <1>1, <3>1, FS_RemoveElement DEF RunningNumExact
  <2> QED BY <1>2, <2>1, <2>2 DEF StatsStore
<1>3. ASSUME NEW w \in Workers, Loop(w) \/ Pop(w) \/ StatsLock(w) \/ Return(w)
      PROVE  RunningNumExact'
  <2>1. Counted' = Counted /\ running_num' = running_num
    BY <1>0, <1>3 DEF Loop, Pop, StatsLock, LoadRunningNum, Return, Counted, PoolType
  <2> QED BY <1>0, <2>1 DEF RunningNumExact
<1>4. ASSUME UNCHANGED <<wpc, running_num>> PROVE RunningNumExact'
  BY <1>0, <1>4 DEF RunningNumExact, Counted
<1>5. CASE UNCHANGED vars
  BY <1>4, <1>5 DEF vars
<1>6. ASSUME NEW t, Push(t) \/ Advance(t) \/ SpuriousWakeup(t) PROVE RunningNumExact'
  BY <1>4, <1>6 DEF Push, Advance, SpuriousWakeup
<1>7. ASSUME NEW c, NEW t, run(c, t) PROVE RunningNumExact'
  BY <1>4, <1>7 DEF run
<1> QED BY <1>2, <1>3, <1>5, <1>6, <1>7 DEF Next, Client, Worker

-----------------------------------------------------------------------------
(* Ownership: run gives a fresh queue_element to a client, Push moves it   *)
(* to a new place of the queue, Pop to a worker, Return ends its life.     *)
LEMMA NextOwner == PoolInv /\ [Next]_vars => OneOwner'
<1> SUFFICES ASSUME PoolInv, [Next]_vars PROVE OneOwner'
  OBVIOUS
<1> USE PoolAssumption
<1>0. /\ Q!IInv /\ PoolType /\ PopMatches /\ OneOwner
      /\ qpc \in [Clients \cup Workers -> Q!PC]
      /\ val \in [Clients \cup Workers -> Task \cup {None}]
      /\ queue \in Seq(Task)
      /\ ~empty => queue # <<>>
      /\ \A c \in Clients : qpc[c] \in jq!PushPC => val[c] \in Task
      /\ \A c \in Clients : qpc[c] \notin jq!PopPC
      /\ \A w \in Workers : qpc[w] \notin jq!PushPC
  BY QueueFacts DEF PoolInv
<1>A. ASSUME \A t \in Task : /\ Pushing(t)' = Pushing(t) /\ Places(t)' = Places(t)
                             /\ Holding(t)' = Holding(t),
             UNCHANGED <<fresh, deleted>>
      PROVE  OneOwner'
  BY <1>0, <1>A DEF OneOwner, AtMostOne
<1>1. ASSUME NEW c \in Clients, NEW t \in Task, run(c, t) PROVE OneOwner'
  <2>1. /\ Pushing(t)' = {c} /\ Pushing(t) = {} /\ Places(t) = {} /\ Holding(t) = {}
        /\ t \notin deleted
    BY <1>0, <1>1 DEF run, jq!PushCall, Pushing, OneOwner, jq!PushPC
  <2>2. \A u \in Task : /\ Places(u)' = Places(u) /\ Holding(u)' = Holding(u)
                        /\ u # t => Pushing(u)' = Pushing(u)
    BY <1>0, <1>1 DEF run, jq!PushCall, Pushing, Places, Holding, jq!PushPC
  <2>3. fresh' = fresh \ {t} /\ deleted' = deleted
    BY <1>1 DEF run
  <2> QED BY <1>0, <2>1, <2>2, <2>3 DEF OneOwner, AtMostOne
<1>2. ASSUME NEW c \in Clients, Push(c) PROVE OneOwner'
  <2>1. Q!PushMoves(c) /\ qpc[c] = "push"
    BY <1>0, <1>2, Moves DEF Push, jq!Push, jq!PushBody
  <2>t. PICK t \in Task : t = val[c]
    BY <1>0, <2>1 DEF jq!PushPC
  <2>2. c \in Pushing(t)
    BY <2>1, <2>t DEF jq!PushPC, Pushing
  <2>3. Pushing(t) = {c} /\ Places(t) = {} /\ Holding(t) = {} /\ t \notin fresh \cup deleted
    BY <1>0, <2>2 DEF OneOwner, AtMostOne
  <2>4. \A u \in Task : Holding(u)' = Holding(u)
    BY <1>0, <1>2 DEF Push, jq!Push, jq!PushBody, Holding
  <2>5. Pushing(t)' = {} /\ \A u \in Task : u # t => Pushing(u)' = Pushing(u)
    BY <1>0, <1>2, <2>1, <2>t, <2>2, <2>3 DEF Push, jq!Push, jq!PushBody, Pushing, Q!PushMoves,
       Q!Thread, jq!PushPC
  <2>6. queue' = Append(queue, t)
    BY <1>2, <2>t DEF Push, jq!Push, jq!PushBody
  <2>7. Places(t)' = {Len(queue) + 1} /\ \A u \in Task : u # t => Places(u)' = Places(u)
    <3>1. /\ DOMAIN queue = 1 .. Len(queue) /\ DOMAIN queue' = 1 .. Len(queue) + 1
          /\ Len(queue) \in Nat /\ queue'[Len(queue) + 1] = t
          /\ \A i \in DOMAIN queue : queue'[i] = queue[i]
      BY <1>0, <2>6
    <3> QED BY <2>3, <3>1 DEF Places
  <2>8. UNCHANGED <<fresh, deleted>>
    BY <1>2 DEF Push
  <2> QED BY <1>0, <2>2, <2>3, <2>4, <2>5, <2>7, <2>8 DEF OneOwner, AtMostOne
<1>3. ASSUME NEW t \in Clients \cup Workers, Advance(t) \/ SpuriousWakeup(t) PROVE OneOwner'
  <2>1. UNCHANGED <<queue, val, wpc, fresh, deleted>>
    BY <1>3 DEF Advance, jq!Advance, jq!Lock, jq!PushWait, jq!PopWait, SpuriousWakeup,
       jq!SpuriousWakeup
  <2> DEFINE Same == \A c \in Clients : qpc'[c] \in jq!PushPC <=> qpc[c] \in jq!PushPC
  <2>2. Same
    <3>1. ASSUME jq!Lock(t) PROVE Same
      BY <1>0, <3>1 DEF jq!Lock, jq!PushPC, jq!PopPC
    <3>2. ASSUME jq!PushWait(t) PROVE Same
      BY <1>0, <3>2 DEF jq!PushWait, jq!PushPC, jq!PopPC
    <3>3. ASSUME jq!PopWait(t) PROVE Same
      BY <1>0, <3>3 DEF jq!PopWait, jq!PushPC, jq!PopPC
    <3>4. ASSUME jq!SpuriousWakeup(t) PROVE Same
      BY <1>0, <3>4 DEF jq!SpuriousWakeup, jq!PushPC, jq!PopPC
    <3> QED BY <1>3, <3>1, <3>2, <3>3, <3>4 DEF Advance, jq!Advance, SpuriousWakeup
  <2>3. \A u \in Task : /\ Pushing(u)' = Pushing(u) /\ Places(u)' = Places(u)
                        /\ Holding(u)' = Holding(u)
    BY <2>1, <2>2 DEF Pushing, Places, Holding
  <2> QED BY <1>A, <2>1, <2>3
<1>4. ASSUME NEW w \in Workers, Loop(w) PROVE OneOwner'
  <2>1. \A u \in Task : /\ Pushing(u)' = Pushing(u) /\ Places(u)' = Places(u)
                        /\ Holding(u)' = Holding(u)
    BY <1>0, <1>4 DEF Loop, jq!PopCall, Pushing, Places, Holding, PoolType
  <2> QED BY <1>A, <1>4, <2>1 DEF Loop
<1>5. ASSUME NEW w \in Workers, Pop(w) PROVE OneOwner'
  <2>1. Q!PopMoves(w) /\ ~empty /\ qpc[w] = "pop" /\ wpc[w] = "pop"
    BY <1>0, <1>5, Moves DEF Pop, jq!Pop
  <2>t. PICK t \in Task : t = Head(queue)
    BY <1>0, <2>1
  <2>2. 1 \in Places(t) /\ queue # <<>>
    BY <1>0, <2>1, <2>t DEF Places
  <2>3. Places(t) = {1} /\ Pushing(t) = {} /\ Holding(t) = {} /\ t \notin fresh \cup deleted
    BY <1>0, <2>2 DEF OneOwner, AtMostOne
  <2>4. queue' = Tail(queue) /\ val' = [val EXCEPT ![w] = t]
    BY <1>5, <2>t DEF Pop, jq!Pop
  <2>5. \A u \in Task : Pushing(u)' = Pushing(u)
    BY <1>0, <2>1, <2>4 DEF Pushing, Q!PopMoves, Q!Thread, jq!PushPC
  <2>6. Holding(t)' = {w} /\ \A u \in Task : u # t => Holding(u)' = Holding(u)
    BY <1>0, <1>5, <2>1, <2>2, <2>3, <2>4 DEF Pop, Holding, PoolType
  <2>7. /\ DOMAIN queue' = 1 .. Len(queue) - 1 /\ DOMAIN queue = 1 .. Len(queue)
        /\ Len(queue) \in Nat
        /\ \A i \in DOMAIN queue' : i + 1 \in DOMAIN queue /\ queue'[i] = queue[i + 1]
    BY <1>0, <2>2, <2>4
  <2>8. Places(t)' = {}
    BY <2>3, <2>7 DEF Places
  <2>9. \A u \in Task : u # t => \A i : i \in Places(u)' <=> i + 1 \in Places(u) /\ i \in Nat
    BY <2>3, <2>7 DEF Places
  <2>10. \A u \in Task : u # t => /\ AtMostOne(Places(u)) => AtMostOne(Places(u)')
                                  /\ Places(u) = {} <=> Places(u)' = {}
    <3> SUFFICES ASSUME NEW u \in Task, u # t
                 PROVE  /\ AtMostOne(Places(u)) => AtMostOne(Places(u)')
                        /\ Places(u) = {} <=> Places(u)' = {}
      OBVIOUS
    <3>1. \A i \in Places(u) : i \in Nat /\ i # 1 /\ i - 1 \in Places(u)'
      BY <2>3, <2>7, <2>9 DEF Places
    <3>2. \A i \in Places(u)' : i \in Nat /\ i + 1 \in Places(u)
      BY <2>9
    <3> HIDE DEF Places
    <3> QED BY <3>1, <3>2 DEF AtMostOne
  <2>11. UNCHANGED <<fresh, deleted>>
    BY <1>5 DEF Pop
  <2> QED BY <1>0, <2>2, <2>3, <2>5, <2>6, <2>8, <2>10, <2>11 DEF OneOwner, AtMostOne
<1>6. ASSUME NEW w \in Workers, StatsLock(w) \/ StatsStore(w) PROVE OneOwner'
  <2>1. \A u \in Task : /\ Pushing(u)' = Pushing(u) /\ Places(u)' = Places(u)
                        /\ Holding(u)' = Holding(u)
    BY <1>0, <1>6 DEF StatsLock, LoadRunningNum, StatsStore, jqvars, Pushing, Places,
       Holding, PoolType
  <2> QED BY <1>A, <1>6, <2>1 DEF StatsLock, LoadRunningNum, StatsStore
<1>7. ASSUME NEW w \in Workers, Return(w) PROVE OneOwner'
  <2>t. PICK t \in Task : t = val[w]
    BY <1>0, <1>7 DEF Return, PopMatches
  <2>1. w \in Holding(t)
    BY <1>7, <2>t DEF Return, Holding
  <2>2. Holding(t) = {w} /\ Pushing(t) = {} /\ Places(t) = {} /\ t \notin fresh
    BY <1>0, <2>1 DEF OneOwner, AtMostOne
  <2>3. \A u \in Task : Pushing(u)' = Pushing(u) /\ Places(u)' = Places(u)
    BY <1>7 DEF Return, jqvars, Pushing, Places
  <2>4. Holding(t)' = {} /\ \A u \in Task : u # t => Holding(u)' = Holding(u)
    BY <1>0, <1>7, <2>t, <2>2 DEF Return, jqvars, Holding, PoolType
  <2>5. fresh' = fresh /\ deleted' = deleted \cup {t}
    BY <1>7, <2>t DEF Return
  <2> QED BY <1>0, <2>1, <2>2, <2>3, <2>4, <2>5 DEF OneOwner, AtMostOne
<1>8. CASE UNCHANGED vars
  BY <1>A, <1>8 DEF vars, jqvars, Pushing, Places, Holding
<1> QED BY <1>1, <1>2, <1>3, <1>4, <1>5, <1>6, <1>7, <1>8 DEF Next, Client, Worker

-----------------------------------------------------------------------------
LEMMA InitPoolInv == Init => PoolInv
<1> SUFFICES ASSUME Init PROVE PoolInv
  OBVIOUS
<1> USE PoolAssumption DEF Init
<1>1. Q!IInv
  BY QueueInit
<1>2. PoolType /\ StatsExclusive
  BY DEF PoolType, WorkerPC, StatsExclusive
<1>3. PopMatches
  BY DEF PopMatches, jq!Init, jq!Thread
<1>4. RunningNumExact
  <2>1. Counted = {}
    BY DEF Counted
  <2> QED BY <2>1, FS_EmptySet DEF RunningNumExact
<1>5. OneOwner
  <2>1. \A t \in Task : Pushing(t) = {} /\ Places(t) = {} /\ Holding(t) = {}
    BY DEF Pushing, Places, Holding, jq!Init, jq!Thread, jq!PushPC
  <2> QED BY <2>1 DEF OneOwner, AtMostOne
<1> QED BY <1>1, <1>2, <1>3, <1>4, <1>5 DEF PoolInv

LEMMA NextPoolInv == PoolInv /\ [Next]_vars => PoolInv'
<1>1. PoolInv /\ [Next]_vars => Q!IInv'
  BY StepUsesQueue, QueueStep DEF PoolInv
<1> QED BY <1>1, NextControl, NextCount, NextOwner DEF PoolInv, Control

LEMMA PoolInvariant == Spec => []PoolInv
BY InitPoolInv, NextPoolInv, PTL DEF Spec

(* The state of the pool and of its queue keeps its type.                  *)
THEOREM PoolTypeCorrect == Spec => []TypeOK
<1>1. PoolInv => TypeOK
  BY QueueFacts DEF PoolInv, PoolType, TypeOK
<1> QED BY <1>1, PoolInvariant, PTL

(* Whatever the interleaving of run, push, pop and the workers' loops, no  *)
(* queue_element is lost, run twice, deleted twice or used after delete.   *)
THEOREM EveryElementOneOwner == Spec => []OneOwner
<1>1. PoolInv => OneOwner
  BY DEF PoolInv
<1> QED BY <1>1, PoolInvariant, PTL

(* statics_lock makes the count that stage_control reads exact.            *)
THEOREM CountCorrect == Spec => []RunningNumExact
<1>1. PoolInv => RunningNumExact
  BY DEF PoolInv
<1> QED BY <1>1, PoolInvariant, PTL

(* The pool is a legal environment of mutex_task_queue, so the theorems of *)
(* TaskQueueProofs hold of the queue inside the pool.                      *)
THEOREM PoolUsesQueue == Spec => UsesQueue
<1>1. Init => jq!Init
  BY DEF Init
<1>2. jqvars = jq!vars
  BY DEF jqvars, jq!vars
<1>3. PoolInv /\ [Next]_vars => [jq!Next]_(jq!vars)
  BY StepUsesQueue, <1>2 DEF jqvars, jq!vars
<1> QED BY <1>1, <1>3, PoolInvariant, PTL DEF Spec, UsesQueue, jq!Spec
=============================================================================
