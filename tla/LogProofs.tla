------------------------------ MODULE LogProofs ------------------------------
(***************************************************************************)
(* Proofs about Log, for any number of writers and lines and any capacity  *)
(* of the queue: however set_async and stop come in between, a line is in  *)
(* one place, and a writer's lines stay in order until set_async is        *)
(* called.  What TaskQueueProofs proves of the queue is used here through  *)
(* an instance of that module.                                             *)
(***************************************************************************)
EXTENDS Log, TLAPS

Q == INSTANCE TaskQueueProofs WITH
         Producers <- Writers, Consumers <- {LogThread}, Elements <- Line

-----------------------------------------------------------------------------
(* x is in the sequence s; and a writer's lines are in s in their order.   *)
In(s, x) == \E i \in DOMAIN s : s[i] = x
Sorted(s) == \A i, j \in DOMAIN s : i < j /\ s[i].by = s[j].by => s[i].n < s[j].n

(* The places a line can be at.                                            *)
Held(l) == wpc[l.by] # "idle" /\ l.n = count[l.by]
Popped(l) == lpc = "write" /\ l = val[LogThread]

LogType ==
    /\ {is_async, running, switched, ub} \subseteq BOOLEAN
    /\ wpc \in [Writers -> {"idle", "push", "pushing", "write"}]
    /\ count \in [Writers -> 0 .. MaxLines]
    /\ lpc \in {"loop", "pop", "write", "ended"}
    /\ spc \in {"before", "join", "delete", "deleted"}
    /\ output \in Seq(Line)

(* A writer is inside push exactly while write_log is at that call, with   *)
(* its current line; the log thread comes out of pop with a line.          *)
CallsMatch ==
    /\ \A w \in Writers : /\ qpc[w] # "idle" <=> wpc[w] = "pushing"
                          /\ wpc[w] = "pushing" => val[w] = Current(w)
                          /\ wpc[w] # "idle" => count[w] # 0
    /\ qpc[LogThread] # "idle" <=> lpc = "pop"
    /\ lpc = "write" => val[LogThread] \in Line

(* EachLineInOnePlace in terms of single lines, also of those in the queue.*)
OnePlace ==
    /\ \A l \in Line :
          /\ l.n <= count[l.by] <=> Held(l) \/ In(queue, l) \/ Popped(l) \/ In(output, l)
          /\ Held(l) => ~ In(queue, l) /\ ~ Popped(l) /\ ~ In(output, l)
          /\ In(queue, l) => ~ Popped(l) /\ ~ In(output, l)
          /\ Popped(l) => ~ In(output, l)
    /\ IsInjective(queue) /\ IsInjective(output)

(* Until set_async is called, what is in the file comes before what the    *)
(* log thread has, and that before what is in the queue.                   *)
InOrder ==
    ~ switched =>
      /\ is_async /\ \A w \in Writers : wpc[w] # "write"
      /\ Sorted(queue) /\ Sorted(output)
      /\ \A x, z \in Line : x.by = z.by =>
            /\ In(output, x) /\ (Popped(z) \/ In(queue, z)) => x.n < z.n
            /\ Popped(x) /\ In(queue, z) => x.n < z.n

LogInv == Q!IInv /\ LogType /\ CallsMatch /\ OnePlace /\ InOrder

-----------------------------------------------------------------------------
(* The queue's theorems, for the instance that Log uses.                   *)
LEMMA QAssume == Q!QueueAssumption
BY LogAssumption DEF Q!QueueAssumption

LEMMA PushSame == ASSUME NEW t, tq!Push(t) PROVE Q!Push(t)
BY DEF tq!Push, Q!Push, tq!PushBody, Q!PushBody, tq!SizeAtMax, Q!SizeAtMax,
   tq!WakeConsumer, Q!WakeConsumer, tq!Signal, Q!Signal, tq!Thread, Q!Thread

LEMMA PopSame == ASSUME NEW t, tq!Pop(t) PROVE Q!Pop(t)
BY DEF tq!Pop, Q!Pop, tq!WakeProducer, Q!WakeProducer, tq!Signal, Q!Signal,
   tq!Thread, Q!Thread

LEMMA AdvanceSame == ASSUME NEW t, tq!Advance(t) PROVE Q!Advance(t)
BY DEF tq!Advance, Q!Advance, tq!Lock, Q!Lock, tq!PushWait, Q!PushWait, tq!PopWait, Q!PopWait

(* What Q!IInv gives, in the terms of Log.                                 *)
LEMMA QueueFacts ==
    ASSUME Q!IInv
    PROVE  /\ Q!TypeOK
           /\ queue \in Seq(Line)
           /\ qpc \in [Writers \cup {LogThread} -> Q!PC]
           /\ val \in [Writers \cup {LogThread} -> Line \cup {None}]
           /\ \A w \in Writers : qpc[w] \notin Q!PopPC
           /\ qpc[LogThread] \notin Q!PushPC
           /\ empty <=> queue = <<>>
BY DEF Q!IInv, Q!TypeOK, Q!Thread, Q!PC, Q!FlagsExact

(* A step of the queue keeps its invariant.                                *)
LEMMA QueueKept ==
    ASSUME Q!IInv, [Q!Next]_(Q!vars)
    PROVE  Q!IInv'
BY QAssume, Q!NextIInv DEF Q!QueueAssumption

-----------------------------------------------------------------------------
(* What the operations on a sequence do to the lines in it.                *)
LEMMA InAppend ==
    ASSUME NEW s \in Seq(Line), NEW e \in Line
    PROVE  /\ Append(s, e) \in Seq(Line)
           /\ \A x : In(Append(s, e), x) <=> In(s, x) \/ x = e
           /\ IsInjective(s) /\ ~ In(s, e) => IsInjective(Append(s, e))
<1> DEFINE a == Append(s, e)
<1>1. /\ a \in Seq(Line) /\ DOMAIN a = DOMAIN s \cup {Len(s) + 1} /\ a[Len(s) + 1] = e
      /\ \A i \in DOMAIN s : a[i] = s[i]
      /\ Len(s) + 1 \notin DOMAIN s
  OBVIOUS
<1> HIDE DEF a
<1>2. \A x : In(a, x) <=> In(s, x) \/ x = e
  BY <1>1 DEF In
<1>3. IsInjective(s) /\ ~ In(s, e) => IsInjective(a)
  BY <1>1 DEF In, IsInjective
<1> QED BY <1>1, <1>2, <1>3 DEF a

LEMMA SortedAppend ==
    ASSUME NEW s \in Seq(Line), NEW e \in Line, Sorted(s),
           \A x \in Line : In(s, x) /\ x.by = e.by => x.n < e.n
    PROVE  Sorted(Append(s, e))
<1> DEFINE a == Append(s, e)
<1>1. /\ DOMAIN a = DOMAIN s \cup {Len(s) + 1} /\ a[Len(s) + 1] = e
      /\ \A i \in DOMAIN s : a[i] = s[i] /\ s[i] \in Line /\ i \in Nat /\ i < Len(s) + 1
      /\ Len(s) + 1 \in Nat
  OBVIOUS
<1> HIDE DEF a
<1>2. ASSUME NEW i \in DOMAIN a, NEW j \in DOMAIN a, i < j, a[i].by = a[j].by PROVE a[i].n < a[j].n
  <2>1. i \in DOMAIN s
    BY <1>1, <1>2
  <2>2. CASE j \in DOMAIN s
    BY <1>1, <1>2, <2>1, <2>2 DEF Sorted
  <2>3. CASE j = Len(s) + 1
    BY <1>1, <1>2, <2>1, <2>3 DEF In
  <2> QED BY <1>1, <2>2, <2>3
<1> QED BY <1>2 DEF a, Sorted

LEMMA InTail ==
    ASSUME NEW s \in Seq(Line), s # <<>>, IsInjective(s)
    PROVE  /\ Head(s) \in Line /\ Tail(s) \in Seq(Line)
           /\ In(s, Head(s)) /\ ~ In(Tail(s), Head(s))
           /\ \A x : In(s, x) <=> In(Tail(s), x) \/ x = Head(s)
           /\ IsInjective(Tail(s))
           /\ Sorted(s) => /\ Sorted(Tail(s))
                           /\ \A x \in Line : In(Tail(s), x) /\ x.by = Head(s).by => Head(s).n < x.n
<1> DEFINE a == Tail(s)
<1>1. /\ Head(s) \in Line /\ a \in Seq(Line) /\ Head(s) = s[1] /\ 1 \in DOMAIN s
      /\ \A i \in DOMAIN a : i \in Nat /\ i + 1 \in DOMAIN s /\ a[i] = s[i + 1] /\ i + 1 # 1 /\ 1 < i + 1
      /\ \A i \in DOMAIN s : i = 1 \/ (i - 1 \in DOMAIN a /\ a[i - 1] = s[i])
  OBVIOUS
<1> HIDE DEF a
<1>2. /\ \A x : In(s, x) <=> In(a, x) \/ x = Head(s)
      /\ In(s, Head(s)) /\ ~ In(a, Head(s))
  <2>1. In(s, Head(s))
    BY <1>1 DEF In
  <2>2. ~ In(a, Head(s))
    BY <1>1 DEF In, IsInjective
  <2>3. ASSUME NEW x, In(a, x) PROVE In(s, x)
    BY <1>1, <2>3 DEF In
  <2>4. ASSUME NEW x, In(s, x) PROVE In(a, x) \/ x = Head(s)
    BY <1>1, <2>4 DEF In
  <2> QED BY <2>1, <2>2, <2>3, <2>4
<1>3. IsInjective(a)
  BY <1>1 DEF IsInjective
<1>4. ASSUME Sorted(s)
      PROVE  /\ Sorted(a)
             /\ \A x \in Line : In(a, x) /\ x.by = Head(s).by => Head(s).n < x.n
  <2>1. Sorted(a)
    <3> SUFFICES ASSUME NEW i \in DOMAIN a, NEW j \in DOMAIN a, i < j, a[i].by = a[j].by
                 PROVE  a[i].n < a[j].n
      BY DEF Sorted
    <3>1. i + 1 < j + 1
      BY <1>1
    <3> QED BY <1>1, <1>4, <3>1 DEF Sorted
  <2>2. ASSUME NEW x \in Line, In(a, x), x.by = Head(s).by PROVE Head(s).n < x.n
    <3>1. PICK i \in DOMAIN a : a[i] = x
      BY <2>2 DEF In
    <3> QED BY <1>1, <1>4, <2>2, <3>1 DEF Sorted
  <2> QED BY <2>1, <2>2
<1> QED BY <1>1, <1>2, <1>3, <1>4 DEF a

-----------------------------------------------------------------------------
LEMMA InitLogInv == Init => LogInv
<1> SUFFICES ASSUME Init PROVE LogInv
  OBVIOUS
<1> USE LogAssumption
<1>1. Q!IInv
  <2>1. Q!Init => Q!IInv
    BY QAssume, Q!InitIInv DEF Q!QueueAssumption
  <2>2. Q!Init
    BY DEF Init, tq!Init, Q!Init, tq!Thread, Q!Thread
  <2> QED BY <2>1, <2>2
<1>2. LogType
  <2>1. {is_async, running, switched, ub} \subseteq BOOLEAN
    BY Zenon DEF Init
  <2> QED BY <2>1 DEF Init, LogType
<1>3. CallsMatch
  BY DEF Init, tq!Init, tq!Thread, CallsMatch
<1>4. OnePlace
  BY DEF Init, tq!Init, OnePlace, Held, Popped, In, IsInjective, Line
<1>5. InOrder
  BY DEF Init, tq!Init, InOrder, Sorted, Popped, In
<1> QED BY <1>1, <1>2, <1>3, <1>4, <1>5 DEF LogInv

(* Every step of the logger is a step of its queue or leaves it alone: in  *)
(* particular no line is pushed that is already on its way.                *)
LEMMA UsesQueue == LogInv /\ [Next]_vars => [Q!Next]_(Q!vars)
<1> SUFFICES ASSUME LogInv, [Next]_vars PROVE [Q!Next]_(Q!vars)
  OBVIOUS
<1> USE LogAssumption
<1>0. CallsMatch /\ OnePlace /\ LogType /\ Q!IInv
  BY DEF LogInv
<1>A. ASSUME UNCHANGED tqvars PROVE UNCHANGED Q!vars
  BY <1>A DEF tqvars, Q!vars
<1>1. ASSUME NEW w \in Writers, PushCall(w) PROVE Q!Next
  <2>1. Current(w) \in Line /\ Held(Current(w))
    BY <1>0, <1>1 DEF PushCall, CallsMatch, LogType, Current, Held, Line
  <2>2. ~ In(queue, Current(w))
    BY <1>0, <2>1 DEF OnePlace
  <2>3. ASSUME NEW u \in Q!Thread, qpc[u] \in Q!PushPC PROVE val[u] # Current(w)
    <3>1. u \in Writers
      BY <1>0, <2>3, QueueFacts DEF Q!Thread
    <3>2. val[u] = Current(u) /\ u # w
      BY <1>0, <1>1, <2>3, <3>1 DEF CallsMatch, PushCall, tq!PushCall, Q!PushPC
    <3> QED BY <3>2 DEF Current
  <2>4. Current(w) \notin Q!InFlight
    BY <2>2, <2>3 DEF Q!InFlight, In
  <2>5. Q!Produce(w, Current(w))
    BY <1>1, <2>4 DEF PushCall, tq!PushCall, Q!Produce, Q!PushCall
  <2> QED BY <2>1, <2>5 DEF Q!Next
<1>2. ASSUME NEW w \in Writers, Push(w) PROVE Q!Next
  BY <1>2, PushSame DEF Push, Q!Next
<1>3. ASSUME NEW u \in Writers \cup {LogThread}, Advance(u) PROVE Q!Next
  BY <1>3, AdvanceSame DEF Advance, Q!Next, Q!Internal, Q!Thread
<1>4. CASE LogLoop
  <2>1. CASE running
    <3>1. Q!PopCall(LogThread)
      BY <1>4, <2>1 DEF LogLoop, tq!PopCall, Q!PopCall
    <3> QED BY <3>1 DEF Q!Next
  <2> QED BY <1>A, <1>4, <2>1 DEF LogLoop
<1>5. CASE LogPop
  BY <1>5, PopSame DEF LogPop, Q!Next
<1>6. ASSUME NEW w \in Writers, write_log(w) \/ WriteSync(w) PROVE UNCHANGED Q!vars
  BY <1>A, <1>6 DEF write_log, WriteSync
<1>7. CASE LogWrite \/ Stop \/ \E async \in BOOLEAN : set_async(async)
  BY <1>A, <1>7 DEF LogWrite, Stop, StopRunning, StopJoin, StopDelete, set_async
<1>8. CASE UNCHANGED vars
  BY <1>A, <1>8 DEF vars
<1> QED BY <1>1, <1>2, <1>3, <1>4, <1>5, <1>6, <1>7, <1>8 DEF Next, Writer, Logger

-----------------------------------------------------------------------------
(* LogType is kept: each variable of it is assigned one of its values.     *)
LEMMA NextLogType == LogInv /\ [Next]_vars => LogType'
<1> SUFFICES ASSUME LogInv, [Next]_vars PROVE LogType'
  OBVIOUS
<1> USE LogAssumption
<1>0. LogType /\ CallsMatch
  BY DEF LogInv
<1>1. /\ is_async \in BOOLEAN /\ running \in BOOLEAN /\ switched \in BOOLEAN /\ ub \in BOOLEAN
  BY <1>0 DEF LogType
<1>2. /\ is_async' \in BOOLEAN /\ running' \in BOOLEAN /\ switched' \in BOOLEAN /\ ub' \in BOOLEAN
  BY <1>1, Zenon DEF Next, vars, flags, write_log, Writer, PushCall, Push, Advance, WriteSync, Logger,
     LogLoop, LogPop, LogWrite, Stop, StopRunning, StopJoin, StopDelete, set_async
<1> DEFINE Typed == /\ wpc \in [Writers -> {"idle", "push", "pushing", "write"}]
                    /\ count \in [Writers -> 0 .. MaxLines]
                    /\ lpc \in {"loop", "pop", "write", "ended"}
                    /\ spc \in {"before", "join", "delete", "deleted"}
<1>3. Typed'
  <2>0. Typed
    BY <1>0 DEF LogType
  <2>1. ASSUME NEW w \in Writers, write_log(w) PROVE Typed'
    BY <2>0, <2>1 DEF write_log
  <2>2. ASSUME NEW w \in Writers, PushCall(w) \/ Push(w) \/ WriteSync(w) PROVE Typed'
    BY <2>0, <2>2 DEF PushCall, Push, WriteSync
  <2>3. ASSUME NEW u, Advance(u) PROVE Typed'
    BY <2>0, <2>3 DEF Advance
  <2>4. CASE LogLoop \/ LogPop \/ LogWrite \/ UNCHANGED vars
    BY <2>0, <2>4 DEF LogLoop, LogPop, LogWrite, vars
  <2>5. CASE Stop \/ \E async \in BOOLEAN : set_async(async)
    BY <2>0, <2>5 DEF Stop, StopRunning, StopJoin, StopDelete, set_async
  <2> QED BY <2>1, <2>2, <2>3, <2>4, <2>5 DEF Next, Writer, Logger
<1>4. output' \in Seq(Line)
  <2>1. ASSUME NEW w \in Writers, WriteSync(w) PROVE output' \in Seq(Line)
    <3>1. Current(w) \in Line
      BY <1>0, <2>1 DEF WriteSync, CallsMatch, LogType, Current, Line
    <3> QED BY <1>0, <2>1, <3>1, InAppend DEF WriteSync, LogType
  <2>2. CASE LogWrite
    BY <1>0, <2>2, InAppend DEF LogWrite, LogType, CallsMatch
  <2>3. CASE UNCHANGED output
    BY <1>0, <2>3 DEF LogType
  <2> QED BY <2>1, <2>2, <2>3 DEF Next, vars, write_log, Writer, PushCall, Push, Advance, Logger,
        LogLoop, LogPop, Stop, StopRunning, StopJoin, StopDelete, set_async
<1> QED BY <1>2, <1>3, <1>4 DEF LogType

(* The writers and the log thread are where the queue says they are.       *)
LEMMA NextCallsMatch == LogInv /\ [Next]_vars => CallsMatch'
<1> SUFFICES ASSUME LogInv, [Next]_vars PROVE CallsMatch'
  OBVIOUS
<1> USE LogAssumption
<1>0. LogType /\ CallsMatch /\ Q!IInv
  BY DEF LogInv
<1>Q. /\ Q!TypeOK
      /\ queue \in Seq(Line)
      /\ qpc \in [Writers \cup {LogThread} -> Q!PC]
      /\ val \in [Writers \cup {LogThread} -> Line \cup {None}]
      /\ \A w \in Writers : qpc[w] \notin Q!PopPC
      /\ qpc[LogThread] \notin Q!PushPC
      /\ empty <=> queue = <<>>
  BY <1>0, QueueFacts
<1>1. ASSUME NEW w \in Writers, write_log(w) PROVE CallsMatch'
  BY <1>0, <1>1 DEF write_log, tqvars, CallsMatch, Current, LogType
<1>2. ASSUME NEW w \in Writers, PushCall(w) PROVE CallsMatch'
  BY <1>0, <1>2, <1>Q DEF PushCall, tq!PushCall, CallsMatch, Current, LogType
<1>3. ASSUME NEW w \in Writers, Push(w) PROVE CallsMatch'
  <2>1. Q!PushMoves(w)
    BY <1>3, <1>Q, PushSame, Q!PushEffect, QAssume DEF Push, Q!Thread, Q!QueueAssumption
  <2>2. /\ \A u \in Writers : qpc'[u] = IF u = w THEN "idle" ELSE qpc[u]
        /\ qpc'[LogThread] # "idle" <=> qpc[LogThread] # "idle"
    BY <2>1, <1>Q DEF Q!PushMoves, Q!Thread, Q!PopPC
  <2>3. val' = [val EXCEPT ![w] = None] /\ wpc[w] = "pushing"
    BY <1>3 DEF Push, tq!Push, tq!PushBody
  <2> QED BY <1>0, <1>3, <1>Q, <2>2, <2>3 DEF Push, CallsMatch, Current, LogType
<1>4. ASSUME NEW u \in Writers \cup {LogThread}, Advance(u) PROVE CallsMatch'
  <2>1. /\ val' = val
        /\ \A t \in Writers \cup {LogThread} : qpc'[t] # "idle" <=> qpc[t] # "idle"
    BY <1>4, <1>Q DEF Advance, tq!Advance, tq!Lock, tq!PushWait, tq!PopWait
  <2> QED BY <1>0, <1>4, <2>1 DEF Advance, CallsMatch, Current
<1>5. ASSUME NEW w \in Writers, WriteSync(w) PROVE CallsMatch'
  BY <1>0, <1>5 DEF WriteSync, tqvars, CallsMatch, Current, LogType
<1>6. CASE LogLoop
  BY <1>0, <1>6, <1>Q DEF LogLoop, tq!PopCall, tqvars, CallsMatch, Current
<1>7. CASE LogPop
  <2>1. Q!PopMoves(LogThread)
    BY <1>7, <1>Q, PopSame, Q!PopEffect, QAssume DEF LogPop, Q!Thread, Q!QueueAssumption
  <2>2. /\ qpc'[LogThread] = "idle"
        /\ \A w \in Writers : qpc'[w] # "idle" <=> qpc[w] # "idle"
    BY <2>1, <1>Q DEF Q!PopMoves, Q!Thread
  <2>3. val' = [val EXCEPT ![LogThread] = Head(queue)] /\ Head(queue) \in Line
    BY <1>7, <1>Q DEF LogPop, tq!Pop
  <2> QED BY <1>0, <1>7, <1>Q, <2>2, <2>3 DEF LogPop, CallsMatch, Current
<1>8. CASE LogWrite \/ Stop \/ (\E async \in BOOLEAN : set_async(async)) \/ UNCHANGED vars
  <2>1. /\ UNCHANGED <<qpc, val, wpc, count>>
        /\ lpc' = lpc \/ (lpc = "write" /\ lpc' = "loop")
    BY <1>8 DEF LogWrite, Stop, StopRunning, StopJoin, StopDelete, set_async, vars, tqvars
  <2> QED BY <1>0, <2>1 DEF CallsMatch, Current
<1> QED BY <1>1, <1>2, <1>3, <1>4, <1>5, <1>6, <1>7, <1>8 DEF Next, Writer, Logger

(* What a step does to the places: the line that the step is about goes    *)
(* from one place to the next, and every other line stays where it is.     *)
Stays(l) == /\ Held(l)' <=> Held(l)
            /\ In(queue, l)' <=> In(queue, l)
            /\ Popped(l)' <=> Popped(l)
            /\ In(output, l)' <=> In(output, l)
            /\ l.n <= count'[l.by] <=> l.n <= count[l.by]

LEMMA NextOnePlace == LogInv /\ [Next]_vars => OnePlace'
<1> SUFFICES ASSUME LogInv, [Next]_vars PROVE OnePlace'
  OBVIOUS
<1> USE LogAssumption
<1>0. LogType /\ CallsMatch /\ Q!IInv /\ OnePlace
  BY DEF LogInv
<1>Q. /\ queue \in Seq(Line)
      /\ val \in [Writers \cup {LogThread} -> Line \cup {None}]
      /\ empty <=> queue = <<>>
  BY <1>0, QueueFacts
<1>1. ASSUME NEW w \in Writers, write_log(w) PROVE OnePlace'
  <2>1. /\ wpc[w] = "idle" /\ wpc' \in [Writers -> {"idle", "push", "pushing", "write"}]
        /\ \A u \in Writers : wpc'[u] # "idle" <=> u = w \/ wpc[u] # "idle"
        /\ \A u \in Writers : count'[u] = IF u = w THEN count[u] + 1 ELSE count[u]
        /\ count \in [Writers -> 0 .. MaxLines]
        /\ UNCHANGED <<queue, lpc, val, output>>
    BY <1>0, <1>1 DEF write_log, tqvars, LogType
  <2>2. ASSUME NEW l \in Line, l.by # w \/ l.n # count[w] + 1 PROVE Stays(l)
    BY <2>1, <2>2 DEF Stays, Held, Popped, Line, In
  <2>3. ASSUME NEW l \in Line, l.by = w, l.n = count[w] + 1
        PROVE  /\ Held(l)' /\ l.n <= count'[l.by] /\ ~ (l.n <= count[l.by])
               /\ ~ In(queue, l)' /\ ~ Popped(l)' /\ ~ In(output, l)'
    BY <1>0, <2>1, <2>3 DEF Held, Popped, Line, OnePlace, In
  <2> QED BY <1>0, <2>1, <2>2, <2>3 DEF OnePlace, Stays
<1>2. ASSUME NEW w \in Writers, PushCall(w) PROVE OnePlace'
  <2>1. ASSUME NEW l \in Line PROVE Stays(l)
    BY <1>0, <1>2 DEF PushCall, tq!PushCall, Stays, Held, Popped, Line, In, LogType
  <2> QED BY <1>0, <1>2, <2>1 DEF PushCall, tq!PushCall, OnePlace, Stays
<1>3. ASSUME NEW w \in Writers, Push(w) PROVE OnePlace'
  <2>0. PICK c : c = Current(w)
    OBVIOUS
  <2>1. /\ c \in Line /\ c.by = w /\ c.n = count[w] /\ Held(c) /\ val[w] = c
    BY <1>0, <1>3, <2>0 DEF Push, CallsMatch, LogType, Current, Held, Line
  <2>2. /\ queue' = Append(queue, c) /\ val' = [val EXCEPT ![w] = None]
        /\ \A u \in Writers : wpc'[u] # "idle" <=> u # w /\ wpc[u] # "idle"
        /\ UNCHANGED <<count, lpc, output>> /\ val'[LogThread] = val[LogThread]
    BY <1>0, <1>3, <1>Q, <2>1 DEF Push, tq!Push, tq!PushBody, LogType
  <2>3. /\ \A x : In(queue', x) <=> In(queue, x) \/ x = c
        /\ IsInjective(queue')
    BY <1>0, <1>Q, <2>1, <2>2, InAppend DEF OnePlace
  <2>4. ASSUME NEW l \in Line, l # c PROVE Stays(l)
    BY <2>1, <2>2, <2>3, <2>4 DEF Stays, Held, Popped, Line
  <2>5. ~ Held(c)' /\ In(queue, c)' /\ ~ Popped(c)' /\ ~ In(output, c)' /\ c.n <= count'[c.by]
    BY <1>0, <2>1, <2>2, <2>3 DEF Held, Popped, Line, OnePlace
  <2> QED BY <1>0, <2>2, <2>3, <2>4, <2>5 DEF OnePlace, Stays
<1>4. ASSUME NEW u, Advance(u) PROVE OnePlace'
  BY <1>0, <1>4 DEF Advance, tq!Advance, tq!Lock, tq!PushWait, tq!PopWait, OnePlace, Held, Popped, In
<1>5. ASSUME NEW w \in Writers, WriteSync(w) PROVE OnePlace'
  <2>0. PICK c : c = Current(w)
    OBVIOUS
  <2>1. /\ c \in Line /\ c.by = w /\ c.n = count[w] /\ Held(c)
    BY <1>0, <1>5, <2>0 DEF WriteSync, CallsMatch, LogType, Current, Held, Line
  <2>2. /\ output' = Append(output, c) /\ output \in Seq(Line)
        /\ \A u \in Writers : wpc'[u] # "idle" <=> u # w /\ wpc[u] # "idle"
        /\ UNCHANGED <<count, lpc, queue, val>>
    BY <1>0, <1>5, <2>0 DEF WriteSync, LogType, tqvars
  <2>3. /\ \A x : In(output', x) <=> In(output, x) \/ x = c
        /\ IsInjective(output')
    BY <1>0, <2>1, <2>2, InAppend DEF OnePlace
  <2>4. ASSUME NEW l \in Line, l # c PROVE Stays(l)
    BY <2>1, <2>2, <2>3, <2>4 DEF Stays, Held, Popped, Line
  <2>5. ~ Held(c)' /\ ~ In(queue, c)' /\ ~ Popped(c)' /\ In(output, c)' /\ c.n <= count'[c.by]
    BY <1>0, <2>1, <2>2, <2>3 DEF Held, Popped, Line, OnePlace
  <2> QED BY <1>0, <2>2, <2>3, <2>4, <2>5 DEF OnePlace, Stays
<1>6. CASE LogLoop
  <2>1. ASSUME NEW l \in Line PROVE Stays(l)
    BY <1>6 DEF LogLoop, tq!PopCall, tqvars, Stays, Held, Popped, In
  <2> QED BY <1>0, <1>6, <2>1 DEF LogLoop, tq!PopCall, tqvars, OnePlace, Stays
<1>7. CASE LogPop
  <2>0. PICK h : h = Head(queue)
    OBVIOUS
  <2>1. /\ queue # <<>> /\ queue' = Tail(queue) /\ val'[LogThread] = h
        /\ lpc = "pop" /\ lpc' = "write" /\ UNCHANGED <<wpc, count, output>>
    BY <1>7, <1>Q, <2>0 DEF LogPop, tq!Pop
  <2>2. /\ h \in Line /\ In(queue, h) /\ ~ In(queue', h) /\ IsInjective(queue')
        /\ \A x : In(queue, x) <=> In(queue', x) \/ x = h
    BY <1>0, <1>Q, <2>0, <2>1, InTail DEF OnePlace
  <2>3. ASSUME NEW l \in Line, l # h PROVE Stays(l)
    BY <2>1, <2>2, <2>3 DEF Stays, Held, Popped
  <2>4. ~ Held(h)' /\ ~ In(queue, h)' /\ Popped(h)' /\ ~ In(output, h)' /\ h.n <= count'[h.by]
    BY <1>0, <2>1, <2>2 DEF Held, Popped, OnePlace
  <2> QED BY <1>0, <2>1, <2>2, <2>3, <2>4 DEF OnePlace, Stays
<1>8. CASE LogWrite
  <2>0. PICK h : h = val[LogThread]
    OBVIOUS
  <2>1. /\ output' = Append(output, h) /\ output \in Seq(Line) /\ h \in Line /\ Popped(h)
        /\ lpc' = "loop" /\ UNCHANGED <<wpc, count, queue, val>>
    BY <1>0, <1>8, <2>0 DEF LogWrite, LogType, CallsMatch, tqvars, Popped
  <2>2. ASSUME NEW l, l # h PROVE ~ Popped(l)
    BY <2>0, <2>2 DEF Popped
  <2>3. /\ \A x : In(output', x) <=> In(output, x) \/ x = h
        /\ IsInjective(output')
    BY <1>0, <2>1, InAppend DEF OnePlace
  <2>4. ASSUME NEW l \in Line, l # h PROVE Stays(l)
    BY <2>1, <2>2, <2>3, <2>4 DEF Stays, Held, Popped
  <2>5. ~ Held(h)' /\ ~ In(queue, h)' /\ ~ Popped(h)' /\ In(output, h)' /\ h.n <= count'[h.by]
    BY <1>0, <2>1, <2>3 DEF Held, Popped, OnePlace
  <2> QED BY <1>0, <2>1, <2>3, <2>4, <2>5 DEF OnePlace, Stays
<1>9. CASE Stop \/ (\E async \in BOOLEAN : set_async(async)) \/ UNCHANGED vars
  <2>1. UNCHANGED <<queue, val, wpc, count, lpc, output>>
    BY <1>9 DEF Stop, StopRunning, StopJoin, StopDelete, set_async, vars, tqvars
  <2> QED BY <1>0, <2>1 DEF OnePlace, Held, Popped, In
<1> QED BY <1>1, <1>2, <1>3, <1>4, <1>5, <1>6, <1>7, <1>8, <1>9 DEF Next, Writer, Logger

(* Until set_async is called the queue is the only way to the file, and    *)
(* the line a writer pushes is the last it has begun.                      *)
LEMMA NextInOrder == LogInv /\ [Next]_vars => InOrder'
<1> SUFFICES ASSUME LogInv, [Next]_vars, ~ switched' PROVE InOrder'
  BY DEF InOrder
<1> USE LogAssumption
<1>0. LogType /\ CallsMatch /\ Q!IInv /\ OnePlace
  BY DEF LogInv
<1>Q. /\ queue \in Seq(Line)
      /\ val \in [Writers \cup {LogThread} -> Line \cup {None}]
      /\ empty <=> queue = <<>>
  BY <1>0, QueueFacts
<1>S. ~ switched
  BY DEF Next, vars, flags, write_log, Writer, PushCall, Push, Advance, WriteSync, Logger,
     LogLoop, LogPop, LogWrite, Stop, StopRunning, StopJoin, StopDelete, set_async
<1>I. /\ is_async /\ \A w \in Writers : wpc[w] # "write"
      /\ Sorted(queue) /\ Sorted(output)
      /\ \A x, z \in Line : x.by = z.by =>
            /\ In(output, x) /\ (Popped(z) \/ In(queue, z)) => x.n < z.n
            /\ Popped(x) /\ In(queue, z) => x.n < z.n
  BY <1>S DEF LogInv, InOrder
<1>1. ASSUME NEW w \in Writers, write_log(w) PROVE InOrder'
  <2>1. UNCHANGED <<queue, output, lpc, val, is_async>>
    BY <1>1 DEF write_log, tqvars, flags
  <2>2. \A u \in Writers : wpc'[u] # "write"
    BY <1>0, <1>1, <1>I DEF write_log, LogType
  <2> QED BY <1>I, <2>1, <2>2 DEF InOrder, Sorted, In, Popped
<1>2. ASSUME NEW w \in Writers, PushCall(w) PROVE InOrder'
  <2>1. /\ UNCHANGED <<queue, output, lpc, is_async>>
        /\ val'[LogThread] = val[LogThread]
        /\ \A u \in Writers : wpc'[u] # "write"
    BY <1>0, <1>2, <1>I, <1>Q DEF PushCall, tq!PushCall, flags, LogType
  <2> QED BY <1>I, <2>1 DEF InOrder, Sorted, In, Popped
<1>3. ASSUME NEW w \in Writers, Push(w) PROVE InOrder'
  <2>0. PICK c : c = Current(w)
    OBVIOUS
  <2>1. /\ c \in Line /\ c.by = w /\ c.n = count[w] /\ Held(c) /\ val[w] = c
    BY <1>0, <1>3, <2>0 DEF Push, CallsMatch, LogType, Current, Held, Line
  <2>2. /\ queue' = Append(queue, c)
        /\ UNCHANGED <<lpc, output, is_async>> /\ val'[LogThread] = val[LogThread]
        /\ \A u \in Writers : wpc'[u] # "write"
    BY <1>0, <1>3, <1>I, <1>Q, <2>1 DEF Push, tq!Push, tq!PushBody, flags, LogType
  <2>3. ASSUME NEW x \in Line, x.by = w, In(queue, x) \/ Popped(x) \/ In(output, x)
        PROVE  x.n < c.n
    <3>1. x # c /\ x.n <= c.n
      BY <1>0, <2>1, <2>3 DEF OnePlace
    <3> QED BY <2>1, <2>3, <3>1 DEF Line
  <2>4. /\ \A x : In(queue', x) <=> In(queue, x) \/ x = c
        /\ Sorted(queue')
    BY <1>I, <1>Q, <2>1, <2>2, <2>3, InAppend, SortedAppend
  <2>5. ASSUME NEW x \in Line PROVE (Popped(x)' <=> Popped(x)) /\ (In(output, x)' <=> In(output, x))
    BY <2>2 DEF Popped, In
  <2> QED BY <1>I, <2>1, <2>2, <2>3, <2>4, <2>5 DEF InOrder, Sorted
<1>4. ASSUME NEW u, Advance(u) PROVE InOrder'
  BY <1>I, <1>4 DEF Advance, tq!Advance, tq!Lock, tq!PushWait, tq!PopWait, flags, InOrder, Sorted, Popped, In
<1>5. ASSUME NEW w \in Writers, WriteSync(w) PROVE FALSE
  BY <1>I, <1>5 DEF WriteSync
<1>6. CASE LogLoop
  <2>1. UNCHANGED <<queue, output, wpc, is_async>> /\ lpc # "write" /\ lpc' # "write"
    BY <1>6 DEF LogLoop, tq!PopCall, tqvars, flags
  <2> QED BY <1>I, <2>1 DEF InOrder, Sorted, Popped, In
<1>7. CASE LogPop
  <2>0. PICK h : h = Head(queue)
    OBVIOUS
  <2>1. /\ queue # <<>> /\ queue' = Tail(queue) /\ val'[LogThread] = h
        /\ lpc' = "write" /\ UNCHANGED <<wpc, output, is_async>>
    BY <1>7, <1>Q, <2>0 DEF LogPop, tq!Pop, flags
  <2>2. /\ h \in Line /\ In(queue, h) /\ Sorted(queue')
        /\ \A x : In(queue', x) => In(queue, x)
        /\ \A x \in Line : In(queue', x) /\ x.by = h.by => h.n < x.n
    BY <1>0, <1>I, <1>Q, <2>0, <2>1, InTail DEF OnePlace
  <2>3. ASSUME NEW x \in Line PROVE Popped(x)' <=> x = h
    BY <2>1 DEF Popped
  <2> QED BY <1>I, <2>1, <2>2, <2>3 DEF InOrder, Sorted
<1>8. CASE LogWrite
  <2>0. PICK h : h = val[LogThread]
    OBVIOUS
  <2>1. /\ output' = Append(output, h) /\ output \in Seq(Line) /\ h \in Line /\ Popped(h)
        /\ lpc' = "loop" /\ UNCHANGED <<wpc, queue, is_async>>
    BY <1>0, <1>8, <2>0 DEF LogWrite, LogType, CallsMatch, tqvars, flags, Popped
  <2>2. /\ \A x : In(output', x) <=> In(output, x) \/ x = h
        /\ Sorted(output')
    BY <1>I, <2>1, InAppend, SortedAppend
  <2>3. ASSUME NEW x PROVE ~ Popped(x)'
    BY <2>1 DEF Popped
  <2> QED BY <1>I, <2>1, <2>2, <2>3 DEF InOrder, Sorted
<1>9. CASE Stop \/ (\E async \in BOOLEAN : set_async(async)) \/ UNCHANGED vars
  <2>1. UNCHANGED <<queue, val, wpc, lpc, output, is_async>>
    BY <1>9 DEF Stop, StopRunning, StopJoin, StopDelete, set_async, vars, tqvars, flags
  <2> QED BY <1>I, <2>1 DEF InOrder, Sorted, Popped, In
<1> QED BY <1>1, <1>2, <1>3, <1>4, <1>5, <1>6, <1>7, <1>8, <1>9 DEF Next, Writer, Logger

LEMMA NextLogInv == LogInv /\ [Next]_vars => LogInv'
<1> SUFFICES ASSUME LogInv, [Next]_vars PROVE LogInv'
  OBVIOUS
<1>1. Q!IInv'
  BY UsesQueue, QueueKept DEF LogInv
<1> QED BY <1>1, NextLogType, NextCallsMatch, NextOnePlace, NextInOrder DEF LogInv

-----------------------------------------------------------------------------
(* Every thread of the logger is at a place of write_log, log_from_queue   *)
(* or stop, and only lines are queued and written.                         *)
THEOREM LogTypeCorrect == Spec => []TypeOK
<1>1. LogInv => TypeOK
  <2> SUFFICES ASSUME LogInv PROVE TypeOK
    OBVIOUS
  <2>1. tq!TypeOK
    BY DEF LogInv, Q!IInv, Q!TypeOK, tq!TypeOK, Q!Thread, tq!Thread, Q!PushPC, tq!PushPC, Q!PopPC, tq!PopPC
  <2> QED BY <2>1 DEF LogInv, LogType, TypeOK
<1> QED BY <1>1, InitLogInv, NextLogInv, PTL DEF Spec

(* Whatever set_async and stop do in between, no line is lost on its way   *)
(* through write_log, the queue and log_from_queue, and none is written    *)
(* twice.                                                                  *)
THEOREM LogLinesInOnePlace == Spec => []EachLineInOnePlace
<1>1. LogInv => EachLineInOnePlace
  <2> SUFFICES ASSUME LogInv PROVE EachLineInOnePlace
    OBVIOUS
  <2> DEFINE held == {l \in Begun : wpc[l.by] # "idle" /\ l = Current(l.by)}
             popped == IF lpc = "write" THEN {val[LogThread]} ELSE {}
             places == <<held, ToSet(queue), popped, ToSet(output)>>
  <2>0. OnePlace /\ LogType /\ CallsMatch /\ queue \in Seq(Line)
    BY QueueFacts DEF LogInv
  <2>1. ASSUME NEW l PROVE l \in held <=> l \in Line /\ Held(l)
    BY <2>0 DEF Held, Begun, Current, LogType, Line
  <2>2. ASSUME NEW l PROVE /\ l \in ToSet(queue) <=> l \in Line /\ In(queue, l)
                           /\ l \in ToSet(output) <=> l \in Line /\ In(output, l)
    BY <2>0 DEF ToSet, In, LogType
  <2>3. ASSUME NEW l PROVE l \in popped <=> l \in Line /\ Popped(l)
    BY <2>0 DEF Popped, CallsMatch
  <2>4. ASSUME NEW l PROVE l \in Begun <=> l \in Line /\ l.n <= count[l.by]
    BY DEF Begun
  <2> HIDE DEF held, popped
  <2>5. UNION ToSet(places) = held \cup ToSet(queue) \cup popped \cup ToSet(output)
    <3>1. ToSet(places) = {held, ToSet(queue), popped, ToSet(output)}
      BY DEF ToSet
    <3> QED BY <3>1
  <2>6. Begun = UNION ToSet(places)
    BY <2>0, <2>1, <2>2, <2>3, <2>4, <2>5 DEF OnePlace
  <2>7. /\ held \cap ToSet(queue) = {} /\ held \cap popped = {} /\ held \cap ToSet(output) = {}
        /\ ToSet(queue) \cap popped = {} /\ ToSet(queue) \cap ToSet(output) = {}
        /\ popped \cap ToSet(output) = {}
    BY <2>0, <2>1, <2>2, <2>3 DEF OnePlace
  <2>8. \A i, j \in 1 .. 4 : i # j => places[i] \cap places[j] = {}
    <3>1. \A i \in 1 .. 4 : i = 1 \/ i = 2 \/ i = 3 \/ i = 4
      OBVIOUS
    <3> QED BY <2>7, <3>1
  <2> QED BY <2>0, <2>6, <2>8 DEF EachLineInOnePlace, OnePlace, held, popped
<1> QED BY <1>1, InitLogInv, NextLogInv, PTL DEF Spec

(* The log thread writes a writer's lines in the order in which write_log  *)
(* was called, as long as nobody has called set_async.                     *)
THEOREM LogWriterOrder == Spec => []WriterOrder
<1>1. LogInv => WriterOrder
  BY DEF LogInv, InOrder, Sorted, WriterOrder
<1> QED BY <1>1, InitLogInv, NextLogInv, PTL DEF Spec
=============================================================================
