--------------------------- MODULE AcceptorProofs ---------------------------
(***************************************************************************)
(* Proofs about Acceptor.tla, for any connections, workers, queue size and *)
(* number of chunks.                                                       *)
(*                                                                         *)
(* NeverForgotten is not inductive: a worker that reads EAGAIN goes idle,  *)
(* and nothing in it says that somebody else will arm the connection.  The *)
(* strengthening Attended does: whoever was woken by input finds some, or  *)
(* else the worker that took it has yet to arm the connection.             *)
(***************************************************************************)
EXTENDS Acceptor, TLAPS

(* Somebody is past the read of connection c and will arm it or delete it. *)
Past == {"out", "parse", "mod", "sent", "del"}
Answering(c) ==
    \/ [on |-> "out", conn |-> c] \in events
    \/ \E i \in DOMAIN tasks : tasks[i] = [on |-> "out", conn |-> c]
    \/ \E w \in Workers : job[w].at \in Past /\ job[w].conn = c

(* Somebody is about to read connection c. *)
Reading(c) ==
    \/ [on |-> "in", conn |-> c] \in events
    \/ \E i \in DOMAIN tasks : tasks[i] = [on |-> "in", conn |-> c]
    \/ \E w \in Workers : At(w, "in") /\ job[w].conn = c

Attended ==
    \A c \in Conn :
        life[c] = "live" /\ c \notin abandoned /\ armed[c] = "off" =>
            Answering(c) \/ (Readable(c) /\ Reading(c))

IInv == TypeOK /\ Attended

-----------------------------------------------------------------------------
(* A worker that is not idle holds a job of the type. *)
LEMMA BusyJob ==
    ASSUME TypeOK, NEW w \in Workers, job[w].at # "idle"
    PROVE  /\ job[w] \in Job
           /\ job[w].at \in Step /\ job[w].conn \in Conn
           /\ job[w].chunk \in Chunk \cup {"none"} /\ job[w].mask \in {"in", "out"}
<1>1. job[w] \in Job \cup {Idle}
  BY DEF TypeOK
<1>2. job[w] # Idle
  BY DEF Idle
<1> QED
  BY <1>1, <1>2 DEF Job

(* What the steps of read_conn and write_conn make of a job. *)
LEMMA JobIdle ==
    ASSUME TypeOK, NEW w \in Workers, job' = [job EXCEPT ![w] = Idle]
    PROVE  job' \in [Workers -> Job \cup {Idle}]
BY DEF TypeOK

LEMMA JobAt ==
    ASSUME TypeOK, NEW w \in Workers, job[w].at # "idle", NEW at \in Step,
           job' = [job EXCEPT ![w].at = at]
    PROVE  job' \in [Workers -> Job \cup {Idle}]
<1>1. [job[w] EXCEPT !.at = at] \in Job
  BY BusyJob DEF Job
<1> QED
  BY <1>1 DEF TypeOK

LEMMA JobChunk ==
    ASSUME TypeOK, NEW w \in Workers, job[w].at # "idle", NEW at \in Step,
           NEW chunk \in Chunk, job' = [job EXCEPT ![w].at = at, ![w].chunk = chunk]
    PROVE  job' \in [Workers -> Job \cup {Idle}]
<1>1. [job[w] EXCEPT !.at = at, !.chunk = chunk] \in Job
  BY BusyJob DEF Job
<1> QED
  BY <1>1 DEF TypeOK

LEMMA JobMask ==
    ASSUME TypeOK, NEW w \in Workers, job[w].at # "idle", NEW mask \in {"in", "out"},
           job' = [job EXCEPT ![w].at = "mod", ![w].chunk = "none", ![w].mask = mask]
    PROVE  job' \in [Workers -> Job \cup {Idle}]
<1>1. [job[w] EXCEPT !.at = "mod", !.chunk = "none", !.mask = mask] \in Job
  BY BusyJob DEF Job, Step
<1> QED
  BY <1>1 DEF TypeOK

LEMMA InitTypeOK == Init => TypeOK
<1> SUFFICES ASSUME Init PROVE TypeOK
  OBVIOUS
<1>1. job \in [Workers -> Job \cup {Idle}]
  BY DEF Init
<1>2. sock \in [Conn -> Seq(Chunk)] /\ tasks \in Seq(Event)
  BY DEF Init
<1>3. sent \in [Conn -> 0 .. MaxChunks]
  BY AcceptorAssumption DEF Init
<1> QED
  BY <1>1, <1>2, <1>3 DEF Init, TypeOK

LEMMA ClientTypeOK == TypeOK /\ Client => TypeOK'
<1> SUFFICES ASSUME TypeOK, Client PROVE TypeOK'
  OBVIOUS
<1>1. ASSUME NEW c \in Conn, Connect(c) PROVE TypeOK'
  BY <1>1 DEF TypeOK, Connect, loop, server
<1>2. ASSUME NEW c \in Conn, Close(c) PROVE TypeOK'
  BY <1>2 DEF TypeOK, Close, loop, server
<1>3. ASSUME NEW c \in Conn, Reset(c) PROVE TypeOK'
  <2>1. sock' \in [Conn -> Seq(Chunk)]
    BY <1>3 DEF TypeOK, Reset
  <2> QED
    BY <1>3, <2>1 DEF TypeOK, Reset, loop, server
<1>4. ASSUME NEW c \in Conn, NEW k \in Chunk, Send(c, k) PROVE TypeOK'
  <2>1. sock' \in [Conn -> Seq(Chunk)]
    BY <1>4 DEF TypeOK, Send
  <2>2. sent' \in [Conn -> 0 .. MaxChunks]
    BY <1>4, AcceptorAssumption DEF TypeOK, Send
  <2> QED
    BY <1>4, <2>1, <2>2 DEF TypeOK, Send, loop, server
<1> QED
  BY <1>1, <1>2, <1>3, <1>4 DEF Client

LEMMA LoopTypeOK == TypeOK /\ EpollLoop => TypeOK'
<1> SUFFICES ASSUME TypeOK, EpollLoop PROVE TypeOK'
  OBVIOUS
<1>1. ASSUME NEW es \in SUBSET Ready, epoll_wait(es) PROVE TypeOK'
  BY <1>1 DEF TypeOK, epoll_wait, Ready, client, server
<1>2. ASSUME accept_conn PROVE TypeOK'
  BY <1>2 DEF TypeOK, accept_conn, loop, server
<1>3. ASSUME NEW e \in events, Dispatch(e) PROVE TypeOK'
  <2>1. e \in Event /\ e.conn \in Conn
    BY DEF TypeOK, Event
  <2>2. tasks' \in Seq(Event)
    BY <1>3, <2>1 DEF TypeOK, Dispatch
  <2> QED
    BY <1>3, <2>1, <2>2 DEF TypeOK, Dispatch, client, server
<1>4. ASSUME NEW c \in logging, Debug(c) PROVE TypeOK'
  BY <1>4 DEF TypeOK, Debug, client, server
<1> QED
  BY <1>1, <1>2, <1>3, <1>4 DEF EpollLoop

LEMMA WorkerTypeOK ==
    ASSUME NEW w \in Workers PROVE TypeOK /\ Worker(w) => TypeOK'
<1> SUFFICES ASSUME TypeOK, Worker(w) PROVE TypeOK'
  OBVIOUS
<1>1. CASE Pop(w)
  <2>1. Head(tasks) \in Event /\ Tail(tasks) \in Seq(Event)
    BY <1>1 DEF TypeOK, Pop
  <2>2. Start(Head(tasks)) \in Job
    BY <2>1 DEF Event, Start, Job, Step
  <2> QED
    BY <1>1, <2>1, <2>2 DEF TypeOK, Pop, client, loop, server
<1>2. CASE read(w)
  <2>1. job[w].at # "idle" /\ job[w].conn \in Conn
    BY <1>2, BusyJob DEF read, At
  <2>2. sock[job[w].conn] # <<>> => Head(sock[job[w].conn]) \in Chunk
    BY <2>1 DEF TypeOK
  <2>3. job' \in [Workers -> Job \cup {Idle}]
    <3>1. {"parse", "del"} \subseteq Step
      BY DEF Step
    <3>2. CASE sock[job[w].conn] # <<>>
      <4>1. job' = [job EXCEPT ![w].at = "parse", ![w].chunk = Head(sock[job[w].conn])]
        BY <1>2, <3>2 DEF read
      <4> QED
        BY <2>1, <2>2, <3>1, <3>2, <4>1, JobChunk
    <3>3. CASE sock[job[w].conn] = <<>>
      <4>1. \/ job' = [job EXCEPT ![w].at = "del"]
            \/ job' = [job EXCEPT ![w] = Idle]
        BY <1>2, <3>3 DEF read
      <4> QED
        BY <2>1, <3>1, <4>1, JobAt, JobIdle
    <3> QED
      BY <3>2, <3>3
  <2>4. sock' \in [Conn -> Seq(Chunk)]
    <3>1. sock \in [Conn -> Seq(Chunk)]
      BY DEF TypeOK
    <3>2. sock[job[w].conn] # <<>> => Tail(sock[job[w].conn]) \in Seq(Chunk)
      BY <2>1, <3>1
    <3> QED
      BY <1>2, <2>1, <3>1, <3>2 DEF read
  <2> QED
    BY <1>2, <2>3, <2>4 DEF TypeOK, read, Use, loop, server
<1>3. CASE parse(w)
  <2>1. job[w].at # "idle" /\ job[w].conn \in Conn
    BY <1>3, BusyJob DEF parse, At
  <2>2. PICK status \in Parsed(w) :
          /\ rhs' = [rhs EXCEPT ![job[w].conn] = status]
          /\ job' = [job EXCEPT ![w].at = "mod", ![w].chunk = "none",
                                ![w].mask = Mask(job[w].conn, status)]
    BY <1>3 DEF parse
  <2>3. status \in {"reading", "finish"}
    BY <2>1 DEF Parsed, TypeOK
  <2>4. job' \in [Workers -> Job \cup {Idle}]
    BY <2>1, <2>2, JobMask DEF Mask
  <2> QED
    BY <1>3, <2>2, <2>3, <2>4 DEF TypeOK, parse, Use, client, loop
<1>4. CASE Rearm(w) \/ Delete(w) \/ WriteDone(w)
  <2>1. job[w].at # "idle" /\ job[w].conn \in Conn /\ job[w].mask \in {"in", "out"}
    BY <1>4, BusyJob DEF Rearm, Delete, WriteDone, At
  <2>2. job' \in [Workers -> Job \cup {Idle}]
    <3>1. "in" \in Step
      BY DEF Step
    <3>2. job' = [job EXCEPT ![w].at = "in"] \/ job' = [job EXCEPT ![w] = Idle]
      BY <1>4 DEF Rearm, Delete, WriteDone
    <3> QED
      BY <2>1, <3>1, <3>2, JobAt, JobIdle
  <2>3. CASE Rearm(w)
    BY <2>1, <2>2, <2>3 DEF TypeOK, Rearm, Use, client, loop, server
  <2>4. CASE Delete(w)
    BY <2>1, <2>2, <2>4 DEF TypeOK, Delete, Use, loop, server
  <2>5. CASE WriteDone(w)
    BY <2>1, <2>2, <2>5 DEF TypeOK, WriteDone, Use, client, loop, server
  <2> QED
    BY <1>4, <2>3, <2>4, <2>5
<1>5. CASE ReadFails(w)
  <2>1. job[w].at # "idle" /\ job[w].conn \in Conn
    BY <1>5, BusyJob DEF ReadFails, At
  <2>2. job' \in [Workers -> Job \cup {Idle}]
    BY <1>5, JobIdle DEF ReadFails
  <2> QED
    BY <1>5, <2>1, <2>2 DEF TypeOK, ReadFails, Use, loop
<1>6. CASE OpenFails(w) \/ sendfile(w)
  <2>1. job[w].at # "idle" /\ job[w].conn \in Conn
    BY <1>6, BusyJob DEF OpenFails, sendfile, At
  <2>2. job' \in [Workers -> Job \cup {Idle}]
    <3>1. "sent" \in Step
      BY DEF Step
    <3>2. job' = [job EXCEPT ![w].at = "sent"] \/ job' = [job EXCEPT ![w] = Idle]
      BY <1>6 DEF OpenFails, sendfile
    <3> QED
      BY <2>1, <3>1, <3>2, JobAt, JobIdle
  <2>3. CASE OpenFails(w)
    BY <2>1, <2>2, <2>3 DEF TypeOK, OpenFails, Use, client, loop
  <2>4. CASE sendfile(w)
    <3>1. PICK much \in {"part", "all"} : answered' = [answered EXCEPT ![job[w].conn] = much]
      BY <2>4 DEF sendfile
    <3>2. answered' \in [Conn -> {"no", "part", "all"}]
      BY <3>1 DEF TypeOK
    <3>3. files' \in Nat
      BY <2>4 DEF TypeOK, sendfile
    <3>4. killed' \in BOOLEAN
      BY <2>4 DEF sendfile
    <3>5. ub' \in BOOLEAN
      BY <2>4, Zenon DEF sendfile, Use
    <3> QED
      BY <2>2, <2>4, <3>2, <3>3, <3>4, <3>5 DEF TypeOK, sendfile, loop
  <2> QED
    BY <1>6, <2>3, <2>4
<1> QED
  BY <1>1, <1>2, <1>3, <1>4, <1>5, <1>6 DEF Worker

LEMMA NextTypeOK == TypeOK /\ [Next]_vars => TypeOK'
<1>1. TypeOK /\ UNCHANGED vars => TypeOK'
  BY DEF TypeOK, vars
<1> QED
  BY <1>1, ClientTypeOK, LoopTypeOK, WorkerTypeOK DEF Next

(* The acceptor's state keeps its type, whatever the clients send and      *)
(* whichever workers race on a connection.                                 *)
THEOREM AcceptorTypeCorrect == Spec => []TypeOK
BY InitTypeOK, NextTypeOK, PTL DEF Spec

-----------------------------------------------------------------------------
(* What is still to be shown of connection c after a step. *)
Care(c) == life[c] = "live" /\ c \notin abandoned /\ armed[c] = "off"
Cared(c) == Answering(c) \/ (Readable(c) /\ Reading(c))

LEMMA ClientAttended ==
    ASSUME IInv, Client, NEW c \in Conn, Care(c)'
    PROVE  Cared(c)'
<1>1. /\ Care(c)
      /\ UNCHANGED <<events, tasks, job>>
      /\ Readable(c) => Readable(c)'
  <2>1. ASSUME NEW d \in Conn, Connect(d) PROVE <1>1
    BY <2>1 DEF IInv, TypeOK, Care, Connect, Readable, loop, server
  <2>2. ASSUME NEW d \in Conn, Close(d) PROVE <1>1
    BY <2>2 DEF IInv, TypeOK, Care, Close, Readable, loop, server
  <2>3. ASSUME NEW d \in Conn, Reset(d) PROVE <1>1
    BY <2>3 DEF IInv, TypeOK, Care, Reset, Readable, loop, server
  <2>4. ASSUME NEW d \in Conn, NEW k \in Chunk, Send(d, k) PROVE <1>1
    <3>1. sock \in [Conn -> Seq(Chunk)] /\ sock' = [sock EXCEPT ![d] = Append(@, k)]
      BY <2>4 DEF IInv, TypeOK, Send
    <3>2. Append(sock[d], k) # <<>>
      BY <3>1
    <3> QED
      BY <2>4, <3>1, <3>2 DEF IInv, TypeOK, Care, Send, Readable, loop, server
  <2> QED
    BY <2>1, <2>2, <2>3, <2>4 DEF Client
<1>2. Cared(c)
  BY <1>1 DEF IInv, Attended, Care, Cared
<1> QED
  BY <1>1, <1>2 DEF Cared, Answering, Reading, At

LEMMA WaitAttended ==
    ASSUME IInv, NEW es \in SUBSET Ready, epoll_wait(es), NEW c \in Conn, Care(c)'
    PROVE  Cared(c)'
<1>1. CASE \E e \in es : e.conn = c
  <2>1. PICK e \in es : e.conn = c
    BY <1>1
  <2>2. e \in Event /\ (e.on = "in" => Readable(c))
    BY <2>1 DEF Ready
  <2>3. e = [on |-> "in", conn |-> c] \/ e = [on |-> "out", conn |-> c]
    BY <2>1, <2>2 DEF Event
  <2>4. e \in events' /\ (Readable(c) => Readable(c)')
    BY <2>1 DEF epoll_wait, client, Readable
  <2> QED
    BY <2>2, <2>3, <2>4 DEF Cared, Answering, Reading
<1>2. CASE ~ \E e \in es : e.conn = c
  <2>1. armed[c] = "off"
    BY <1>2 DEF epoll_wait, Care
  <2>2. Cared(c)
    BY <2>1 DEF IInv, Attended, Care, Cared, epoll_wait, client, server
  <2>3. events = {} /\ UNCHANGED <<tasks, job, sock, closed>>
    BY DEF epoll_wait, client
  <2> QED
    BY <2>2, <2>3 DEF Cared, Answering, Reading, Readable, At
<1> QED
  BY <1>1, <1>2

(* An element that is appended, or taken from the front, leaves the others *)
(* in the queue.                                                           *)
LEMMA AppendKeeps ==
    ASSUME NEW S, NEW s \in Seq(S), NEW x \in S, NEW y,
           y = x \/ \E i \in DOMAIN s : s[i] = y
    PROVE  \E i \in DOMAIN Append(s, x) : Append(s, x)[i] = y
<1>1. CASE y = x
  <2>1. Len(s) + 1 \in DOMAIN Append(s, x) /\ Append(s, x)[Len(s) + 1] = x
    OBVIOUS
  <2> QED
    BY <1>1, <2>1
<1>2. CASE \E i \in DOMAIN s : s[i] = y
  <2>1. PICK i \in DOMAIN s : s[i] = y
    BY <1>2
  <2>2. i \in DOMAIN Append(s, x) /\ Append(s, x)[i] = y
    BY <2>1
  <2> QED
    BY <2>2
<1> QED
  BY <1>1, <1>2

LEMMA TailKeeps ==
    ASSUME NEW S, NEW s \in Seq(S), s # <<>>, NEW y, \E i \in DOMAIN s : s[i] = y
    PROVE  y = Head(s) \/ \E i \in DOMAIN Tail(s) : Tail(s)[i] = y
<1>1. PICK i \in DOMAIN s : s[i] = y
  OBVIOUS
<1>2. CASE i = 1
  BY <1>1, <1>2
<1>3. CASE i # 1
  <2>1. i - 1 \in DOMAIN Tail(s) /\ Tail(s)[i - 1] = y
    BY <1>1, <1>3
  <2> QED
    BY <2>1
<1> QED
  BY <1>2, <1>3

LEMMA LoopAttended ==
    ASSUME IInv, EpollLoop, NEW c \in Conn, Care(c)'
    PROVE  Cared(c)'
<1>1. ASSUME accept_conn PROVE Cared(c)'
  <2>1. Care(c) /\ UNCHANGED <<events, tasks, job, sock, closed>>
    BY <1>1 DEF IInv, TypeOK, Care, accept_conn, loop, server
  <2> QED
    BY <2>1 DEF IInv, Attended, Care, Cared, Answering, Reading, Readable, At
<1>2. ASSUME NEW e \in events, Dispatch(e) PROVE Cared(c)'
  <2>1. Care(c) /\ UNCHANGED <<job, sock, closed>>
    BY <1>2 DEF Care, Dispatch, client, server
  <2>2. Cared(c)
    BY <2>1 DEF IInv, Attended, Care, Cared
  <2>3. tasks \in Seq(Event) /\ e \in Event
    BY DEF IInv, TypeOK
  <2>4. \A y : y \in events \/ (\E i \in DOMAIN tasks : tasks[i] = y) =>
               y \in events' \/ (\E i \in DOMAIN tasks' : tasks'[i] = y)
    <3>1. tasks' = Append(tasks, e) /\ events' = events \ {e}
      BY <1>2 DEF Dispatch
    <3> QED
      BY <2>3, <3>1, AppendKeeps
  <2>5. Answering(c) => Answering(c)'
    BY <2>1, <2>4 DEF Answering
  <2>6. Reading(c) => Reading(c)'
    BY <2>1, <2>4 DEF Reading, At
  <2> QED
    BY <2>1, <2>2, <2>5, <2>6 DEF Cared, Readable
<1>3. ASSUME NEW d \in logging, Debug(d) PROVE Cared(c)'
  <2>1. Care(c) /\ UNCHANGED <<events, tasks, job, sock, closed>>
    BY <1>3 DEF Care, Debug, client, server
  <2> QED
    BY <2>1 DEF IInv, Attended, Care, Cared, Answering, Reading, Readable, At
<1> QED
  BY <1>1, <1>2, <1>3, WaitAttended DEF EpollLoop

(* The step of one worker leaves the others where they are. *)
LEMMA OthersKeep ==
    ASSUME TypeOK, NEW w \in Workers, Worker(w), NEW v \in Workers, v # w
    PROVE  job'[v] = job[v]
BY DEF TypeOK, Worker, Pop, read, ReadFails, parse, Rearm, Delete, OpenFails,
       sendfile, WriteDone

LEMMA PopAttended ==
    ASSUME IInv, NEW w \in Workers, Pop(w), NEW c \in Conn, Care(c)'
    PROVE  Cared(c)'
<1>1. Care(c) /\ UNCHANGED <<events, sock, closed>>
  BY DEF Care, Pop, client, loop, server
<1>2. Cared(c)
  BY <1>1 DEF IInv, Attended, Care, Cared
<1>3. tasks \in Seq(Event) /\ tasks # <<>> /\ tasks' = Tail(tasks)
  BY DEF IInv, TypeOK, Pop
<1>4. \A v \in Workers : job[v].at # "idle" => job'[v] = job[v]
  BY OthersKeep DEF IInv, Worker, Pop, Busy
<1>5. job'[w] = Start(Head(tasks))
  BY DEF IInv, TypeOK, Pop
<1>6. \A y \in Event : (\E i \in DOMAIN tasks : tasks[i] = y) =>
            y = Head(tasks) \/ \E i \in DOMAIN tasks' : tasks'[i] = y
  BY <1>3, TailKeeps
<1>7. Answering(c) => Answering(c)'
  <2>1. [on |-> "out", conn |-> c] \in Event
    BY DEF Event
  <2>2. [on |-> "out", conn |-> c] = Head(tasks) =>
            job'[w].at = "out" /\ job'[w].conn = c
    BY <1>5 DEF Start
  <2>3. \A v \in Workers : job[v].at \in Past => job'[v] = job[v]
    BY <1>4 DEF Past
  <2> QED
    BY <1>1, <1>6, <2>1, <2>2, <2>3 DEF Answering, Past
<1>8. Reading(c) => Reading(c)'
  <2>1. [on |-> "in", conn |-> c] \in Event
    BY DEF Event
  <2>2. [on |-> "in", conn |-> c] = Head(tasks) =>
            job'[w].at = "in" /\ job'[w].conn = c
    BY <1>5 DEF Start
  <2>3. \A v \in Workers : job[v].at = "in" => job'[v] = job[v]
    BY <1>4
  <2> QED
    BY <1>1, <1>6, <2>1, <2>2, <2>3 DEF Reading, At
<1> QED
  BY <1>1, <1>2, <1>7, <1>8 DEF Cared, Readable

(* A worker whose job moves on to a step of Past is itself the one who is  *)
(* to arm connection c; a worker on another connection changes nothing.    *)
LEMMA PastAttended ==
    ASSUME NEW w \in Workers, NEW c \in Conn, job'[w].at \in Past, job'[w].conn = c
    PROVE  Cared(c)'
BY DEF Cared, Answering

LEMMA OtherAttended ==
    ASSUME IInv, NEW w \in Workers, Worker(w), ~ Pop(w), NEW c \in Conn, Care(c)',
           job[w].conn # c
    PROVE  Cared(c)'
<1>1. job[w].at # "idle" /\ job[w].conn \in Conn
  BY BusyJob DEF IInv, Worker, read, ReadFails, parse, Rearm, Delete, OpenFails, sendfile,
                 WriteDone, At
<1>2. UNCHANGED <<events, tasks, closed>>
  BY DEF Worker, read, ReadFails, parse, Rearm, Delete, OpenFails, sendfile, WriteDone,
         client, loop
<1>3. Care(c) /\ sock'[c] = sock[c]
  BY <1>1 DEF IInv, TypeOK, Care, Worker, read, ReadFails, parse, Rearm, Delete, OpenFails,
              sendfile, WriteDone, client, server
<1>4. Cared(c)
  BY <1>3 DEF IInv, Attended, Care, Cared
<1>5. \A v \in Workers : job[v].conn = c => job'[v] = job[v]
  BY OthersKeep DEF IInv
<1> QED
  BY <1>2, <1>3, <1>4, <1>5 DEF Cared, Answering, Reading, Readable, At

LEMMA WorkerAttended ==
    ASSUME IInv, NEW w \in Workers, Worker(w), NEW c \in Conn, Care(c)'
    PROVE  Cared(c)'
<1>1. CASE Pop(w)
  BY <1>1, PopAttended
<1>2. CASE ~ Pop(w) /\ job[w].conn # c
  BY <1>2, OtherAttended
<1>3. CASE ~ Pop(w) /\ job[w].conn = c
  <2>1. job[w].at # "idle" /\ job[w] \in Job /\ job[w].mask \in {"in", "out"}
    BY <1>3, BusyJob DEF IInv, Worker, read, ReadFails, parse, Rearm, Delete, OpenFails, sendfile,
                         WriteDone, At
  <2>2. job \in [Workers -> Job \cup {Idle}]
    BY DEF IInv, TypeOK
  <2>3. CASE read(w) /\ Readable(c)
    <3>1. job'[w].at \in {"parse", "del"} /\ job'[w].conn = c
      BY <1>3, <2>1, <2>2, <2>3 DEF read, Readable, Job
    <3> QED
      BY <3>1, PastAttended DEF Past
  <2>4. CASE read(w) /\ ~ Readable(c)
    <3>1. Care(c) /\ UNCHANGED <<events, tasks>>
      BY <2>4 DEF read, Care, loop, server
    <3>2. Answering(c)
      BY <2>4, <3>1 DEF IInv, Attended, Care
    <3>3. \A v \in Workers : job[v].at \in Past => job'[v] = job[v]
      BY <2>4, OthersKeep DEF IInv, read, At, Past
    <3> QED
      BY <3>1, <3>2, <3>3 DEF Cared, Answering
  <2>5. CASE parse(w)
    <3>1. PICK status : job' = [job EXCEPT ![w].at = "mod", ![w].chunk = "none",
                                           ![w].mask = Mask(c, status)]
      BY <1>3, <2>5 DEF parse
    <3>2. job'[w].at = "mod" /\ job'[w].conn = c
      BY <1>3, <2>1, <2>2, <3>1 DEF Job
    <3> QED
      BY <3>2, PastAttended DEF Past
  <2>6. CASE Rearm(w) \/ WriteDone(w)
    BY <1>3, <2>1, <2>6 DEF IInv, TypeOK, Rearm, WriteDone, Care
  <2>7. CASE Delete(w)
    BY <1>3, <2>7 DEF IInv, TypeOK, Delete, Care
  <2>8. CASE OpenFails(w) \/ ReadFails(w)
    BY <1>3, <2>8 DEF OpenFails, ReadFails, Care
  <2>9. CASE sendfile(w)
    <3>1. job'[w].at = "sent" /\ job'[w].conn = c
      BY <1>3, <2>1, <2>2, <2>9 DEF sendfile, Job
    <3> QED
      BY <3>1, PastAttended DEF Past
  <2> QED
    BY <1>3, <2>3, <2>4, <2>5, <2>6, <2>7, <2>8, <2>9 DEF Worker
<1> QED
  BY <1>1, <1>2, <1>3

LEMMA InitIInv == Init => IInv
<1>1. Init => Attended
  BY DEF Init, Attended
<1> QED
  BY <1>1, InitTypeOK DEF IInv

LEMMA NextIInv == IInv /\ [Next]_vars => IInv'
<1> SUFFICES ASSUME IInv, [Next]_vars PROVE IInv'
  OBVIOUS
<1>1. TypeOK'
  BY NextTypeOK DEF IInv
<1>2. ASSUME NEW c \in Conn, Care(c)' PROVE Cared(c)'
  <2>1. CASE UNCHANGED vars
    BY <1>2, <2>1 DEF IInv, Attended, Care, Cared, Answering, Reading, Readable, At, vars
  <2>2. CASE Next
    BY <1>2, <2>2, ClientAttended, LoopAttended, WorkerAttended DEF Next
  <2> QED
    BY <2>1, <2>2
<1>3. Attended'
  BY <1>2 DEF Attended, Care, Cared
<1> QED
  BY <1>1, <1>3 DEF IInv

(* No connection is forgotten: as long as it is live, and no worker has    *)
(* left it over a missing file or a failed read, it is armed or somebody   *)
(* is still to see to it, for any number of workers on it                  *)
(* (acceptor.cpp:97-229).                                                  *)
THEOREM AcceptorNeverForgets == Spec => []NeverForgotten
<1>1. IInv => NeverForgotten
  <2> SUFFICES ASSUME IInv, NEW c \in Conn, life[c] = "live", c \notin abandoned,
                      armed[c] = "off"
               PROVE  Pending(c)
    BY DEF NeverForgotten
  <2>1. Answering(c) \/ Reading(c)
    BY DEF IInv, Attended
  <2>2. \A e \in Event : e \in events \/ (\E i \in DOMAIN tasks : tasks[i] = e) =>
            (e.conn = c => Pending(c))
    BY DEF Pending
  <2>3. \A on \in {"in", "out"} : [on |-> on, conn |-> c] \in Event
    BY DEF Event
  <2>4. \A w \in Workers : job[w].at \in Past \cup {"in"} /\ job[w].conn = c => Pending(c)
    BY DEF Pending, Busy, Past
  <2> QED
    BY <2>1, <2>2, <2>3, <2>4 DEF Answering, Reading, At
<1> QED
  BY <1>1, InitIInv, NextIInv, PTL DEF Spec
=============================================================================
