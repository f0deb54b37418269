--------------------------- MODULE MqServerProofs ---------------------------
(***************************************************************************)
(* Proofs about MqServer, for any connections and addresses, any workers   *)
(* and whatever the clients send: no message and no end of a stream is     *)
(* forgotten in a socket, and the maps hold only what was asked for.       *)
(*                                                                         *)
(* Neither property is inductive as it stands.  NothingForgotten needs to  *)
(* know that a reset leaves nothing to read, RelationsSound that the names *)
(* in fd_addrs are of connections that were accepted, and so that nobody   *)
(* works on one that was not.                                              *)
(***************************************************************************)
EXTENDS MqServer, FiniteSetTheorems, TLAPS

Job == [at : {"idle", "accept"}] \cup [at : {"read", "close"}, conn : Conn]
         \cup [at : {"handle"}, conn : Conn, n : Nat]
Id == Conn \X Nat

(* x is in the sequence s.                                                 *)
In(s, x) == \E i \in DOMAIN s : s[i] = x

(* The sockets and the poller.                                             *)
SocketType ==
    /\ setup \in Setup
    /\ life \in [Conn -> {"none", "backlog", "live", "deleted"}]
    /\ inbox \in [Conn -> Seq(Nat)] /\ sent \in [Conn -> Nat]
    /\ closed \subseteq Conn /\ reset \subseteq closed /\ lost \subseteq closed /\ ready \subseteq Conn
    /\ tasks \in Seq(Conn \cup {"accept"})
    /\ job \in [Workers -> Job]
    /\ listening \in BOOLEAN /\ ub \in BOOLEAN /\ killed \in BOOLEAN

(* What was sent, what of it waits and what is handled is of the setup.    *)
Numbers ==
    /\ \A c \in Conn : sent[c] <= Len(setup.send[c])
    /\ \A c \in Conn : \A x \in Nat : In(inbox[c], x) => x \in 1 .. sent[c]
    /\ \A w \in Workers : job[w].at = "handle" => job[w].n \in 1 .. sent[job[w].conn]

MapType ==
    /\ fd_addrs \subseteq IP /\ DOMAIN relations \subseteq IP
    /\ \A p \in DOMAIN relations : relations[p] \in Seq(IP)
    /\ cached_msg \in [IP -> Seq(Id)]

(* A reset leaves nothing to read.                                         *)
ResetEmpty == \A c \in reset : inbox[c] = <<>>

(* A live connection with something to read, or to delete, has an event, a *)
(* task or a worker; and only a connection that was accepted has one, or   *)
(* gives a name to the maps.                                               *)
Busy(w, c) == job[w].at \in {"read", "handle", "close"} /\ job[w].conn = c
Seen(c) == c \in ready \/ In(tasks, c) \/ \E w \in Workers : Busy(w, c)
Due(c) == life[c] = "live" /\ (inbox[c] # <<>> \/ c \in closed \ lost)
Accepted(c) == life[c] \in {"live", "deleted"}
Known(a) == \E c \in Conn : ip[c] = a /\ Accepted(c)
Attended == \A c \in Conn : Due(c) => Seen(c)
AcceptedOnly ==
    /\ \A c \in Conn : Seen(c) => Accepted(c)
    /\ \A a \in fd_addrs : Known(a)

Asked ==
    /\ \A p \in DOMAIN relations : \A s \in IP : In(relations[p], s) =>
          <<s, p>> \in subscribed /\ Known(p)
    /\ \A s \in IP : \A id \in Id : In(cached_msg[s], id) => <<s, ip[id[1]]>> \in subscribed

MqInv == SocketType /\ Numbers /\ MapType /\ ResetEmpty /\ Attended /\ AcceptedOnly /\ Asked

-----------------------------------------------------------------------------
(* What the operations on a sequence do to the elements in it.             *)
LEMMA InAppend ==
    ASSUME NEW S, NEW s \in Seq(S), NEW e \in S
    PROVE  /\ Append(s, e) \in Seq(S) /\ Append(s, e) # <<>>
           /\ \A x : In(Append(s, e), x) <=> In(s, x) \/ x = e
<1> DEFINE a == Append(s, e)
<1>1. /\ a \in Seq(S) /\ a # <<>>
      /\ DOMAIN a = DOMAIN s \cup {Len(s) + 1} /\ a[Len(s) + 1] = e
      /\ \A i \in DOMAIN s : a[i] = s[i] /\ i # Len(s) + 1
  OBVIOUS
<1> HIDE DEF a
<1>2. \A x : In(a, x) <=> In(s, x) \/ x = e
  BY <1>1 DEF In
<1> QED BY <1>1, <1>2 DEF a

LEMMA InTail ==
    ASSUME NEW S, NEW s \in Seq(S), s # <<>>
    PROVE  /\ Head(s) \in S /\ Tail(s) \in Seq(S)
           /\ \A x : In(s, x) <=> In(Tail(s), x) \/ x = Head(s)
<1> DEFINE a == Tail(s)
<1>1. /\ Head(s) \in S /\ a \in Seq(S) /\ Head(s) = s[1] /\ 1 \in DOMAIN s
      /\ \A i \in DOMAIN a : i + 1 \in DOMAIN s /\ a[i] = s[i + 1]
      /\ \A i \in DOMAIN s : i = 1 \/ (i - 1 \in DOMAIN a /\ a[i - 1] = s[i])
  OBVIOUS
<1> HIDE DEF a
<1>2. \A x : In(s, x) <=> In(a, x) \/ x = Head(s)
  BY <1>1 DEF In
<1> QED BY <1>1, <1>2 DEF a

LEMMA InConcat ==
    ASSUME NEW S, NEW s \in Seq(S), NEW t \in Seq(S)
    PROVE  /\ s \o t \in Seq(S)
           /\ \A x : In(s \o t, x) => In(s, x) \/ In(t, x)
<1> DEFINE a == s \o t
<1>1. /\ a \in Seq(S)
      /\ \A i \in DOMAIN a : \/ i \in DOMAIN s /\ a[i] = s[i]
                             \/ i - Len(s) \in DOMAIN t /\ a[i] = t[i - Len(s)]
  OBVIOUS
<1> HIDE DEF a
<1>2. \A x : In(a, x) => In(s, x) \/ In(t, x)
  BY <1>1 DEF In
<1> QED BY <1>1, <1>2 DEF a

(* What a worker's job is at each of its places.                           *)
LEMMA JobOf ==
    ASSUME SocketType, NEW w \in Workers
    PROVE  /\ job[w].at \in {"read", "handle", "close"} => job[w].conn \in Conn
           /\ job[w].at = "read" => job[w] = [at |-> "read", conn |-> job[w].conn]
           /\ job[w].at = "handle" => job[w].n \in Nat
<1>1. job[w] \in Job
  BY DEF SocketType
<1> QED BY <1>1 DEF Job

-----------------------------------------------------------------------------
(* read in recv_msg: a message, the end of the stream, or EAGAIN.          *)
LEMMA ReadEffect ==
    ASSUME SocketType, NEW w \in Workers, Read(w)
    PROVE  \E c \in Conn :
             /\ Busy(w, c) /\ c \notin reset
             /\ UNCHANGED <<setup, life, sent, closed, faults, listening, ready, tasks, maps>>
             /\ \/ /\ inbox[c] # <<>>
                   /\ inbox' = [inbox EXCEPT ![c] = Tail(@)]
                   /\ job' = [job EXCEPT ![w] = [at |-> "handle", conn |-> c, n |-> Head(inbox[c])]]
                \/ /\ inbox[c] = <<>> /\ inbox' = inbox /\ c \in closed
                   /\ job' = [job EXCEPT ![w] = [at |-> "close", conn |-> c]]
                \/ /\ inbox[c] = <<>> /\ inbox' = inbox /\ c \notin closed
                   /\ job' = [job EXCEPT ![w] = Idle]
<1> DEFINE c == job[w].conn
<1>1. job[w] = [at |-> "read", conn |-> c] /\ c \in Conn /\ Busy(w, c) /\ c \notin reset
  BY JobOf DEF Read, Busy
<1>2. UNCHANGED <<setup, life, sent, closed, faults, listening, ready, tasks, maps>>
  BY DEF Read
<1>4. CASE inbox[c] # <<>>
  <2>1. /\ inbox' = [inbox EXCEPT ![c] = Tail(@)]
        /\ job' = [job EXCEPT ![w] = [at |-> "handle", conn |-> c, n |-> Head(inbox[c])]]
    BY <1>4 DEF Read, Handle
  <2> QED BY <1>1, <1>2, <1>4, <2>1
<1>5. CASE inbox[c] = <<>> /\ c \in closed
  <2>1. inbox' = inbox /\ job' = [job EXCEPT ![w] = [at |-> "close", conn |-> c]]
    BY <1>5 DEF Read, NothingRead
  <2> QED BY <1>1, <1>2, <1>5, <2>1
<1>6. CASE inbox[c] = <<>> /\ c \notin closed
  <2>1. inbox' = inbox /\ job' = [job EXCEPT ![w] = Idle]
    BY <1>6 DEF Read, NothingRead
  <2> QED BY <1>1, <1>2, <1>6, <2>1
<1> QED BY <1>4, <1>5, <1>6

(* The handlers are one step to the sockets: the worker reads again.       *)
Handlers(w) == \/ Publish(w) \/ RegisterPublisher(w) \/ RegisterSubscriber(w)
               \/ UnregisterPublisher(w) \/ UnregisterSubscriber(w)

LEMMA HandleEffect ==
    ASSUME SocketType, NEW w \in Workers, Handlers(w)
    PROVE  \E c \in Conn :
             /\ job[w].at = "handle" /\ Busy(w, c)
             /\ UNCHANGED <<setup, life, inbox, sent, closed, lost, listening, ready, tasks>>
             /\ reset' \subseteq reset
             /\ job' = [job EXCEPT ![w] = [at |-> "read", conn |-> c]]
<1>1. /\ job[w].at = "handle" /\ job' = [job EXCEPT ![w] = Continue(w)]
      /\ UNCHANGED <<setup, life, inbox, sent, closed, lost, listening, ready, tasks>>
  BY DEF Handlers, Publish, RegisterPublisher, RegisterSubscriber, UnregisterPublisher,
     UnregisterSubscriber, On
<1>2. reset' \subseteq reset
  BY DEF Handlers, Publish, RegisterPublisher, RegisterSubscriber, UnregisterPublisher,
     UnregisterSubscriber
<1> QED BY <1>1, <1>2, JobOf DEF Continue, Busy

(* Close and a failed read leave the connection.                           *)
LEMMA LeaveEffect ==
    ASSUME SocketType, NEW w \in Workers, Close(w) \/ ReadFails(w)
    PROVE  \E c \in Conn :
             /\ Busy(w, c) /\ job' = [job EXCEPT ![w] = Idle]
             /\ UNCHANGED <<setup, inbox, sent, closed, listening, tasks, maps>>
             /\ \/ /\ life' = [life EXCEPT ![c] = "deleted"] /\ ready' = ready \ {c}
                   /\ UNCHANGED faults
                \/ /\ c \in reset /\ reset' = reset \ {c} /\ lost' = lost \cup {c}
                   /\ UNCHANGED <<life, ready>>
BY JobOf DEF Close, ReadFails, Busy, faults

(* per_worker_task.                                                        *)
LEMMA PopEffect ==
    ASSUME SocketType, NEW w \in Workers, Pop(w)
    PROVE  /\ job[w] = Idle /\ tasks # <<>> /\ tasks' = Tail(tasks) /\ UNCHANGED <<sockets, maps, ub>>
           /\ Head(tasks) \in Conn \cup {"accept"} /\ tasks' \in Seq(Conn \cup {"accept"})
           /\ \A x : In(tasks, x) <=> In(tasks', x) \/ x = Head(tasks)
           /\ \/ Head(tasks) = "accept" /\ job' = [job EXCEPT ![w] = [at |-> "accept"]]
              \/ Head(tasks) \in Conn /\ job' = [job EXCEPT ![w] = [at |-> "read", conn |-> Head(tasks)]]
<1>1. tasks \in Seq(Conn \cup {"accept"}) /\ tasks # <<>>
  BY DEF Pop, SocketType
<1>2. /\ Head(tasks) \in Conn \cup {"accept"} /\ Tail(tasks) \in Seq(Conn \cup {"accept"})
      /\ \A x : In(tasks, x) <=> In(Tail(tasks), x) \/ x = Head(tasks)
  BY <1>1, InTail, Zenon
<1>3. /\ job[w] = Idle /\ tasks' = Tail(tasks) /\ UNCHANGED <<sockets, maps, ub>>
      /\ job' = [job EXCEPT ![w] = IF Head(tasks) = "accept" THEN [at |-> "accept"]
                                   ELSE [at |-> "read", conn |-> Head(tasks)]]
  BY DEF Pop
<1> QED BY <1>1, <1>2, <1>3

-----------------------------------------------------------------------------
LEMMA NextSocketType == SocketType /\ [Next]_vars => SocketType'
<1> SUFFICES ASSUME SocketType, [Next]_vars PROVE SocketType'
  OBVIOUS
<1> USE MqAssumption
<1>0. /\ setup \in Setup
      /\ life \in [Conn -> {"none", "backlog", "live", "deleted"}]
      /\ inbox \in [Conn -> Seq(Nat)] /\ sent \in [Conn -> Nat]
      /\ closed \subseteq Conn /\ reset \subseteq closed /\ lost \subseteq closed /\ ready \subseteq Conn
      /\ tasks \in Seq(Conn \cup {"accept"})
      /\ job \in [Workers -> Job]
      /\ Idle \in Job /\ [at |-> "accept"] \in Job
      /\ \A c \in Conn : [at |-> "read", conn |-> c] \in Job /\ [at |-> "close", conn |-> c] \in Job
      /\ \A c \in Conn, n \in Nat : [at |-> "handle", conn |-> c, n |-> n] \in Job
  BY DEF SocketType, Job, Idle
<1>B. listening' \in BOOLEAN /\ ub' \in BOOLEAN /\ killed' \in BOOLEAN
  <2>1. listening \in BOOLEAN /\ ub \in BOOLEAN /\ killed \in BOOLEAN
    BY DEF SocketType
  <2>2. killed' \in BOOLEAN
    <3>1. killed' = killed \/ killed' \in BOOLEAN
      BY DEF Next, vars, Client, connect, close, Reset, write, Poller, PollAccept,
        PollRecv, Worker, Pop, Accept, AcceptDone, recv_msg, Read, ReadFails, Close, Publish,
        RegisterPublisher, RegisterSubscriber, UnregisterPublisher, UnregisterSubscriber, Race
    <3> QED BY <2>1, <3>1
  <2> QED BY <2>1, <2>2, Zenon DEF Next, vars, sockets, Client, connect, close, Reset, write, Poller, PollAccept,
        PollRecv, Worker, Pop, Accept, AcceptDone, recv_msg, Read, ReadFails, Close, Publish,
        RegisterPublisher, RegisterSubscriber, UnregisterPublisher, UnregisterSubscriber, On, Uses, Race
<1> DEFINE Rest == /\ setup \in Setup
                   /\ life \in [Conn -> {"none", "backlog", "live", "deleted"}]
                   /\ inbox \in [Conn -> Seq(Nat)] /\ sent \in [Conn -> Nat]
                   /\ closed \subseteq Conn /\ reset \subseteq closed /\ lost \subseteq closed
                   /\ ready \subseteq Conn
                   /\ tasks \in Seq(Conn \cup {"accept"})
                   /\ job \in [Workers -> Job]
<1>1. ASSUME NEW c \in Conn, connect(c) \/ close(c) PROVE Rest'
  BY <1>0, <1>1 DEF connect, close, faults
<1>2. ASSUME NEW c \in Conn, write(c) PROVE Rest'
  <2>1. inbox' \in [Conn -> Seq(Nat)]
    <3>1. Append(inbox[c], sent[c] + 1) \in Seq(Nat)
      BY <1>0, InAppend
    <3> QED BY <1>0, <1>2, <3>1 DEF write
  <2> QED BY <1>0, <1>2, <2>1 DEF write, faults
<1>3. ASSUME NEW c \in Conn, Reset(c) PROVE Rest'
  <2>1. inbox' \in [Conn -> Seq(Nat)]
    BY <1>0, <1>3 DEF Reset
  <2> QED BY <1>0, <1>3, <2>1 DEF Reset
<1>4. ASSUME Poller PROVE Rest'
  <2>1. tasks' \in Seq(Conn \cup {"accept"})
    <3>1. \A x \in Conn \cup {"accept"} : Append(tasks, x) \in Seq(Conn \cup {"accept"})
      BY <1>0
    <3>2. \E x \in Conn \cup {"accept"} : tasks' = Append(tasks, x)
      BY <1>4 DEF Poller, PollAccept, PollRecv
    <3> QED BY <3>1, <3>2
  <2>2. /\ UNCHANGED <<setup, life, inbox, sent, closed, reset, lost, job>>
        /\ ready' \subseteq ready
    BY <1>4 DEF Poller, PollAccept, PollRecv, faults
  <2> QED BY <1>0, <2>1, <2>2
<1>5. ASSUME NEW w \in Workers, Pop(w) PROVE Rest'
  BY <1>0, <1>5, PopEffect DEF sockets, faults
<1>6. ASSUME NEW w \in Workers, NEW c \in Conn, Accept(w, c) PROVE Rest'
  BY <1>0, <1>6 DEF Accept, Arrived, faults
<1>7. ASSUME NEW w \in Workers, AcceptDone(w) PROVE Rest'
  BY <1>0, <1>7 DEF AcceptDone, sockets, faults
<1>8. ASSUME NEW w \in Workers, Read(w) PROVE Rest'
  <2>1. PICK c \in Conn :
             /\ UNCHANGED <<setup, life, sent, closed, faults, listening, ready, tasks, maps>>
             /\ \/ /\ inbox[c] # <<>>
                   /\ inbox' = [inbox EXCEPT ![c] = Tail(@)]
                   /\ job' = [job EXCEPT ![w] = [at |-> "handle", conn |-> c, n |-> Head(inbox[c])]]
                \/ /\ inbox' = inbox
                   /\ job' = [job EXCEPT ![w] = [at |-> "close", conn |-> c]]
                \/ /\ inbox' = inbox
                   /\ job' = [job EXCEPT ![w] = Idle]
    BY <1>8, ReadEffect
  <2>2. inbox[c] # <<>> => Head(inbox[c]) \in Nat /\ Tail(inbox[c]) \in Seq(Nat)
    BY <1>0, InTail
  <2>3. inbox' \in [Conn -> Seq(Nat)]
    BY <1>0, <2>1, <2>2
  <2>4. PICK j \in Job : job' = [job EXCEPT ![w] = j]
    BY <1>0, <2>1, <2>2
  <2>5. job' \in [Workers -> Job]
    BY <1>0, <2>4
  <2> QED BY <1>0, <2>1, <2>3, <2>5 DEF faults
<1>9. ASSUME NEW w \in Workers, Close(w) \/ ReadFails(w) PROVE Rest'
  <2>1. PICK c \in Conn :
          /\ job' = [job EXCEPT ![w] = Idle] /\ Busy(w, c)
          /\ UNCHANGED <<setup, inbox, sent, closed, listening, tasks, maps>>
          /\ \/ /\ life' = [life EXCEPT ![c] = "deleted"] /\ ready' = ready \ {c}
                /\ UNCHANGED faults
             \/ /\ c \in reset /\ reset' = reset \ {c} /\ lost' = lost \cup {c}
                /\ UNCHANGED <<life, ready>>
    BY <1>9, LeaveEffect
  <2> QED BY <1>0, <2>1 DEF faults
<1>10. ASSUME NEW w \in Workers, Handlers(w) PROVE Rest'
  <2>1. PICK c \in Conn :
          /\ UNCHANGED <<setup, life, inbox, sent, closed, lost, listening, ready, tasks>>
          /\ reset' \subseteq reset /\ job' = [job EXCEPT ![w] = [at |-> "read", conn |-> c]]
    BY <1>10, HandleEffect
  <2> QED BY <1>0, <2>1
<1>11. ASSUME UNCHANGED vars \/ \E v, w \in Workers : Race(v, w) PROVE Rest'
  <2>1. UNCHANGED <<setup, life, inbox, sent, closed, reset, lost, ready, tasks, job>>
    BY <1>11 DEF vars, Race, sockets, faults
  <2> QED BY <1>0, <2>1
<1> HIDE DEF Rest
<1>12. Rest'
  BY <1>1, <1>2, <1>3, <1>4, <1>5, <1>6, <1>7, <1>8, <1>9, <1>10, <1>11
     DEF Next, Client, Worker, recv_msg, Handlers
<1> QED BY <1>12, <1>B DEF SocketType, Rest

-----------------------------------------------------------------------------
(* A worker gets a message to handle only from read, which returns what    *)
(* the client sent and a reset did not take away.                          *)
LEMMA NextNumbers == MqInv /\ [Next]_vars => Numbers' /\ ResetEmpty'
<1> SUFFICES ASSUME MqInv, [Next]_vars PROVE Numbers' /\ ResetEmpty'
  OBVIOUS
<1>0. SocketType /\ Numbers /\ ResetEmpty
  BY DEF MqInv
<1>T. /\ inbox \in [Conn -> Seq(Nat)] /\ sent \in [Conn -> Nat] /\ job \in [Workers -> Job]
      /\ reset \subseteq Conn /\ reset \subseteq closed
  BY <1>0 DEF SocketType
<1>E. \A x : ~ In(<<>>, x)
  BY DEF In
<1>1. ASSUME NEW c \in Conn, write(c) PROVE Numbers' /\ ResetEmpty'
  <2>1. /\ sent[c] < Len(setup.send[c]) /\ c \notin closed
        /\ sent' = [sent EXCEPT ![c] = sent[c] + 1]
        /\ inbox' = [inbox EXCEPT ![c] = Append(inbox[c], sent[c] + 1)]
        /\ UNCHANGED <<setup, reset, job>>
    BY <1>1 DEF write, faults
  <2>2. \A x : In(inbox'[c], x) <=> In(inbox[c], x) \/ x = sent[c] + 1
    BY <1>T, <2>1, InAppend
  <2>3. \A d \in Conn : /\ d # c => inbox'[d] = inbox[d] /\ sent'[d] = sent[d]
                        /\ sent'[c] = sent[c] + 1
    BY <1>T, <2>1
  <2>4. setup.send \in [Conn -> Seq(Message)]
    BY <1>0 DEF SocketType, Setup
  <2>5. \A d \in Conn : sent'[d] <= Len(setup'.send[d])
    BY <1>0, <1>T, <2>1, <2>3, <2>4 DEF Numbers
  <2>6. \A d \in Conn : \A x \in Nat : In(inbox'[d], x) => x \in 1 .. sent'[d]
    <3> SUFFICES ASSUME NEW d \in Conn, NEW x \in Nat, In(inbox'[d], x) PROVE x \in 1 .. sent'[d]
      OBVIOUS
    <3>1. x \in 1 .. sent[d] \/ (d = c /\ x = sent[c] + 1)
      BY <1>0, <2>2, <2>3 DEF Numbers
    <3> QED BY <1>T, <2>3, <3>1
  <2>7. \A w \in Workers : job'[w].at = "handle" => job'[w].n \in 1 .. sent'[job'[w].conn]
    <3> SUFFICES ASSUME NEW w \in Workers, job[w].at = "handle" PROVE job[w].n \in 1 .. sent'[job[w].conn]
      BY <2>1
    <3>1. job[w].conn \in Conn /\ job[w].n \in 1 .. sent[job[w].conn]
      BY <1>0, JobOf DEF Numbers
    <3> QED BY <1>T, <2>3, <3>1
  <2>8. ResetEmpty'
    BY <1>0, <1>T, <2>1, <2>3 DEF ResetEmpty
  <2> QED BY <2>5, <2>6, <2>7, <2>8 DEF Numbers
<1>2. ASSUME NEW c \in Conn, Reset(c) PROVE Numbers' /\ ResetEmpty'
  <2>1. inbox' = [inbox EXCEPT ![c] = <<>>] /\ UNCHANGED <<setup, sent, job>> /\ reset' = reset \cup {c}
    BY <1>2 DEF Reset
  <2>2. \A d \in Conn : inbox'[d] = IF d = c THEN <<>> ELSE inbox[d]
    BY <1>T, <2>1
  <2> QED BY <1>0, <1>T, <1>E, <2>1, <2>2 DEF Numbers, ResetEmpty
<1>3. ASSUME NEW w \in Workers, Pop(w) \/ AcceptDone(w) \/ Handlers(w) PROVE Numbers' /\ ResetEmpty'
  <2>1. UNCHANGED <<setup, sent, inbox>> /\ reset' \subseteq reset
    BY <1>0, <1>3, PopEffect, HandleEffect DEF AcceptDone, sockets, faults
  <2>2. \A v \in Workers : job'[v] = job[v] \/ job'[v].at # "handle"
    <3>1. CASE Pop(w)
      BY <1>0, <1>T, <3>1, PopEffect
    <3>2. CASE AcceptDone(w)
      BY <1>T, <3>2 DEF AcceptDone, Idle
    <3>3. CASE Handlers(w)
      <4>1. PICK c \in Conn : job' = [job EXCEPT ![w] = [at |-> "read", conn |-> c]]
        BY <1>0, <3>3, HandleEffect
      <4> QED BY <1>T, <4>1
    <3> QED BY <1>3, <3>1, <3>2, <3>3
  <2> QED BY <1>0, <1>T, <2>1, <2>2 DEF Numbers, ResetEmpty
<1>4. ASSUME NEW w \in Workers, Close(w) \/ ReadFails(w) PROVE Numbers' /\ ResetEmpty'
  <2>1. UNCHANGED <<setup, sent, inbox>> /\ reset' \subseteq reset /\ job' = [job EXCEPT ![w] = Idle]
    BY <1>4 DEF Close, ReadFails, faults
  <2> QED BY <1>0, <1>T, <2>1 DEF Numbers, ResetEmpty, Idle
<1>5. ASSUME NEW w \in Workers, Read(w) PROVE Numbers' /\ ResetEmpty'
  <2>1. PICK c \in Conn :
             /\ Busy(w, c) /\ c \notin reset
             /\ UNCHANGED <<setup, life, sent, closed, faults, listening, ready, tasks, maps>>
             /\ \/ /\ inbox[c] # <<>>
                   /\ inbox' = [inbox EXCEPT ![c] = Tail(@)]
                   /\ job' = [job EXCEPT ![w] = [at |-> "handle", conn |-> c, n |-> Head(inbox[c])]]
                \/ /\ inbox' = inbox
                   /\ job' = [job EXCEPT ![w] = [at |-> "close", conn |-> c]]
                \/ /\ inbox' = inbox
                   /\ job' = [job EXCEPT ![w] = Idle]
    BY <1>0, <1>5, ReadEffect
  <2>2. UNCHANGED <<setup, sent, reset>>
    BY <2>1 DEF faults
  <2>3. CASE /\ inbox' = inbox
             /\ \/ job' = [job EXCEPT ![w] = [at |-> "close", conn |-> c]]
                \/ job' = [job EXCEPT ![w] = Idle]
    <3>1. \A v \in Workers : job'[v] = job[v] \/ job'[v].at # "handle"
      BY <1>T, <2>3 DEF Idle
    <3> QED BY <1>0, <1>T, <2>2, <2>3, <3>1 DEF Numbers, ResetEmpty
  <2>4. CASE /\ inbox[c] # <<>>
             /\ inbox' = [inbox EXCEPT ![c] = Tail(@)]
             /\ job' = [job EXCEPT ![w] = [at |-> "handle", conn |-> c, n |-> Head(inbox[c])]]
    <3>1. /\ Head(inbox[c]) \in Nat /\ In(inbox[c], Head(inbox[c]))
          /\ \A x : In(Tail(inbox[c]), x) => In(inbox[c], x)
      BY <1>T, <2>4, InTail
    <3>2. Head(inbox[c]) \in 1 .. sent[c]
      BY <1>0, <3>1 DEF Numbers
    <3>3. \A d \in Conn : /\ d # c => inbox'[d] = inbox[d]
                          /\ inbox'[c] = Tail(inbox[c])
      BY <1>T, <2>4
    <3>4. \A d \in Conn : \A x \in Nat : In(inbox'[d], x) => x \in 1 .. sent'[d]
      BY <1>0, <2>2, <3>1, <3>3 DEF Numbers
    <3>5. ResetEmpty'
      BY <1>0, <1>T, <2>1, <2>2, <3>3 DEF ResetEmpty
    <3>6. \A v \in Workers : job'[v].at = "handle" => job'[v].n \in 1 .. sent'[job'[v].conn]
      BY <1>0, <1>T, <2>2, <2>4, <3>2 DEF Numbers
    <3> QED BY <1>0, <2>2, <3>4, <3>5, <3>6 DEF Numbers
  <2> QED BY <2>1, <2>3, <2>4
<1>6. CASE UNCHANGED <<setup, sent, inbox, reset, job>>
  BY <1>0, <1>6 DEF Numbers, ResetEmpty
<1>7. ASSUME NEW c \in Conn, connect(c) \/ close(c) PROVE UNCHANGED <<setup, sent, inbox, reset, job>>
  BY <1>7 DEF connect, close, faults
<1>8. CASE Poller \/ (\E w \in Workers, c \in Conn : Accept(w, c)) \/ (\E v, w \in Workers : Race(v, w))
           \/ UNCHANGED vars
  <2>1. UNCHANGED <<setup, sent, inbox, reset, job>>
    BY <1>8 DEF Poller, PollAccept, PollRecv, Accept, Race, vars, sockets, faults
  <2> QED BY <1>6, <2>1
<1> QED BY <1>1, <1>2, <1>3, <1>4, <1>5, <1>6, <1>7, <1>8 DEF Next, Client, Worker, recv_msg, Handlers

-----------------------------------------------------------------------------
(* The step of a worker changes nothing for the other workers.             *)
LEMMA OthersBusy ==
    ASSUME SocketType, NEW w \in Workers, NEW j, job' = [job EXCEPT ![w] = j], NEW c
    PROVE  /\ \A v \in Workers : v # w => (Busy(v, c)' <=> Busy(v, c))
           /\ Busy(w, c)' <=> j.at \in {"read", "handle", "close"} /\ j.conn = c
BY DEF SocketType, Busy

LEMMA IdleBusy ==
    ASSUME SocketType, NEW w \in Workers, job' = [job EXCEPT ![w] = Idle], NEW c
    PROVE  \A v \in Workers : Busy(v, c)' <=> v # w /\ Busy(v, c)
BY DEF SocketType, Busy, Idle

(* A step either leaves a connection as it is, or makes it due and has an  *)
(* event for it, or passes it on from the event to the task and from the   *)
(* task to the worker, or ends what was due.                               *)
LEMMA NextSeen ==
    ASSUME MqInv, [Next]_vars, NEW c \in Conn
    PROVE  /\ Due(c)' => Seen(c)'
           /\ Seen(c)' => Accepted(c)'
           /\ Accepted(c) => Accepted(c)'
<1> DEFINE Goal == /\ Due(c)' => Seen(c)'
                   /\ Seen(c)' => Accepted(c)'
                   /\ Accepted(c) => Accepted(c)'
<1> SUFFICES Goal
  OBVIOUS
<1> USE MqAssumption
<1>0. /\ SocketType /\ ResetEmpty
      /\ Due(c) => Seen(c)
      /\ Seen(c) => Accepted(c)
  BY DEF MqInv, Attended, AcceptedOnly
<1>T. /\ life \in [Conn -> {"none", "backlog", "live", "deleted"}]
      /\ inbox \in [Conn -> Seq(Nat)] /\ reset \subseteq closed /\ ready \subseteq Conn
      /\ tasks \in Seq(Conn \cup {"accept"}) /\ job \in [Workers -> Job]
  BY <1>0 DEF SocketType
<1>1. ASSUME NEW d \in Conn, connect(d) PROVE Goal
  <2>1. /\ life[d] = "none" /\ life' = [life EXCEPT ![d] = "backlog"]
        /\ UNCHANGED <<inbox, closed, lost, ready, tasks, job>>
    BY <1>1 DEF connect, faults
  <2>2. (Due(c)' => Due(c)) /\ (Seen(c)' <=> Seen(c)) /\ (Accepted(c) => Accepted(c)')
    BY <1>T, <2>1 DEF Due, Seen, Busy, Accepted
  <2> QED BY <1>0, <2>2
<1>2. ASSUME NEW d \in Conn, write(d) \/ close(d) \/ Reset(d) PROVE Goal
  <2>1. /\ ready' = ready \cup {x \in {d} : life[x] = "live"}
        /\ \A x \in Conn : x # d => inbox'[x] = inbox[x]
        /\ \A x \in Conn : x # d => (x \in closed' <=> x \in closed)
        /\ UNCHANGED <<life, lost, tasks, job>>
    BY <1>2, <1>T DEF write, close, Reset, faults
  <2>2. Seen(c)' <=> Seen(c) \/ (c = d /\ life[c] = "live")
    BY <2>1 DEF Seen, Busy
  <2>3. /\ c # d => (Due(c)' <=> Due(c))
        /\ Due(c)' => life[c] = "live"
        /\ Accepted(c)' <=> Accepted(c)
        /\ life[c] = "live" => Accepted(c)
    BY <2>1 DEF Due, Accepted
  <2> QED BY <1>0, <2>2, <2>3
<1>3. ASSUME Poller PROVE Goal
  <2>1. PICK x \in Conn \cup {"accept"} :
          /\ tasks' = Append(tasks, x)
          /\ x = "accept" => ready' = ready
          /\ x # "accept" => x \in ready /\ ready' = ready \ {x}
    BY <1>3 DEF Poller, PollAccept, PollRecv
  <2>2. UNCHANGED <<life, inbox, closed, lost, job>>
    BY <1>3 DEF Poller, PollAccept, PollRecv, faults
  <2>3. \A y : In(tasks', y) <=> In(tasks, y) \/ y = x
    BY <1>T, <2>1, InAppend
  <2>4. Seen(c)' <=> Seen(c)
    BY <2>1, <2>2, <2>3 DEF Seen, Busy
  <2> QED BY <1>0, <2>2, <2>4 DEF Due, Accepted
<1>4. ASSUME NEW w \in Workers, Pop(w) PROVE Goal
  <2>1. /\ UNCHANGED <<life, inbox, closed, lost, ready>> /\ ~ Busy(w, c)
        /\ \A x : In(tasks, x) <=> In(tasks', x) \/ x = Head(tasks)
    BY <1>0, <1>4, PopEffect DEF sockets, faults, Busy, Idle
  <2>2. PICK j : /\ job' = [job EXCEPT ![w] = j]
                 /\ \/ Head(tasks) = "accept" /\ j = [at |-> "accept"]
                    \/ Head(tasks) \in Conn /\ j = [at |-> "read", conn |-> Head(tasks)]
    BY <1>0, <1>4, PopEffect
  <2>3. /\ \A v \in Workers : v # w => (Busy(v, c)' <=> Busy(v, c))
        /\ Busy(w, c)' <=> j.at \in {"read", "handle", "close"} /\ j.conn = c
    BY <1>0, <2>2, OthersBusy
  <2>4. Busy(w, c)' <=> c = Head(tasks)
    BY <2>2, <2>3
  <2>5. Seen(c)' <=> Seen(c)
    BY <2>1, <2>3, <2>4 DEF Seen
  <2> QED BY <1>0, <2>1, <2>5 DEF Due, Accepted
<1>5. ASSUME NEW w \in Workers, NEW d \in Conn, Accept(w, d) PROVE Goal
  <2>1. /\ life[d] = "backlog" /\ life' = [life EXCEPT ![d] = "live"]
        /\ ready' = ready \cup Arrived(d)
        /\ UNCHANGED <<inbox, closed, lost, tasks, job>>
    BY <1>5 DEF Accept, faults
  <2>2. c = d => (Due(c)' => c \in ready') /\ Accepted(c)'
    BY <1>T, <2>1 DEF Due, Arrived, Accepted
  <2>3. c # d => (Seen(c)' <=> Seen(c)) /\ (Due(c)' <=> Due(c)) /\ (Accepted(c)' <=> Accepted(c))
    BY <1>T, <2>1 DEF Seen, Due, Busy, Arrived, Accepted
  <2> QED BY <1>0, <2>2, <2>3 DEF Seen
<1>6. ASSUME NEW w \in Workers, AcceptDone(w) PROVE Goal
  <2>1. /\ job' = [job EXCEPT ![w] = Idle] /\ ~ Busy(w, c)
        /\ UNCHANGED <<life, inbox, closed, lost, ready, tasks>>
    BY <1>6 DEF AcceptDone, Busy, sockets, faults
  <2>2. \A v \in Workers : Busy(v, c)' <=> Busy(v, c)
    BY <1>0, <2>1, IdleBusy
  <2> QED BY <1>0, <2>1, <2>2 DEF Due, Seen, Accepted
<1>7. ASSUME NEW w \in Workers, Read(w) PROVE Goal
  <2>1. PICK d \in Conn :
             /\ Busy(w, d)
             /\ UNCHANGED <<setup, life, sent, closed, faults, listening, ready, tasks, maps>>
             /\ \/ /\ inbox[d] # <<>>
                   /\ inbox' = [inbox EXCEPT ![d] = Tail(@)]
                   /\ job' = [job EXCEPT ![w] = [at |-> "handle", conn |-> d, n |-> Head(inbox[d])]]
                \/ /\ inbox[d] = <<>> /\ inbox' = inbox /\ d \in closed
                   /\ job' = [job EXCEPT ![w] = [at |-> "close", conn |-> d]]
                \/ /\ inbox[d] = <<>> /\ inbox' = inbox /\ d \notin closed
                   /\ job' = [job EXCEPT ![w] = Idle]
    BY <1>0, <1>7, ReadEffect
  <2>2. PICK j : /\ job' = [job EXCEPT ![w] = j]
                 /\ \/ j.at \in {"handle", "close"} /\ j.conn = d
                    \/ j = Idle /\ inbox'[d] = <<>> /\ d \notin closed
    <3> DEFINE P(j) == /\ job' = [job EXCEPT ![w] = j]
                       /\ \/ j.at \in {"handle", "close"} /\ j.conn = d
                          \/ j = Idle /\ inbox'[d] = <<>> /\ d \notin closed
    <3>1. \/ P([at |-> "handle", conn |-> d, n |-> Head(inbox[d])])
          \/ P([at |-> "close", conn |-> d])
          \/ P(Idle)
      BY <2>1
    <3> QED BY <3>1, Zenon
  <2>3. /\ \A v \in Workers : v # w => (Busy(v, c)' <=> Busy(v, c))
        /\ Busy(w, c)' <=> j.at \in {"read", "handle", "close"} /\ j.conn = c
    BY <1>0, <2>2, OthersBusy
  <2>4. UNCHANGED <<life, closed, lost, ready, tasks>> /\ (c # d => inbox'[c] = inbox[c])
    BY <1>T, <2>1 DEF faults
  <2>5. CASE c # d
    <3>1. ~ Busy(w, c) /\ ~ Busy(w, c)'
      BY <2>1, <2>2, <2>3, <2>5 DEF Busy, Idle
    <3> QED BY <1>0, <2>3, <2>4, <2>5, <3>1 DEF Due, Seen, Accepted
  <2>6. CASE c = d
    <3>1. Seen(c) /\ (Busy(w, c)' \/ ~ Due(c)')
      BY <2>1, <2>2, <2>3, <2>4, <2>6 DEF Seen, Due
    <3> QED BY <1>0, <2>4, <3>1 DEF Seen, Accepted
  <2> QED BY <2>5, <2>6
<1>8. ASSUME NEW w \in Workers, Close(w) \/ ReadFails(w) PROVE Goal
  <2>1. PICK d \in Conn :
             /\ Busy(w, d) /\ job' = [job EXCEPT ![w] = Idle]
             /\ UNCHANGED <<setup, inbox, sent, closed, listening, tasks, maps>>
             /\ \/ /\ life' = [life EXCEPT ![d] = "deleted"] /\ ready' = ready \ {d}
                   /\ UNCHANGED faults
                \/ /\ d \in reset /\ reset' = reset \ {d} /\ lost' = lost \cup {d}
                   /\ UNCHANGED <<life, ready>>
    BY <1>0, <1>8, LeaveEffect
  <2>2. \A v \in Workers : Busy(v, c)' <=> v # w /\ Busy(v, c)
    BY <1>0, <2>1, IdleBusy
  <2>3. CASE c # d
    <3>1. ~ Busy(w, c)
      BY <2>1, <2>3 DEF Busy
    <3>2. UNCHANGED <<inbox, closed, tasks>> /\ life'[c] = life[c] /\ (c \in ready' <=> c \in ready)
          /\ (c \in lost' <=> c \in lost)
      BY <1>T, <2>1, <2>3 DEF faults
    <3> QED BY <1>0, <2>2, <3>1, <3>2 DEF Due, Seen, Accepted
  <2>4. CASE c = d
    <3>1. Accepted(c)
      BY <1>0, <2>1, <2>4 DEF Seen
    <3>2. ~ Due(c)' /\ Accepted(c)'
      BY <1>0, <1>T, <2>1, <2>4, <3>1 DEF Due, Accepted, ResetEmpty
    <3> QED BY <3>2
  <2> QED BY <2>3, <2>4
<1>9. ASSUME NEW w \in Workers, Handlers(w) PROVE Goal
  <2>1. PICK d \in Conn : /\ Busy(w, d)
                          /\ UNCHANGED <<life, inbox, closed, lost, ready, tasks>>
                          /\ job' = [job EXCEPT ![w] = [at |-> "read", conn |-> d]]
    BY <1>0, <1>9, HandleEffect
  <2>2. \A v \in Workers : Busy(v, c)' <=> Busy(v, c)
    BY <1>0, <2>1, OthersBusy DEF Busy
  <2> QED BY <1>0, <2>1, <2>2 DEF Due, Seen, Accepted
<1>10. ASSUME UNCHANGED vars \/ \E v, w \in Workers : Race(v, w) PROVE Goal
  <2>1. UNCHANGED <<life, inbox, closed, lost, ready, tasks, job>>
    BY <1>10 DEF vars, Race, sockets, faults
  <2> QED BY <1>0, <2>1 DEF Due, Seen, Accepted, Busy
<1> HIDE DEF Goal
<1> QED BY <1>1, <1>2, <1>3, <1>4, <1>5, <1>6, <1>7, <1>8, <1>9, <1>10
        DEF Next, Client, Worker, recv_msg, Handlers

-----------------------------------------------------------------------------
(* The maps: their types, the names in fd_addrs, and Asked.                *)
MapInv == MapType /\ (\A a \in fd_addrs : Known(a)) /\ Asked

(* The connection of a worker in recv_msg, its name, and its message.      *)
LEMMA Sender ==
    ASSUME MqInv, NEW w \in Workers, job[w].at = "handle"
    PROVE  /\ job[w].conn \in Conn /\ addr(job[w].conn) \in IP /\ Known(addr(job[w].conn))
           /\ <<job[w].conn, job[w].n>> \in Id
           /\ Msg(w) \in Message /\ Msg(w).name \in IP
<1> DEFINE c == job[w].conn
<1>1. SocketType /\ Numbers /\ AcceptedOnly
  BY DEF MqInv
<1>2. c \in Conn /\ job[w].n \in Nat
  BY <1>1, JobOf
<1>3. ip[c] \in IP /\ Accepted(c)
  BY <1>1, <1>2, MqAssumption DEF AcceptedOnly, Seen, Busy
<1>4. setup.send \in [Conn -> Seq(Message)] /\ sent[c] \in Nat
  BY <1>1, <1>2 DEF SocketType, Setup
<1>5. job[w].n \in 1 .. Len(setup.send[c])
  BY <1>1, <1>2, <1>4 DEF Numbers
<1>6. Msg(w) \in Message
  BY <1>2, <1>4, <1>5 DEF Msg
<1> QED BY <1>2, <1>3, <1>6 DEF addr, Known, Id, Message

(* relations.insert or the change of an entry.                             *)
LEMMA WithEffect ==
    ASSUME MapType, NEW a \in IP, NEW subs \in Seq(IP), relations' = With(a, subs)
    PROVE  /\ DOMAIN relations' = DOMAIN relations \cup {a}
           /\ relations'[a] = subs
           /\ \A p \in DOMAIN relations : p # a => relations'[p] = relations[p]
           /\ DOMAIN relations' \subseteq IP
           /\ \A p \in DOMAIN relations' : relations'[p] \in Seq(IP)
BY DEF With, MapType

LEMMA SubsEffect ==
    ASSUME MapType, NEW a \in IP
    PROVE  /\ Subs(a) \in Seq(IP)
           /\ \A s : In(Subs(a), s) => a \in DOMAIN relations /\ In(relations[a], s)
BY DEF Subs, MapType, In

(* A message that found a subscriber away is kept for it, and for nobody   *)
(* else.                                                                   *)
Missed(subs, a) == Cardinality({k \in DOMAIN subs : subs[k] = a /\ a \notin fd_addrs})
Kept(old, subs, a, id) == old \o [k \in 1 .. Missed(subs, a) |-> id]
LEMMA KeptFor ==
    ASSUME NEW subs \in Seq(IP), NEW a \in IP, NEW id \in Id, NEW old \in Seq(Id), NEW new,
           new = Kept(old, subs, a, id)
    PROVE  /\ new \in Seq(Id)
           /\ \A x : In(new, x) => In(old, x) \/ (x = id /\ In(subs, a))
<1> DEFINE M == {k \in DOMAIN subs : subs[k] = a /\ a \notin fd_addrs}
           n == Cardinality(M)
           more == [k \in 1 .. n |-> id]
<1>0. new = old \o more
  BY DEF Kept, Missed
<1>1. IsFiniteSet(M) /\ n \in Nat
  <2>1. DOMAIN subs = 1 .. Len(subs) /\ Len(subs) \in Nat
    OBVIOUS
  <2>2. IsFiniteSet(1 .. Len(subs))
    BY <2>1, FS_Interval
  <2>3. M \subseteq 1 .. Len(subs)
    BY <2>1
  <2>4. IsFiniteSet(M)
    BY <2>2, <2>3, FS_Subset, Zenon
  <2> QED BY <2>4, FS_CardinalityType
<1>2. ~ In(subs, a) => n = 0
  <2> SUFFICES ASSUME ~ In(subs, a) PROVE n = 0
    OBVIOUS
  <2>1. M = {}
    BY DEF In
  <2> QED BY <2>1, FS_EmptySet, Zenon
<1> HIDE DEF n
<1>3. more \in Seq(Id) /\ \A i \in DOMAIN more : more[i] = id /\ n # 0
  BY <1>1
<1> HIDE DEF more
<1>4. new \in Seq(Id) /\ \A x : In(new, x) => In(old, x) \/ In(more, x)
  BY <1>0, <1>3, InConcat
<1>5. \A x : In(more, x) => x = id /\ In(subs, a)
  BY <1>2, <1>3 DEF In
<1>6. \A x : In(new, x) => In(old, x) \/ (x = id /\ In(subs, a))
  BY <1>4, <1>5
<1> QED BY <1>4, <1>6

(* A handler writes a name into the maps only if the connection that sent  *)
(* it was accepted, and puts an address on a list only for who asked.      *)
LEMMA NextMapInv == MqInv /\ [Next]_vars => MapInv'
<1> SUFFICES ASSUME MqInv, [Next]_vars PROVE MapInv'
  OBVIOUS
<1> USE MqAssumption
<1>0. MapType /\ AcceptedOnly /\ Asked /\ SocketType
  BY DEF MqInv
<1>T. /\ fd_addrs \subseteq IP /\ DOMAIN relations \subseteq IP
      /\ \A p \in DOMAIN relations : relations[p] \in Seq(IP)
      /\ cached_msg \in [IP -> Seq(Id)]
      /\ \A a \in fd_addrs : Known(a)
      /\ \A p \in DOMAIN relations : \A s \in IP : In(relations[p], s) => <<s, p>> \in subscribed /\ Known(p)
      /\ \A s \in IP : \A id \in Id : In(cached_msg[s], id) => <<s, ip[id[1]]>> \in subscribed
  BY <1>0 DEF MapType, AcceptedOnly, Asked
<1>K. ASSUME NEW a, Known(a) PROVE Known(a)'
  BY <1>K, NextSeen DEF Known
<1>U. ASSUME UNCHANGED <<relations, cached_msg, subscribed>>, fd_addrs' \subseteq IP,
             \A a \in fd_addrs' : Known(a)'
      PROVE  MapInv'
  BY <1>T, <1>K, <1>U DEF MapInv, MapType, Asked
<1>1. ASSUME NEW w \in Workers, NEW c \in Conn, Accept(w, c) PROVE MapInv'
  <2>1. UNCHANGED <<relations, cached_msg, subscribed>> /\ fd_addrs' = fd_addrs \cup {ip[c]}
    BY <1>1 DEF Accept, addr
  <2>2. Known(ip[c])'
    BY <1>0, <1>1 DEF Accept, SocketType, Known, Accepted
  <2> QED BY <1>T, <1>K, <1>U, <2>1, <2>2
<1>2. ASSUME NEW w \in Workers, Publish(w) PROVE MapInv'
  <2>1. PICK c, a, id : c = job[w].conn /\ a = addr(c) /\ id = <<c, job[w].n>>
    OBVIOUS
  <2>2. /\ c \in Conn /\ a \in IP /\ id \in Id /\ ip[id[1]] = a
    BY <1>2, <2>1, Sender DEF Publish, On, addr, Id
  <2>3. /\ relations' = With(a, Subs(a)) /\ UNCHANGED <<fd_addrs, subscribed>>
        /\ cached_msg' = [s \in IP |-> Kept(cached_msg[s], Subs(a), s, id)]
    BY <1>2, <2>1 DEF Publish, Kept, Missed
  <2>4. /\ Subs(a) \in Seq(IP)
        /\ \A s : In(Subs(a), s) => a \in DOMAIN relations /\ In(relations[a], s)
    BY <1>0, <2>2, SubsEffect
  <2>5. /\ DOMAIN relations' = DOMAIN relations \cup {a}
        /\ relations'[a] = Subs(a)
        /\ \A p \in DOMAIN relations : p # a => relations'[p] = relations[p]
        /\ DOMAIN relations' \subseteq IP
        /\ \A p \in DOMAIN relations' : relations'[p] \in Seq(IP)
    <3>1. relations' = With(a, Subs(a)) /\ MapType /\ a \in IP /\ Subs(a) \in Seq(IP)
      BY <1>0, <2>2, <2>3, <2>4
    <3> QED BY <3>1, WithEffect
  <2>6. ASSUME NEW s \in IP
        PROVE  /\ cached_msg'[s] \in Seq(Id)
               /\ \A x : In(cached_msg'[s], x) => In(cached_msg[s], x) \/ (x = id /\ In(Subs(a), s))
    <3>1. cached_msg[s] \in Seq(Id)
      BY <1>T
    <3>2. cached_msg'[s] = Kept(cached_msg[s], Subs(a), s, id)
      BY <2>3
    <3>3. Subs(a) \in Seq(IP) /\ id \in Id
      BY <2>2, <2>4
    <3> QED BY <3>1, <3>2, <3>3, KeptFor
  <2>7. MapType'
    <3>1. cached_msg' \in [IP -> Seq(Id)]
      BY <2>3, <2>6
    <3> QED BY <1>T, <2>3, <2>5, <3>1 DEF MapType
  <2>8. Asked'
    <3>1. ASSUME NEW p \in DOMAIN relations', NEW s \in IP, In(relations'[p], s)
          PROVE  <<s, p>> \in subscribed /\ Known(p)'
      <4>1. p \in DOMAIN relations /\ In(relations[p], s)
        BY <2>4, <2>5, <3>1
      <4> QED BY <1>T, <1>K, <4>1
    <3>2. ASSUME NEW s \in IP, NEW x \in Id, In(cached_msg'[s], x)
          PROVE  <<s, ip[x[1]]>> \in subscribed
      <4>1. CASE In(cached_msg[s], x)
        BY <1>T, <4>1
      <4>2. CASE x = id /\ In(Subs(a), s)
        BY <1>T, <2>2, <2>4, <4>2
      <4> QED BY <2>6, <3>2, <4>1, <4>2
    <3> QED BY <2>3, <3>1, <3>2 DEF Asked
  <2> QED BY <1>T, <1>K, <2>3, <2>7, <2>8 DEF MapInv
<1>3. ASSUME NEW w \in Workers, RegisterPublisher(w) PROVE MapInv'
  <2>1. /\ UNCHANGED <<relations, cached_msg, subscribed>> /\ fd_addrs' = fd_addrs \cup {addr(job[w].conn)}
        /\ job[w].at = "handle"
    BY <1>3 DEF RegisterPublisher, On
  <2>2. addr(job[w].conn) \in IP /\ Known(addr(job[w].conn))
    BY <2>1, Sender
  <2> QED BY <1>T, <1>K, <1>U, <2>1, <2>2
<1>4. ASSUME NEW w \in Workers, RegisterSubscriber(w) PROVE MapInv'
  <2>1. PICK a, p : a = addr(job[w].conn) /\ p = Msg(w).name
    OBVIOUS
  <2>2. a \in IP /\ p \in IP /\ Known(a)
    BY <1>4, <2>1, Sender DEF RegisterSubscriber, On
  <2>3. /\ fd_addrs' = fd_addrs \cup {a} /\ subscribed' = subscribed \cup {<<a, p>>}
        /\ relations' = IF KnownName(p, a) THEN With(p, Append(Subs(p), a)) ELSE relations
        /\ UNCHANGED cached_msg
    BY <1>4, <2>1 DEF RegisterSubscriber
  <2>4. \A x \in fd_addrs' : Known(x)'
    BY <1>T, <1>K, <2>2, <2>3
  <2>5. CASE ~ KnownName(p, a)
    BY <1>T, <1>K, <2>2, <2>3, <2>4, <2>5 DEF MapInv, MapType, Asked
  <2>6. CASE KnownName(p, a)
    <3> DEFINE l == Append(Subs(p), a)
    <3>1. /\ l \in Seq(IP)
          /\ \A s : In(l, s) => (p \in DOMAIN relations /\ In(relations[p], s)) \/ s = a
      BY <1>0, <2>2, SubsEffect, InAppend
    <3> HIDE DEF l
    <3>2. relations' = With(p, l)
      BY <2>3, <2>6 DEF l
    <3>3. /\ DOMAIN relations' = DOMAIN relations \cup {p}
          /\ relations'[p] = l
          /\ \A q \in DOMAIN relations : q # p => relations'[q] = relations[q]
          /\ DOMAIN relations' \subseteq IP
          /\ \A q \in DOMAIN relations' : relations'[q] \in Seq(IP)
      BY <1>0, <2>2, <3>1, <3>2, WithEffect
    <3>4. Known(p)'
      BY <1>T, <1>K, <2>2, <2>6 DEF KnownName
    <3>5. ASSUME NEW q \in DOMAIN relations', NEW s \in IP, In(relations'[q], s)
          PROVE  <<s, q>> \in subscribed' /\ Known(q)'
      <4>1. CASE q = p
        BY <1>T, <2>3, <3>1, <3>3, <3>4, <3>5, <4>1
      <4>2. CASE q # p
        BY <1>T, <1>K, <2>3, <3>3, <3>5, <4>2
      <4> QED BY <4>1, <4>2
    <3>6. MapType'
      BY <1>T, <2>2, <2>3, <3>3 DEF MapType
    <3>7. Asked'
      BY <1>T, <2>3, <3>5 DEF Asked
    <3> QED BY <2>4, <3>6, <3>7 DEF MapInv
  <2> QED BY <2>5, <2>6
<1>5. ASSUME NEW w \in Workers, UnregisterPublisher(w) PROVE MapInv'
  <2>1. PICK a : a = addr(job[w].conn)
    OBVIOUS
  <2>2. /\ fd_addrs' = fd_addrs \ {a} /\ UNCHANGED <<cached_msg, subscribed>>
        /\ relations' = [k \in DOMAIN relations \ {a} |-> relations[k]]
    BY <1>5, <2>1 DEF UnregisterPublisher
  <2>3. /\ DOMAIN relations' \subseteq DOMAIN relations
        /\ \A k \in DOMAIN relations' : relations'[k] = relations[k]
    BY <2>2
  <2> QED BY <1>T, <1>K, <2>2, <2>3 DEF MapInv, MapType, Asked
<1>6. ASSUME UNCHANGED maps PROVE MapInv'
  BY <1>T, <1>K, <1>U, <1>6 DEF maps
<1>7. ASSUME NEW w \in Workers,
             Pop(w) \/ AcceptDone(w) \/ Read(w) \/ ReadFails(w) \/ Close(w) \/ UnregisterSubscriber(w)
      PROVE  UNCHANGED maps
  BY <1>7 DEF Pop, AcceptDone, Read, ReadFails, Close, UnregisterSubscriber, maps
<1>8. ASSUME NEW c \in Conn, Client(c) PROVE UNCHANGED maps
  BY <1>8 DEF Client, connect, write, close, Reset, maps
<1>9. ASSUME Poller \/ (\E v, w \in Workers : Race(v, w)) \/ UNCHANGED vars PROVE UNCHANGED maps
  BY <1>9 DEF Poller, PollAccept, PollRecv, Race, vars, maps
<1> QED BY <1>1, <1>2, <1>3, <1>4, <1>5, <1>6, <1>7, <1>8, <1>9 DEF Next, Worker, recv_msg

LEMMA InitMqInv == Init => MqInv
<1> SUFFICES ASSUME Init PROVE MqInv
  OBVIOUS
<1> USE MqAssumption
<1>1. SocketType
  <2>1. listening \in BOOLEAN /\ ub \in BOOLEAN
    BY Zenon DEF Init
  <2>2. setup \in Setup
    BY DEF Init
  <2>3. inbox \in [Conn -> Seq(Nat)] /\ tasks \in Seq(Conn \cup {"accept"})
    BY DEF Init
  <2>4. job \in [Workers -> Job]
    BY DEF Init, Idle, Job
  <2> QED BY <2>1, <2>2, <2>3, <2>4 DEF Init, SocketType
<1>2. Numbers
  <2>1. setup.send \in [Conn -> Seq(Message)]
    BY <1>1 DEF SocketType, Setup
  <2> QED BY <2>1 DEF Init, Numbers, In, Idle
<1>3. MapType /\ Asked
  <2>1. DOMAIN relations = {} /\ cached_msg \in [IP -> Seq(Id)] /\ \A s \in IP : cached_msg[s] = <<>>
    BY DEF Init
  <2> QED BY <2>1 DEF Init, MapType, Asked, In
<1>4. ResetEmpty /\ Attended /\ AcceptedOnly
  BY DEF Init, ResetEmpty, Attended, Due, AcceptedOnly, Seen, Busy, Idle, In
<1> QED BY <1>1, <1>2, <1>3, <1>4 DEF MqInv

LEMMA NextMqInv == MqInv /\ [Next]_vars => MqInv'
<1> SUFFICES ASSUME MqInv, [Next]_vars PROVE MqInv'
  OBVIOUS
<1>1. SocketType' /\ Numbers' /\ ResetEmpty'
  BY NextSocketType, NextNumbers DEF MqInv
<1>2. Attended' /\ \A c \in Conn : Seen(c)' => Accepted(c)'
  BY NextSeen DEF Attended
<1> QED BY <1>1, <1>2, NextMapInv DEF MqInv, MapInv, AcceptedOnly

-----------------------------------------------------------------------------
(* A worker in recv_msg handles a message that its client has sent, and    *)
(* the maps hold addresses, whatever the clients send.                     *)
THEOREM MqTypeCorrect == Spec => []TypeOK
<1>1. MqInv => TypeOK
  <2> SUFFICES ASSUME MqInv PROVE TypeOK
    OBVIOUS
  <2>0. SocketType /\ Numbers /\ MapType
    BY DEF MqInv
  <2>1. ASSUME NEW c \in Conn PROVE sent[c] \in 0 .. Len(setup.send[c]) /\ ToSet(inbox[c]) \subseteq 1 .. sent[c]
    <3>1. setup.send \in [Conn -> Seq(Message)] /\ sent[c] \in Nat /\ inbox[c] \in Seq(Nat)
      BY <2>0 DEF SocketType, Setup
    <3>2. sent[c] \in 0 .. Len(setup.send[c])
      BY <2>0, <3>1 DEF Numbers
    <3>3. ToSet(inbox[c]) \subseteq 1 .. sent[c]
      BY <2>0, <3>1 DEF Numbers, ToSet, In
    <3> QED BY <3>2, <3>3
  <2>2. ASSUME NEW w \in Workers, job[w] # Idle
        PROVE  \/ job[w].at = "accept"
               \/ job[w].at \in {"read", "close"} /\ job[w].conn \in Conn
               \/ job[w].at = "handle" /\ job[w].n \in 1 .. sent[job[w].conn]
    <3>1. job[w] \in Job
      BY <2>0 DEF SocketType
    <3> QED BY <2>0, <2>2, <3>1 DEF Job, Idle, Numbers
  <2>3. {listening, ub} \subseteq BOOLEAN
    BY <2>0 DEF SocketType
  <2> QED BY <2>0, <2>1, <2>2, <2>3 DEF TypeOK, SocketType, MapType
<1> QED BY <1>1, InitMqInv, NextMqInv, PTL DEF Spec

(* Edge-triggered events and workers that leave on EAGAIN never strand a   *)
(* message or the end of a stream in a socket, however many workers are in *)
(* recv_msg for one connection.                                            *)
THEOREM MqNothingForgotten == Spec => []NothingForgotten
<1>1. MqInv => NothingForgotten
  <2> SUFFICES ASSUME MqInv, NEW c \in Conn, Due(c)
               PROVE  c \in ready \/ c \in ToSet(tasks) \/ \E w \in Workers : Busy(w, c)
    BY DEF NothingForgotten, Due, Busy
  <2>1. Seen(c)
    BY DEF MqInv, Attended
  <2>2. In(tasks, c) => c \in ToSet(tasks)
    BY DEF In, ToSet
  <2> QED BY <2>1, <2>2 DEF Seen
<1> QED BY <1>1, InitMqInv, NextMqInv, PTL DEF Spec

(* In whatever order the workers handle registrations, publications and    *)
(* unregistrations, nobody is on a list that it did not ask to be on, no   *)
(* list has a name that no connection had, and no message is kept for an   *)
(* address that did not ask for its publisher.                             *)
THEOREM MqRelationsSound == Spec => []RelationsSound
<1>1. MqInv => RelationsSound
  <2> SUFFICES ASSUME MqInv PROVE RelationsSound
    OBVIOUS
  <2>0. MapType /\ Asked
    BY DEF MqInv
  <2>1. ASSUME NEW p \in DOMAIN relations, NEW s \in ToSet(relations[p])
        PROVE  /\ <<s, p>> \in subscribed
               /\ \E c \in Conn : ip[c] = p /\ life[c] \in {"live", "deleted"}
    <3>1. s \in IP /\ In(relations[p], s)
      BY <2>0, <2>1 DEF MapType, ToSet, In
    <3> QED BY <2>0, <2>1, <3>1 DEF Asked, Known, Accepted
  <2>2. ASSUME NEW s \in IP, NEW id \in ToSet(cached_msg[s]) PROVE <<s, ip[id[1]]>> \in subscribed
    <3>1. id \in Id /\ In(cached_msg[s], id)
      BY <2>0, <2>2 DEF MapType, ToSet, In
    <3> QED BY <2>0, <3>1 DEF Asked
  <2> QED BY <2>1, <2>2 DEF RelationsSound
<1> QED BY <1>1, InitMqInv, NextMqInv, PTL DEF Spec
=============================================================================
