------------------------------ MODULE MqServer ------------------------------
(***************************************************************************)
(* The message queue server (message_queue_server.cpp) and the calls of    *)
(* its clients (message_queue_client.cpp).  The poller turns epoll events  *)
(* into tasks accept_conn and recv_msg of a worker pool.                   *)
(*                                                                         *)
(* Sockets are registered with EPOLLET and without EPOLLONESHOT: every     *)
(* arrival is an event, every event a task, and several workers may be in  *)
(* recv_msg for one connection.  Nothing keeps them apart, nor the workers *)
(* of different connections, which share fd_addrs, relations, cached_msg   *)
(* and publishers.  Two of them at work on these at the same time, the use *)
(* of a deleted mq_conn, and erase(end()), are undefined: any of them may  *)
(* set ub, with which the behaviour ends.  It also ends with the SIGPIPE   *)
(* of a write to a client that has gone, which nothing ignores (killed).   *)
(*                                                                         *)
(* A client is known by its IP address alone (convert_addr_in_to_str), so  *)
(* connections of one host share a name.  The fds in fd_addrs are never    *)
(* used: only whether an address is in it matters.  publishers is written  *)
(* and never read, and is left out, and so is what the server writes.      *)
(* What the bytes of a message do on their way is MqWire.tla's; here a     *)
(* read returns one message, intact, and tq always has room for one more   *)
(* (WorkerPool.tla has it full).                                           *)
(***************************************************************************)
EXTENDS Naturals, Sequences, FiniteSets, SequencesExt

CONSTANTS
    Conn, IP, ip,     \* the connections, the addresses, ip[c] the address of c
    Workers,
    Setups            \* what the behaviours of the model start from, see below

(* The first byte of a message, and for a 0x4 the publisher it names. *)
Type == {"0x1", "0x2", "0x4", "0x8", "0x16"}
Message == [type : Type, name : IP]

(* What each connection sends, which of them may be reset, and the threads *)
(* that wp is created with.                                                *)
Setup == [send : [Conn -> Seq(Message)], resets : SUBSET Conn, threads : SUBSET Workers]

ASSUME MqAssumption ==
    /\ ip \in [Conn -> IP] /\ "accept" \notin Conn
    /\ \A s \in Setups : s \in Setup

VARIABLES
    setup,       \* what this behaviour started from
    life,        \* life[c]: "none", "backlog", "live" or "deleted"
    inbox,       \* inbox[c]: what c has sent and the server has not read
    sent,        \* sent[c]: how many of its messages c has sent
    closed,      \* the connections whose client has closed
    reset,       \* those that were reset, until a call has returned the error
    lost,        \* history: those on which a read has failed
    listening,   \* an event of listenfd is due
    ready,       \* the connections with an event due
    tasks,       \* tq: "accept", or the connection of a recv_msg
    job,         \* job[w]: what worker w is doing
    fd_addrs, relations, cached_msg,
    subscribed,  \* history: <<s, p>> for each 0x4 of s for p that was handled
    ub, killed   \* the two ends, see above

faults == <<reset, lost>>
sockets == <<setup, life, inbox, sent, closed, faults, listening, ready>>
maps == <<fd_addrs, relations, cached_msg, subscribed>>
vars == <<sockets, tasks, job, maps, ub, killed>>

Idle == [at |-> "idle"]

(* mc->addr, from convert_addr_in_to_str: the address without the port.    *)
addr(c) == ip[c]

-----------------------------------------------------------------------------
(* The constructor, init_mq, and poller up to its loop.  relations is a    *)
(* std::map: its domain is the keys that were inserted.                    *)
Init ==
    /\ setup \in Setups
    /\ life = [c \in Conn |-> "none"]
    /\ inbox = [c \in Conn |-> <<>>]
    /\ sent = [c \in Conn |-> 0]
    /\ closed = {} /\ reset = {} /\ lost = {} /\ listening = FALSE /\ ready = {}
    /\ tasks = <<>>
    /\ job = [w \in Workers |-> Idle]
    /\ fd_addrs = {} /\ relations = <<>> /\ cached_msg = [a \in IP |-> <<>>]
    /\ subscribed = {}
    /\ ub = FALSE /\ killed = FALSE

(* mq_client::connect; register_mq, unregister_mq and send, each one write *)
(* to the socket; and the end of the client, or of the connection, with    *)
(* which what was not read is lost.                                        *)
connect(c) ==
    /\ life[c] = "none"
    /\ life' = [life EXCEPT ![c] = "backlog"]
    /\ listening' = TRUE
    /\ UNCHANGED <<setup, inbox, sent, closed, faults, ready, tasks, job, maps, ub, killed>>
write(c) ==
    /\ life[c] \in {"backlog", "live"} /\ c \notin closed /\ sent[c] < Len(setup.send[c])
    /\ sent' = [sent EXCEPT ![c] = @ + 1]
    /\ inbox' = [inbox EXCEPT ![c] = Append(@, sent[c] + 1)]
    /\ ready' = ready \cup {d \in {c} : life[d] = "live"}
    /\ UNCHANGED <<setup, life, closed, faults, listening, tasks, job, maps, ub, killed>>
close(c) ==
    /\ life[c] \in {"backlog", "live"} /\ c \notin closed
    /\ closed' = closed \cup {c}
    /\ ready' = ready \cup {d \in {c} : life[d] = "live"}
    /\ UNCHANGED <<setup, life, inbox, sent, faults, listening, tasks, job, maps, ub, killed>>
Reset(c) ==
    /\ c \in setup.resets /\ life[c] \in {"backlog", "live"} /\ c \notin closed
    /\ closed' = closed \cup {c} /\ reset' = reset \cup {c}
    /\ inbox' = [inbox EXCEPT ![c] = <<>>]
    /\ ready' = ready \cup {d \in {c} : life[d] = "live"}
    /\ UNCHANGED <<setup, life, sent, lost, listening, tasks, job, maps, ub, killed>>

(* poller: an event becomes a task. *)
PollAccept ==
    /\ listening
    /\ listening' = FALSE
    /\ tasks' = Append(tasks, "accept")
    /\ UNCHANGED <<setup, life, inbox, sent, closed, faults, ready, job, maps, ub, killed>>
PollRecv(c) ==
    /\ c \in ready
    /\ ready' = ready \ {c}
    /\ tasks' = Append(tasks, c)
    /\ UNCHANGED <<setup, life, inbox, sent, closed, faults, listening, job, maps, ub, killed>>

(* per_worker_task *)
Pop(w) ==
    /\ w \in setup.threads /\ job[w] = Idle /\ tasks # <<>>
    /\ job' = [job EXCEPT ![w] = IF Head(tasks) = "accept" THEN [at |-> "accept"]
                                 ELSE [at |-> "read", conn |-> Head(tasks)]]
    /\ tasks' = Tail(tasks)
    /\ UNCHANGED <<sockets, maps, ub, killed>>

(* accept_conn: one accept after another, until one fails: there is none   *)
(* (EAGAIN), or another error with some still waiting (no descriptor is    *)
(* left, a signal, the client has gone).  The events of listenfd are edge- *)
(* triggered, so those wait for the next client.  epoll_ctl reports at     *)
(* once what had already arrived.                                          *)
Arrived(c) == {d \in {c} : inbox[d] # <<>> \/ d \in closed}
Accept(w, c) ==
    /\ job[w].at = "accept" /\ life[c] = "backlog"
    /\ life' = [life EXCEPT ![c] = "live"]
    /\ ready' = ready \cup Arrived(c)
    /\ fd_addrs' = fd_addrs \cup {addr(c)}
    /\ UNCHANGED <<setup, inbox, sent, closed, faults, listening, tasks, job, relations,
                   cached_msg, subscribed, ub, killed>>
AcceptDone(w) ==
    /\ job[w].at = "accept"
    /\ job' = [job EXCEPT ![w] = Idle]
    /\ UNCHANGED <<sockets, tasks, maps, ub, killed>>

-----------------------------------------------------------------------------
(* recv_msg: the head of its loop.  A message, or none: the end of the     *)
(* stream, or EAGAIN.  The mutant takes 0 for -1.                          *)
Handle(w, n) == [at |-> "handle", conn |-> job[w].conn, n |-> n]
AlwaysEagain(w) == Idle
NothingRead(w) == IF job[w].conn \in closed THEN [at |-> "close", conn |-> job[w].conn] ELSE Idle
Read(w) ==
    /\ job[w].at = "read" /\ job[w].conn \notin reset
    /\ ub' = (life[job[w].conn] = "deleted")
    /\ LET c == job[w].conn
       IN  IF inbox[c] # <<>>
           THEN /\ inbox' = [inbox EXCEPT ![c] = Tail(@)]
                /\ job' = [job EXCEPT ![w] = Handle(w, Head(inbox[c]))]
           ELSE /\ job' = [job EXCEPT ![w] = NothingRead(w)]
                /\ UNCHANGED inbox
    /\ UNCHANGED <<setup, life, sent, closed, faults, listening, ready, tasks, maps, killed>>

(* read returns -1 with another errno: recv_msg returns, as on EAGAIN. *)
ReadFails(w) ==
    /\ job[w].at = "read" /\ job[w].conn \in reset
    /\ ub' = (life[job[w].conn] = "deleted")
    /\ reset' = reset \ {job[w].conn} /\ lost' = lost \cup {job[w].conn}
    /\ job' = [job EXCEPT ![w] = Idle]
    /\ UNCHANGED <<setup, life, inbox, sent, closed, listening, ready, tasks, maps, killed>>

(* EPOLL_CTL_DEL, close and delete mc.  No entry of the maps goes. *)
Close(w) ==
    /\ job[w].at = "close"
    /\ ub' = (life[job[w].conn] = "deleted")
    /\ life' = [life EXCEPT ![job[w].conn] = "deleted"]
    /\ ready' = ready \ {job[w].conn}
    /\ job' = [job EXCEPT ![w] = Idle]
    /\ UNCHANGED <<setup, inbox, sent, closed, faults, listening, tasks, maps, killed>>

(* The switch over the type of the message.  A handler goes on to read;    *)
(* the mutant returns when it has handled one message.                     *)
ReturnAfterOne(w) == Idle
Continue(w) == [at |-> "read", conn |-> job[w].conn]
Msg(w) == setup.send[job[w].conn][job[w].n]
On(w, type) ==
    /\ job[w].at = "handle" /\ Msg(w).type = type
    /\ job' = [job EXCEPT ![w] = Continue(w)]
    /\ UNCHANGED <<setup, life, inbox, sent, closed, lost, listening, ready, tasks>>
Uses(w) == life[job[w].conn] = "deleted"
Subs(a) == IF a \in DOMAIN relations THEN relations[a] ELSE <<>>
With(a, subs) == [k \in DOMAIN relations \cup {a} |-> IF k = a THEN subs ELSE relations[k]]

(* 0x1, with a correct checksum.  For a subscriber who is known, the       *)
(* messages in its cache and then the new one are written, to mc->fd, the  *)
(* publisher's.  If that client has gone, a write may raise SIGPIPE; after *)
(* a reset the first only returns the error.                               *)
Publish(w) ==
    /\ On(w, "0x1")
    /\ LET c == job[w].conn
           subs == Subs(addr(c))
           id == <<c, job[w].n>>
           Out(a) == IF a \in fd_addrs THEN Append(cached_msg[a], id) ELSE <<>>
           written == Len(FlattenSeq([k \in DOMAIN subs |-> Out(subs[k])]))
           misses(a) == Cardinality({k \in DOMAIN subs : subs[k] = a /\ a \notin fd_addrs})
       IN  /\ relations' = With(addr(c), subs)
           /\ reset' = {d \in reset : d # c \/ written = 0}
           /\ killed' \in BOOLEAN
           /\ killed' => c \in closed /\ written > (IF c \in reset THEN 1 ELSE 0)
           /\ cached_msg' = [a \in IP |-> cached_msg[a] \o [k \in 1 .. misses(a) |-> id]]
    /\ ub' = Uses(w)
    /\ UNCHANGED <<fd_addrs, subscribed>>

(* 0x2: a publisher registers. *)
RegisterPublisher(w) ==
    /\ On(w, "0x2")
    /\ fd_addrs' = fd_addrs \cup {addr(job[w].conn)}
    /\ ub' = Uses(w)
    /\ UNCHANGED <<relations, cached_msg, subscribed, reset, killed>>

(* 0x4: a subscriber registers with the publisher it names, if the server  *)
(* has that name.  The mutant does not look.                               *)
AnyName(name, a) == TRUE
KnownName(name, a) == name \in fd_addrs \cup {a}
RegisterSubscriber(w) ==
    /\ On(w, "0x4")
    /\ LET a == addr(job[w].conn)
           p == Msg(w).name
       IN  /\ fd_addrs' = fd_addrs \cup {a}
           /\ relations' = IF KnownName(p, a) THEN With(p, Append(Subs(p), a)) ELSE relations
           /\ subscribed' = subscribed \cup {<<a, p>>}
    /\ ub' = Uses(w)
    /\ UNCHANGED <<cached_msg, reset, killed>>

(* 0x8: both entries of the sender's address are erased.  erase(end()) is  *)
(* undefined.                                                              *)
UnregisterPublisher(w) ==
    /\ On(w, "0x8")
    /\ LET a == addr(job[w].conn)
       IN  /\ ub' = (Uses(w) \/ a \notin fd_addrs \/ a \notin DOMAIN relations)
           /\ fd_addrs' = fd_addrs \ {a}
           /\ relations' = [k \in DOMAIN relations \ {a} |-> relations[k]]
    /\ UNCHANGED <<cached_msg, subscribed, reset, killed>>

(* 0x16: TODO, says the code. *)
UnregisterSubscriber(w) ==
    /\ On(w, "0x16")
    /\ ub' = Uses(w)
    /\ UNCHANGED <<maps, reset, killed>>

(* Two workers with the maps at once: accept_conn inserts into fd_addrs,   *)
(* every handler but the last reads or changes one of them.                *)
AtMaps(w) ==
    \/ job[w].at = "accept" /\ \E c \in Conn : life[c] = "backlog"
    \/ job[w].at = "handle" /\ Msg(w).type # "0x16"
Race(v, w) ==
    /\ v # w /\ AtMaps(v) /\ AtMaps(w)
    /\ ub' = TRUE
    /\ UNCHANGED <<sockets, tasks, job, maps, killed>>

-----------------------------------------------------------------------------
Client(c) == connect(c) \/ close(c) \/ Reset(c) \/ write(c)
Poller == PollAccept \/ \E c \in Conn : PollRecv(c)
recv_msg(w) ==
    \/ Read(w) \/ ReadFails(w) \/ Close(w)
    \/ Publish(w) \/ RegisterPublisher(w) \/ RegisterSubscriber(w)
    \/ UnregisterPublisher(w) \/ UnregisterSubscriber(w)
Worker(w) == Pop(w) \/ (\E c \in Conn : Accept(w, c)) \/ AcceptDone(w) \/ recv_msg(w)

Alive == ~ ub /\ ~ killed

Next == Alive /\ \/ \E c \in Conn : Client(c)
                 \/ Poller
                 \/ \E w \in Workers : Worker(w)
                 \/ \E v, w \in Workers : Race(v, w)

Spec == Init /\ [][Next]_vars

(* The poller and the workers run; nothing is asked of the clients. *)
FairSpec ==
    /\ Spec
    /\ WF_vars(Alive /\ Poller)
    /\ \A c \in Conn : WF_vars(Alive /\ PollRecv(c))
    /\ \A w \in Workers : WF_vars(Alive /\ Worker(w))

-----------------------------------------------------------------------------
(* The types of the server's members and of what its threads hold. *)
TypeOK ==
    /\ life \in [Conn -> {"none", "backlog", "live", "deleted"}]
    /\ \A c \in Conn : sent[c] \in 0 .. Len(setup.send[c]) /\ ToSet(inbox[c]) \subseteq 1 .. sent[c]
    /\ closed \subseteq Conn /\ reset \cup lost \subseteq closed /\ ready \subseteq Conn
    /\ \A w \in Workers : job[w] # Idle =>
          \/ job[w].at = "accept"
          \/ job[w].at \in {"read", "close"} /\ job[w].conn \in Conn
          \/ job[w].at = "handle" /\ job[w].n \in 1 .. sent[job[w].conn]
    /\ fd_addrs \subseteq IP /\ DOMAIN relations \subseteq IP
    /\ \A a \in DOMAIN relations : relations[a] \in Seq(IP)
    /\ {listening, ub, killed} \subseteq BOOLEAN

(* Edge-triggered events are not repeated, and workers leave a connection  *)
(* on EAGAIN at any moment: still no message and no end of a stream lies   *)
(* in a socket without an event, a task or a worker on the way to it.  The *)
(* exception is a read that failed: nobody will delete that mq_conn.       *)
NothingForgotten ==
    ~ ub => \A c \in Conn : life[c] = "live" /\ (inbox[c] # <<>> \/ c \in closed \ lost) =>
        \/ c \in ready \/ c \in ToSet(tasks)
        \/ \E w \in Workers : job[w].at \in {"read", "handle", "close"} /\ job[w].conn = c

(* Whatever the order in which workers handle registrations, a subscriber  *)
(* is on a publisher's list only if it asked for that publisher, and only  *)
(* under a name that some connection to the server has had; and no message *)
(* is kept for an address that did not ask for its publisher.              *)
RelationsSound ==
    ~ ub => /\ \A p \in DOMAIN relations : \A s \in ToSet(relations[p]) :
                  /\ <<s, p>> \in subscribed
                  /\ \E c \in Conn : ip[c] = p /\ life[c] \in {"live", "deleted"}
            /\ \A s \in IP : \A id \in ToSet(cached_msg[s]) : <<s, ip[id[1]]>> \in subscribed

(* c connected, and no accept_conn is on the way to it: a call of accept   *)
(* that failed has left it behind, until another client connects.          *)
Stranded(c) ==
    /\ life[c] = "backlog" /\ ~ listening /\ "accept" \notin ToSet(tasks)
    /\ \A w \in Workers : job[w].at # "accept"

(* Every message in a socket of the server is read, whichever of the       *)
(* events and workers gets to it, or lost in a reset of its connection;    *)
(* unless the server ends, or a failed accept leaves the connection behind *)
(* and no other client comes.                                              *)
EveryMessageRead ==
    \A c \in Conn : inbox[c] # <<>> ~> inbox[c] = <<>> \/ ~ Alive \/ []Stranded(c)

(* The mq_conn of a client that has closed is deleted in the end, unless a *)
(* read has returned the error of a reset, the server ends, or a failed    *)
(* accept leaves the connection behind and no other client comes.          *)
ClosedIsDeleted ==
    \A c \in Conn : c \in closed ~>
        life[c] = "deleted" \/ c \in lost \/ ~ Alive \/ []Stranded(c)

=============================================================================
