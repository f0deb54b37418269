------------------------------ MODULE Acceptor ------------------------------
(***************************************************************************)
(* The HTTP acceptor (acceptor.cpp, connect.h): one thread in epoll_loop   *)
(* turns epoll events into tasks read_conn and write_conn of a worker      *)
(* pool, as built with USE_SENDFILE 1 and FORCE_CLOSE 0.                   *)
(*                                                                         *)
(* Every connection is registered with EPOLLET and EPOLLONESHOT: once an   *)
(* event is delivered it is off until epoll_ctl arms it again, for input   *)
(* or for output.  epoll_wait looks at the socket again when it delivers,  *)
(* so an event can be delivered exactly when the connection is armed and   *)
(* ready.                                                                  *)
(*                                                                         *)
(* read_conn arms the connection after every chunk it has read and then    *)
(* goes on reading.  From there on a second worker may be at work on the   *)
(* same connection, with nothing to keep the two apart, and whoever reads  *)
(* the end of the stream deletes the object.  The first use of a deleted   *)
(* connection sets ub and ends the behaviour: no outcome can be excluded.  *)
(*                                                                         *)
(* accept fails when no descriptor is left, and may fail for a reason of   *)
(* its own (acceptor.cpp:91 names some); the listening socket is edge-     *)
(* triggered, so that nobody is told again of what is left in the backlog. *)
(* Each answer takes a descriptor that is never given back.  SIGPIPE is    *)
(* ignored nowhere: an answer to a client that has gone may end the        *)
(* process, which sets killed.                                             *)
(*                                                                         *)
(* A chunk is what one read returns, "part" of a request or its "last"     *)
(* piece.  The pool's queue is the bounded FIFO of BoundedFifo.tla, each   *)
(* push and pop taken in one step.                                         *)
(***************************************************************************)
EXTENDS Naturals, Sequences, FiniteSets

CONSTANTS
    Conn,             \* the connection objects, one for each accept
    Workers,          \* the threads of wp
    max_queue_size,
    Chunk,            \* what clients send: a subset of {"part", "last"}
    MaxChunks,        \* bound of the model: the chunks a client sends
    MaxFiles,         \* the descriptors for connections and files
    MissingFiles      \* TRUE if the file asked for may not exist

ASSUME AcceptorAssumption ==
    /\ max_queue_size \in Nat \ {0} /\ MaxChunks \in Nat /\ MaxFiles \in Nat
    /\ Chunk \subseteq {"part", "last"} /\ MissingFiles \in BOOLEAN

VARIABLES
    life,        \* life[c]: "none", "backlog", "live" or "deleted"
    sock,        \* sock[c]: the chunks that arrived and were not read
    sent,        \* sent[c]: how many chunks the client has sent
    closed,      \* the connections whose client has closed
    reset,       \* those that were reset, until a read has returned the error
    listening,   \* an event of listenfd is due
    armed,       \* armed[c]: "in", "out" or "off", as epoll_ctl left it
    events,      \* what epoll_wait returned and epoll_loop has not seen yet
    logging,     \* the connections of epoll_loop's debug line: at most one
    tasks,       \* the queue of wp
    job,         \* job[w]: what worker w is doing
    rhs,         \* rhs[c]: the parser's status, finished or not
    answered,    \* answered[c]: what sendfile sent of the file: "no", "part" or "all"
    files,       \* how many files were opened, and are never closed
    abandoned,   \* those left over a file that did not open or a failed read
    ub,          \* a deleted connection was used
    killed       \* SIGPIPE has ended the process

vars == <<life, sock, sent, closed, reset, listening, armed, events, logging, tasks,
          job, rhs, answered, files, abandoned, ub, killed>>

client == <<life, sock, sent, closed, reset, listening>>
loop == <<events, logging>>
server == <<rhs, answered, files, abandoned, killed>>

(* An event, and the task made of it: read_conn or write_conn of conn. *)
Event == [on : {"in", "out"}, conn : Conn]

(* A worker is idle or at one of the steps of read_conn and write_conn;    *)
(* "mod" is the epoll_ctl with the given mask.                             *)
Step == {"in", "out", "parse", "mod", "sent", "del"}
Job == [at : Step, conn : Conn, chunk : Chunk \cup {"none"}, mask : {"in", "out"}]
Idle == [at |-> "idle"]
Busy(w) == job[w].at # "idle"
Start(t) == [at |-> t.on, conn |-> t.conn, chunk |-> "none", mask |-> "in"]

-----------------------------------------------------------------------------
(* init_acceptor, init_worker_pool, and epoll_loop up to its for loop *)
Init ==
    /\ life = [c \in Conn |-> "none"]
    /\ sock = [c \in Conn |-> <<>>]
    /\ sent = [c \in Conn |-> 0]
    /\ closed = {} /\ reset = {} /\ listening = FALSE
    /\ armed = [c \in Conn |-> "off"]
    /\ events = {} /\ logging = {}
    /\ tasks = <<>>
    /\ job = [w \in Workers |-> Idle]
    /\ rhs = [c \in Conn |-> "reading"]
    /\ answered = [c \in Conn |-> "no"] /\ files = 0 /\ abandoned = {}
    /\ ub = FALSE /\ killed = FALSE

(* The clients: connect, send chunks, close, at any moment.  What had not  *)
(* been read of a connection that is reset is lost.                        *)
Connect(c) ==
    /\ life[c] = "none"
    /\ life' = [life EXCEPT ![c] = "backlog"]
    /\ listening' = TRUE
    /\ UNCHANGED <<sock, sent, closed, reset, armed, loop, tasks, job, server, ub>>
Send(c, k) ==
    /\ life[c] # "none" /\ c \notin closed /\ sent[c] < MaxChunks
    /\ sock' = [sock EXCEPT ![c] = Append(@, k)]
    /\ sent' = [sent EXCEPT ![c] = @ + 1]
    /\ UNCHANGED <<life, closed, reset, listening, armed, loop, tasks, job, server, ub>>
Close(c) ==
    /\ life[c] # "none" /\ c \notin closed
    /\ closed' = closed \cup {c}
    /\ UNCHANGED <<life, sock, sent, reset, listening, armed, loop, tasks, job, server, ub>>
Reset(c) ==
    /\ life[c] # "none" /\ c \notin closed
    /\ closed' = closed \cup {c} /\ reset' = reset \cup {c}
    /\ sock' = [sock EXCEPT ![c] = <<>>]
    /\ UNCHANGED <<life, sent, listening, armed, loop, tasks, job, server, ub>>

-----------------------------------------------------------------------------
(* epoll_loop *)
Readable(c) == sock[c] # <<>> \/ c \in closed
Ready == {e \in Event : armed[e.conn] = e.on /\ (e.on = "in" => Readable(e.conn))}

(* epoll_wait returns some of what is ready and disarms it. *)
epoll_wait(es) ==
    /\ events = {} /\ logging = {}
    /\ events' = es
    /\ armed' = [c \in Conn |-> IF \E e \in es : e.conn = c THEN "off" ELSE armed[c]]
    /\ UNCHANGED <<client, logging, tasks, job, server, ub>>

(* The descriptors that are left: those of abandoned connections and of    *)
(* answered files stay in use.                                             *)
Unused == MaxFiles - files - Cardinality({c \in Conn : life[c] = "live"})

(* accept_conn: what is in the backlog becomes connections armed for       *)
(* input, one after the other until accept fails, at the latest when there *)
(* is no descriptor for the next one.  The rest stays in the backlog.      *)
accept_conn ==
    /\ listening /\ logging = {}
    /\ listening' = FALSE
    /\ \E new \in SUBSET {c \in Conn : life[c] = "backlog"} :
           /\ Cardinality(new) <= Unused
           /\ life' = [c \in Conn |-> IF c \in new THEN "live" ELSE life[c]]
           /\ armed' = [c \in Conn |-> IF c \in new THEN "in" ELSE armed[c]]
    /\ UNCHANGED <<sock, sent, closed, reset, loop, tasks, job, server, ub>>

(* An event becomes a task: conn->cb is set, wp->run waits for room in the *)
(* queue, and then the debug line reads conn->fd.                          *)
Dispatch(e) ==
    /\ e \in events /\ logging = {}
    /\ Len(tasks) < max_queue_size
    /\ events' = events \ {e}
    /\ tasks' = Append(tasks, e)
    /\ logging' = {e.conn}
    /\ ub' = (life[e.conn] = "deleted")
    /\ UNCHANGED <<client, armed, job, server>>
Debug(c) ==
    /\ c \in logging
    /\ logging' = {}
    /\ ub' = (life[c] = "deleted")
    /\ UNCHANGED <<client, armed, events, tasks, job, server>>

-----------------------------------------------------------------------------
(* per_worker_task *)
Pop(w) ==
    /\ ~ Busy(w) /\ tasks # <<>>
    /\ job' = [job EXCEPT ![w] = Start(Head(tasks))]
    /\ tasks' = Tail(tasks)
    /\ UNCHANGED <<client, armed, loop, server, ub>>

(* Worker w takes a step of its task at `at'; the step uses the object. *)
At(w, at) == job[w].at = at
Use(w) == ub' = (life[job[w].conn] = "deleted")

(* The head of read_conn's loop: a chunk, the end of the stream, or        *)
(* EAGAIN, with which read_conn returns.                                   *)
read(w) ==
    /\ At(w, "in") /\ job[w].conn \notin reset /\ Use(w)
    /\ LET c == job[w].conn
       IN  \/ /\ sock[c] # <<>>
              /\ sock' = [sock EXCEPT ![c] = Tail(@)]
              /\ job' = [job EXCEPT ![w].at = "parse", ![w].chunk = Head(sock[c])]
           \/ /\ sock[c] = <<>>
              /\ job' = IF c \in closed THEN [job EXCEPT ![w].at = "del"]
                                        ELSE [job EXCEPT ![w] = Idle]
              /\ UNCHANGED sock
    /\ UNCHANGED <<life, sent, closed, reset, listening, armed, loop, tasks, server>>

(* read returns -1 with another errno, and read_conn returns. *)
ReadFails(w) ==
    /\ At(w, "in") /\ job[w].conn \in reset /\ Use(w)
    /\ reset' = reset \ {job[w].conn}
    /\ abandoned' = abandoned \cup {job[w].conn}
    /\ job' = [job EXCEPT ![w] = Idle]
    /\ UNCHANGED <<life, sock, sent, closed, listening, armed, loop, tasks, rhs, answered,
                   files, killed>>

(* What the parser leaves in rhs.  Two workers in it at once race on every *)
(* field of the request, and either outcome can be left.                   *)
Parsed(w) ==
    LET c == job[w].conn
    IN  IF \E v \in Workers \ {w} : At(v, "parse") /\ job[v].conn = c
        THEN {"reading", "finish"}
        ELSE {IF job[w].chunk = "last" THEN "finish" ELSE rhs[c]}

(* read_http_status_machine, and the choice of the events to wait for.     *)
(* The mutant looks at the status before the parser has run.               *)
MaskBefore(c, status) == IF rhs[c] = "finish" THEN "out" ELSE "in"
Mask(c, status) == IF status = "finish" THEN "out" ELSE "in"
parse(w) ==
    /\ At(w, "parse") /\ Use(w)
    /\ \E status \in Parsed(w) :
          LET c == job[w].conn
          IN  /\ rhs' = [rhs EXCEPT ![c] = status]
              /\ job' = [job EXCEPT ![w].at = "mod", ![w].chunk = "none",
                                    ![w].mask = Mask(c, status)]
    /\ UNCHANGED <<client, armed, loop, tasks, answered, files, abandoned, killed>>

(* epoll_ctl(EPOLL_CTL_MOD), in read_conn, which goes on to read. *)
Rearm(w) ==
    /\ At(w, "mod") /\ Use(w)
    /\ armed' = [armed EXCEPT ![job[w].conn] = job[w].mask]
    /\ job' = [job EXCEPT ![w].at = "in"]
    /\ UNCHANGED <<client, loop, tasks, server>>

(* read returned 0: EPOLL_CTL_DEL, close and delete. *)
Delete(w) ==
    /\ At(w, "del") /\ Use(w)
    /\ life' = [life EXCEPT ![job[w].conn] = "deleted"]
    /\ armed' = [armed EXCEPT ![job[w].conn] = "off"]
    /\ job' = [job EXCEPT ![w] = Idle]
    /\ UNCHANGED <<sock, sent, closed, reset, listening, loop, tasks, server>>

(* write_conn: open fails and it returns, or the file is sent.  Nobody     *)
(* looks at how much of it sendfile sent to the socket, which does not     *)
(* block, and nobody closes the file.  On a connection that was reset the  *)
(* first write returns the error; a write to a client that has gone        *)
(* otherwise may raise SIGPIPE.                                            *)
OpenFails(w) ==
    /\ MissingFiles \/ Unused = 0
    /\ At(w, "out") /\ Use(w)
    /\ abandoned' = abandoned \cup {job[w].conn}
    /\ job' = [job EXCEPT ![w] = Idle]
    /\ UNCHANGED <<client, armed, loop, tasks, rhs, answered, files, killed>>
sendfile(w) ==
    /\ At(w, "out") /\ Use(w) /\ Unused > 0
    /\ files' = files + 1
    /\ \E much \in {"part", "all"} : answered' = [answered EXCEPT ![job[w].conn] = much]
    /\ killed' \in BOOLEAN /\ (killed' => job[w].conn \in closed \ reset)
    /\ reset' = reset \ {job[w].conn}
    /\ job' = [job EXCEPT ![w].at = "sent"]
    /\ UNCHANGED <<life, sock, sent, closed, listening, armed, loop, tasks, rhs, abandoned>>

(* The epoll_ctl at the end of write_conn; the mutant returns without it.  *)
WriteReturns(w) ==
    /\ At(w, "sent") /\ Use(w)
    /\ job' = [job EXCEPT ![w] = Idle]
    /\ UNCHANGED <<client, armed, loop, tasks, server>>
WriteDone(w) ==
    /\ At(w, "sent") /\ Use(w)
    /\ armed' = [armed EXCEPT ![job[w].conn] = "in"]
    /\ job' = [job EXCEPT ![w] = Idle]
    /\ UNCHANGED <<client, loop, tasks, server>>

-----------------------------------------------------------------------------
Client == \E c \in Conn : Connect(c) \/ Close(c) \/ Reset(c) \/ \E k \in Chunk : Send(c, k)

EpollLoop ==
    \/ \E es \in SUBSET Ready \ {{}} : epoll_wait(es)
    \/ accept_conn
    \/ \E e \in events : Dispatch(e)
    \/ \E c \in logging : Debug(c)

Worker(w) ==
    \/ Pop(w)
    \/ read(w) \/ ReadFails(w) \/ parse(w) \/ Rearm(w) \/ Delete(w)
    \/ OpenFails(w) \/ sendfile(w) \/ WriteDone(w)

(* The process runs on. *)
Alive == ~ ub /\ ~ killed

Next == Alive /\ (Client \/ EpollLoop \/ \E w \in Workers : Worker(w))

Spec == Init /\ [][Next]_vars

(* The threads of the server run; nothing is asked of the clients.  Events *)
(* are delivered in the order in which they became ready, so none waits    *)
(* for ever while others are delivered.                                    *)
FairSpec ==
    /\ Spec
    /\ WF_vars(Alive /\ EpollLoop)
    /\ \A e \in Event : WF_vars(Alive /\ \E es \in SUBSET Ready : e \in es /\ epoll_wait(es))
    /\ \A w \in Workers : WF_vars(Alive /\ Worker(w))

-----------------------------------------------------------------------------
TypeOK ==
    /\ life \in [Conn -> {"none", "backlog", "live", "deleted"}]
    /\ sock \in [Conn -> Seq(Chunk)]
    /\ sent \in [Conn -> 0 .. MaxChunks]
    /\ closed \subseteq Conn /\ reset \subseteq closed /\ listening \in BOOLEAN
    /\ armed \in [Conn -> {"in", "out", "off"}]
    /\ events \subseteq Event /\ logging \subseteq Conn
    /\ tasks \in Seq(Event)
    /\ job \in [Workers -> Job \cup {Idle}]
    /\ rhs \in [Conn -> {"reading", "finish"}]
    /\ answered \in [Conn -> {"no", "part", "all"}] /\ files \in Nat
    /\ abandoned \subseteq Conn /\ ub \in BOOLEAN /\ killed \in BOOLEAN

(* Who will see to connection c although it is not armed. *)
Pending(c) ==
    \/ \E e \in events : e.conn = c
    \/ \E i \in DOMAIN tasks : tasks[i].conn = c
    \/ \E w \in Workers : Busy(w) /\ job[w].conn = c

(* However many workers read, finish and re-arm the same connection, none  *)
(* is forgotten: a live one is armed, or an event, a task or a worker is   *)
(* still to see to it.  The only ways to lose one are a file that does not *)
(* open (acceptor.cpp:190) and a read that fails (acceptor.cpp:134).       *)
NeverForgotten ==
    \A c \in Conn : life[c] = "live" /\ c \notin abandoned =>
                       armed[c] # "off" \/ Pending(c)

(* Connection c waits in the backlog, and nothing will make epoll_loop     *)
(* accept it: an accept failed when it was its turn, or before.            *)
Stranded(c) == life[c] = "backlog" /\ ~ listening

(* A request that came in one piece gets an answer, or a part of one: what *)
(* sendfile returns is not looked at.  The exceptions: its client closes,  *)
(* the file is missing or no descriptor is left to open it, a failed       *)
(* accept leaves the connection in the backlog for good, or the server     *)
(* ends, by SIGPIPE or with a deleted object.                              *)
RequestAnswered ==
    \A c \in Conn : sent[c] > 0 /\ Chunk = {"last"} ~>
        answered[c] # "no" \/ c \in closed \cup abandoned \/ ~ Alive \/ []Stranded(c)

(* The object of a connection whose client has closed is deleted in the    *)
(* end, whatever the workers were doing with it at that moment, with the   *)
(* same exceptions of a failing open, read or accept and of the end of the *)
(* server.                                                                 *)
ClosedIsDeleted ==
    \A c \in Conn : c \in closed ~>
        life[c] = "deleted" \/ c \in abandoned \/ ~ Alive \/ []Stranded(c)

=============================================================================
