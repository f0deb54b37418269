# A verification of SEDA-framework in TLA+

SEDA-framework is a C++ skeleton for staged, event-driven servers. A *stage* is a
process with one worker pool; a message comes in through a ZeroMQ subscription, is
handed to a function by a pool thread, and what the function returns is published
to the next stage. Beside the stage the repository has an epoll-based HTTP acceptor,
a small message-queue server with its client, an asynchronous logger, an HTTP
request parser and a splay tree.

The parts are modelled one by one, from the task queue that everything else stands on to
the server programs built with it. TLC checks the modules on small instances, and TLAPS
proves the safety properties of the concurrent parts and of the splay tree for all values of
the constants. Part 1 is the inventory; part 2 describes the modules, the runs and the
proofs; part 3 is the plan for the rest.

## 1. Inventory

| component | state | operations | interacts with |
|---|---|---|---|
| `mutex_task_queue` (job_queue) | `std::queue`, flags `empty`, `full`, a mutex, two condition variables | `push`, `pop` | every pool, the logger, `stage_queue` |
| `worker_pool` | the queue `jq`, `running`, `running_num` under `statics_lock`, the threads | `start`, `run`, `per_worker_task`, `getRunnningWorkerNum`, `stop` | clients submit callbacks that workers run and delete |
| `receiver` | `elements`, `lock`, `empty_queue`, `running` | `run` (a pool task), `fetchOne` | ZeroMQ SUB socket; `stage_handler::run` |
| `stage_handler` | `fun`, the shared message `ie`, `rec`, `wp`, `sd` | `setHandler`, `run` (a pool task), `handlerFunc` (a pool task per message) | receiver, pool, sender |
| `sender` | ZeroMQ PUB socket | `init`, `sendMsg` | workers; the next stage |
| `stage_control` | `running` | `run` (a pool task that logs `running_num`) | pool |
| `stage`, `main` | the parts above | `init`, `run`, `runStage`, forks | starts the pool, submits `rc`, `sc`, `sh`, sets the handler |
| `LogUtil` | `is_async`, a task queue, the log thread | `init`, `debug`, `write_log`, `set_async`, `log_from_queue`, `stop` | every thread is a producer |
| `acceptor` | epoll set, connections, a pool | `accept_conn`, `read_conn`, `write_conn`, `epoll_loop` | the parser, worker threads, clients |
| message-queue server | `relations`, `cached_msg`, `fd_addrs`, epoll set, a pool | `poller`, `accept_conn`, `recv_msg` for five message types | clients over TCP, worker threads |
| message-queue client | the socket, a receive thread | `connect`, `register_mq`, `unregister_mq`, `send`, `loop`, `run`, the destructor | the server; the program's callback |
| `mq_def`, `buffer` | bytes | `encode_mq_msg`, `decode_mq_msg`, `push_back` | server, acceptor |
| splay tree | nodes with size fields | `splay`, `insert`, `delete` | `checkCache` of http_server |
| HTTP parser | `rhs`, method, url, parameters | `read_http_status_machine` per read, and a copy of it | acceptor, http_server |
| `sedaObject`, redis client | `refcount`, context, last reply | `incrRefCount`, `decrRefCount`, `connect`, `command` | hiredis |
| seda registry, config | tables | not usable, see "Not modelled" | |

What is hard here. The wake-ups: `push` signals only when the queue was empty and `pop`
only when it was full, the receiver signals after it has released its mutex, and both the
modules of a stage and its messages are tasks of the same pool. The ownership of
connections: acceptor and message-queue server hand one object to several workers and
delete it in one of them. The streams: parser, server and client take what one `read`
returns for a unit. And long sequences of operations on shared tables, trees and counts.
None of this shows in a single-threaded test with one small input; `PROJECT.json` lists
each place under "hazards" with the properties aimed at it.

What makes the parts correct:

- queue: a bounded FIFO; nobody sleeps for ever while there is work or room;
- pool: every task is run once and deleted once; the count is exact; tasks finish;
- receiver: every message once, in order, and in the end;
- start: all modules of the stage begin, with their handler in place;
- stage: each message reaches the stage's function; what is under way is bounded;
- logger: every line once in the file, a writer's lines in order; `stop` returns;
- acceptor: no connection is forgotten or used after it is deleted; requests are answered;
- message-queue server: every message is read; lists of subscribers say what was asked
  for; publications go to subscribers; ended subscriptions end;
- message-queue client: the callback hears what was sent; the destructor returns;
- parser: a request means the same however it arrives, and is not answered early;
- splay tree: a search tree of exactly the keys, with right sizes; lookups find keys;
- reference counts: an object lives as long as it is held, and frees what it owns once.

Not all of this holds of the code as it stands; see "What does not hold" below.

## 2. Modules

### TaskQueue, BoundedFifo

`TaskQueue` is `mutex_task_queue`. `queue`, `empty`, `full` and `queue_mutex` are the
members; `qpc[t]` is where thread `t` is in `push` or `pop` (before the lock, in the
body, asleep) and `val[t]` is the argument or the result. Taking the mutex, going to
sleep and waking up are actions of their own; the body up to the unlock is one,
because everything in it is done under the mutex. `Signal` wakes one sleeper or
nobody; `SpuriousWakeup` lets a wait return unasked, as POSIX allows. A woken thread
has to win the mutex again and test its flag again.

`BoundedFifo` is what a caller may rely on: push and pop each take effect at one
moment between call and return. `RefinesFifo` says that `TaskQueue` implements it,
with `op[t]` computed from `qpc[t]` by `CallOf`.

### WorkerPool

The pool's clients and workers go through the actions of an instance `jq` of
`TaskQueue`; `wpc[w]` is the place in `per_worker_task`. The `++` and `--` of
`running_num` are a load (with the lock) and a store (with the unlock). `fresh` and
`deleted` record the life of a `queue_element`. `Endless` is the set of tasks whose
callback does not return.

### Messages, Receiver

`receiver::run` and `fetchOne`, with `rpc` and `fpc` as their program counters.
Messages are numbered in the order in which `zmq_recv` returns them, so that
"in order, each once" can be said (`Messages` declares their number for `Receiver` and `Stage`). Failing `zmq_recv` calls change nothing and need
no action. There is one caller of `fetchOne` in the program, and the model has one.

### StageStart

`runStage` and `stage::init`: `main` submits `rc`, `sc` and `sh` to an instance of
`WorkerPool` and then sets the handler. `up[m]` says whether a worker has begun module
`m`. `fun` is uninitialised until `setHandler`, so the initial states have it null or
something else.

### Stage

A stage at work: the receiver in full, the thread of `stage_handler::run`, and workers
on a `BoundedFifo`. Using the abstract queue here is justified by the two theorems
`ImplementsFifo` and `PoolUsesQueue`, and keeps the state space small. `ie` is copied in
two halves and read in two halves, since nothing synchronises the 256-byte copy with
its readers. Task `n` is the one that was submitted after message `n` was assigned.

### Log

`LogUtil` on an instance of `TaskQueue`, step by step: writers in `write_log`, the log thread in
`log_from_queue`, and a thread that calls `stop`. A line is a writer and a number. `stop`
deletes the queue; a thread that is in `push` or `pop` then has undefined behaviour, which
sets `ub` and ends the behaviour, as in all modules below.

### Acceptor

`epoll_loop` and the workers' `read_conn` and `write_conn`. `armed[c]` is what `epoll_ctl` left
for the connection under `EPOLLONESHOT`, `sock[c]` what arrived and was not read; `job[w]` is
where worker `w` is. `epoll_wait` returns any non-empty set of what is armed and ready. The
parser is reduced to "finished or not"; when two workers are in it for one connection
the outcome is either. Clients connect, send, close and reset at any moment.
`abandoned` are the connections the code gives up without closing them.

`accept_conn` takes any part of the backlog, because any error of `accept` ends its loop; at
most as many as there are descriptors (`Unused`). `files` counts what `write_conn` opens and
nobody closes, so that descriptors run out. `answered` tells a whole file from a part of one,
which `write_conn` does not. An answer to a client that has gone may end the process with
SIGPIPE (`killed`). `Delete` is `close` and `delete` in one step, so the model does not see that
between the two a new connection may get the number of the descriptor, and that a second worker
with the old object then reads from the new connection or arms it.

### HttpRequest, MCHttpRequest

`read_http_status_machine` on token sequences, called with reads cut anywhere, each into a
cleared buffer or one that still holds the read before (`Feed`). An action is one iteration of
the loop, in `http_request` or in the copy of it in `http_server.cpp`; `code` says which of the two
it is. `i`, `begin` and the looks past `nread` are kept as they are. A method is a word of letters
of which those of GET and POST are some, as the code compares three or four bytes and not the
length of the word; `MCHttpRequest` has GET, POST, a word unlike them, GETX and XGET. A parameter
is a pair of name and value, and `content` the map that `get_params` makes of them, in which the
first of two equal names counts. `ContentSize` is the size of `t_content`.

`Fits` says that a request is made of these tokens and shorter than `BUFSIZE`, by at least the two
places the parser looks behind it. `Agrees` says what "parsed right" means: method, URL,
protocol, and every name and value, where the first name has the line feed of the empty line in
front of it, as the code stores it. `GoodCuts` says exactly which cuts the parser survives.
Outside it: a request without headers never finishes, because the parser looks for the
empty line after a header; a body that comes in a later read than the empty line is
ignored; a piece without `=` dereferences NULL, and more than `ContentSize` bytes from the line
feed on are written past the end of `t_content` (`ub`).

### SplayTree

`splaytree_splay` iteration by iteration with its header node, the loops that correct the
sizes, insert and delete. The mirrored halves of the code are one function of a direction.
`keys` is the set the tree should hold. The caller keeps the root that an operation
returns, as `test_splaytree.cpp` does.

### RedisClient

The reference count and the life of contexts and replies. Holders give a reference back
once; `shared` says that somebody has taken one, before which nothing deletes the object. Replies but the last one, and the context of an earlier `connect`, leak; the
properties do not promise otherwise.

### MqServer, MqWire

`MqServer` is the server with its poller and workers: edge-triggered events become tasks, and
handlers change the shared maps. Two workers with the maps at once is undefined (`Race`). A
setup, chosen in the initial state, says which messages each client sends, whether a connection
may be reset, and how many workers the pool has; `MCMqServer` lists the setups. `AcceptDone` may
come with clients still in the backlog (`Stranded`), as in `Acceptor`. Of what `Publish` writes
only the number of writes matters, because the second one to a client that has gone may raise
SIGPIPE (the first, if the connection was not reset). `Close` is one step, like `Delete` of
`Acceptor`.

`MqWire` is what happens to bytes: checksums in `Width` bits, reads that join or split
messages, the old bytes behind a shorter read, `buffer::push_back`, which always writes to the
start, and the decoding that relies on it. `NameSize` is the size of `publisher_name`; copying
past its end sets `ub` (`Overrun`).

### Runs

| run | instance | shows |
|---|---|---|
| `queue` | 1 producer, 3 consumers, 4 elements, 2 places | flags exact, no standstill, a bounded FIFO; elements leave, pushes return |
| `pool` | 1 client, 2 workers, 3 tasks, 1 place | one owner per task, `running_num` exact, the queue is used as it expects; every task finishes |
| `stage_start` | 3 workers, 3 places | the receiver begins; everything begins if enough workers are awake |
| `stage_start_all` | the same | **violated**: two modules are stranded |
| `stage` | 1 worker, 4 messages, 1 place | messages once, in order, no lost wake-up; tasks are never stale and bounded in number; news gets through |
| `stage_own` | 2 workers, 3 messages, 1 place | **violated**: a task handles another message than its own |
| `acceptor` | 2 connections, 2 workers, 1 place, 3 descriptors, files may be missing | no connection is forgotten; requests answered, closed connections deleted, unless an accept fails or the server ends |
| `splay` | 6 keys | keys, order, sizes, neighbours; operations return |
| `http` | 5 methods, 2 of them known, up to 2 headers, 4 parameters, 3 reads | cuts decide, one piece is parsed, never early, no method made up |
| `log` | 2 writers, 2 lines each, 2 places, switching and stopping | each line in one place, a writer's order; lines reach the file; `stop` returns unless the log thread is idle |
| `mq` | 2 clients on 2 hosts; messages of every type; a reset; failing accepts; SIGPIPE; 1 or 2 workers | nothing is left in a socket, lists of subscribers are sound; messages read, connections deleted, unless an accept fails or the server ends |
| `mq_wire` | 2 messages of up to 2 characters, 5-bit chars, names of 4 bytes | what becomes of a publication that comes alone, and of a name whatever comes with it |

Bounds. The queue has one or two places instead of 2000, so that it is both full and
empty in most behaviours, with more elements than places and more than one consumer
wherever a wake-up could go to the wrong thread. In `stage_start` the queue
has room for the three modules, as in the program. `stage` has one message more
than the limit of `OutstandingBounded` (one in the queue, one at the worker, one being pushed),
so that the limit is reached. The safety properties of the queue, the pool, the receiver, the
stage, the logger, the acceptor and the message-queue server are proved for any number of threads,
so that the runs need not have more of them than liveness calls for.
In `acceptor` both workers can be in `read_conn` for one connection while the other waits in
`push`; three descriptors serve both connections and one answer, and the second answer finds none.
Six keys give splay paths with two rotations and a link on both sides. Chars have five bits, the
least with which 0x16 is one; they wrap around with the character 31, whose checksum is 0, and the
characters 1, 4 and 22 make pieces of a message look like the start of another. A name of four
bytes has room for two of the shortest registrations in one read and not for longer ones.
Three reads and two headers are the least with which a request line and every header can
be cut, and a buffer of 40 places has room for every request and for what the parser looks at
behind it. A `t_content` of 13 tokens just takes three parameters, and four are too many.
`OnePiece`, `NotEarly` and `MethodIsFound` are proved for any of these numbers. In `mq` two
workers take short scripts, where they can meet in one connection, and one worker takes the
longer ones, where the tables are used in sequence.

No symmetry is used, because every run checks liveness or has few states. Deadlock checking is
off where a system may stop: when no client, caller or line is left, the servers only wait.
`TypeOK` of each module says what its variables hold; the run `queue` checks it, and it is
proved for the queue, the pool, the receiver, the stage, the logger, the acceptor, the
message-queue server, the HTTP parser, the splay tree and the redis client.

Fairness. Every thread that can take a step does (weak fairness, per thread), because the
operating system schedules all threads. Workers and `fetchOne`'s caller are loops. epoll
reports ready descriptors in turn, so each event is reported in the end (`epoll_wait` with
that event, `PollRecv(c)`). Nothing is assumed about clients calling `run`, sending or
closing, messages arriving, connections or calls of `accept` succeeding, somebody logging or
stopping, or who wins a contended mutex; and nothing is promised of a server that has ended, by
undefined behaviour or SIGPIPE. Spurious wake-ups are eventually absent: POSIX permits them
and promises none, so a program cannot rely on them. Callbacks that are not endless
return.

`PushReturns` and `EveryTaskFinishes` are checked with one producer. With two, both
asleep in a full queue, two pops in a row signal once, and the second producer sleeps on
until the queue is full again.

### What does not hold

Two runs expect a violation, because the repository's own documentation says otherwise:

- `stage_start_all`. All workers sleep in `pop`; `main` pushes `rc` and signals, and pushes
  `sc` and `sh` before the woken worker has the mutex; the queue was not empty, so there
  is no second signal. The worker keeps `rc`, which never returns. `sc` and `sh` stay
  queued, the other workers asleep, and the stage handles nothing.
- `stage_own`. `stage_handler::run` assigns the next message before the worker has read `ie`.

The models show more, for which no run is kept. Where one is undefined behaviour, the action
sets `ub`, and the properties hold up to there.

- `stage_handler::run` may begin before `main` comes back from `stage::init` and sets the handler.
- `LogUtil::stop` signals nobody, and does not return when the log thread is asleep in `pop`
  (`StopReturnsUnlessIdle` says when it does).
- Acceptor: a worker reads a chunk and re-arms; a second worker gets the next event, both go
  on reading, one reads the end of the stream and deletes the object. Or the worker is done and
  `epoll_loop` only then prints `conn->fd`.
- Both servers: an `accept` that fails, for whatever reason, ends the loop (acceptor.cpp:90,
  message_queue_server.cpp:133), and as the listener is edge-triggered the clients that are left
  wait until the next one connects; `[]Stranded(c)` is the exception in the liveness
  properties. In the acceptor it is sure to happen: `write_conn` never closes the file it opens
  (acceptor.cpp:188), so after enough answers neither `open` nor `accept` gets a descriptor.
- Both servers end with SIGPIPE when they write to a client that has gone; the signal is ignored
  nowhere.
- `write_conn` does not look at what `sendfile` returns: on a socket that does not block a part of
  the file counts as the answer. `RequestAnswered` promises no more.
- A failed redis `connect` frees the context and keeps the pointer, which the destructor frees
  again; `FreedOnce` names this as the exception.
- `checkCache` takes the neighbour of a missing key for the cached page (`KeyOrNeighbour`), and
  keeps the old root, which the splay has moved down.
- `READ_HTTP_ERROR` is overwritten with `URL` in the same iteration, so that an unknown method is
  parsed on like a known one. Methods are compared by their first bytes: GETX is GET, and so is
  XGET when a read ends behind the X. `MethodIsFound` is what remains.
- The first parameter of a POST is stored under a name with a line feed in front
  (http_request.cpp:101), so that a lookup of the name the client sent does not find it; and
  `get_params` copies whatever was read behind the empty line into `t_content[128]`.
- Message-queue server: a publication goes to `mc->fd`, the publisher itself; the end of a
  subscription, 0x16, changes nothing, so the subscriber stays on the list; the cache is copied,
  sent, and kept.
- Publications are lost. message_queue_server.h:21 says of a publication that it will be sent to
  the subscribers. If one read returns two of them, or one in pieces, the checksum is taken over
  the wrong bytes and nothing is sent, but for lucky sums; `AloneIsPassedOn` and `AloneIsExact`
  are about publications that come alone, and promise nothing of others.
- Of a publication with checksum zero the last character is lost (`AloneIsExact` names the
  exception). After a longer read in the same `recv_msg` the checksum and one old byte may follow
  the text (`AloneIsPassedOn`). `write` is given `nread` bytes of a shorter string (line 170).
- The name in a registration is copied with `nread - 2` bytes into `publisher_name[128]`
  (message_queue_server.cpp:187, and :209 for 0x16): too many if more than 130 bytes came in
  one read, and `(size_t)-1` if one byte did. `NameIsExact` stops there.

### Proofs

All theorems are for arbitrary constants that satisfy the named assumptions
(`QueueAssumption`, `PoolAssumption`, `MessageAssumption`, `StageAssumption`,
`LogAssumption`, `AcceptorAssumption`: non-empty, disjoint sets of threads, a capacity of at
least one, finitely many workers where they are counted; `MqAssumption`: every connection has an
address; `SplayAssumption`: keys are integers, and neither the null pointer nor the header is
one; `HttpAssumption`: requests fit into the buffer, and names and values of parameters are
tokens of their own). `RedisClient` needs none.

- `TaskQueueProofs`. `IInv` is `TypeOK`, `FlagsExact` and `NoStandstill` with `Carried` (a push
  holds an element until its unlock). `NoStandstill` needs `FlagsExact`: a consumer goes to
  sleep on the flag, not on the queue. The signal in `push` is the step that needs work: if
  all consumers sleep, the queue is empty by `NoStandstill`, so `push` does signal and
  one of them wakes. `ImplementsFifo` maps each action to its abstract counterpart or to a
  stutter; `FlagsExact` turns the flag tests into the abstract guards.
- `WorkerPoolProofs`. `PoolInv` adds to the queue's `IInv` (through an instance of
  `TaskQueueProofs`) that a worker is in `pop` exactly when its loop is, that load and store
  of `running_num` exclude one another, and `OneOwner`. `OneOwner` is what makes each `run` a
  legal push, so the queue's invariant and the pool's are proved together
  (`StepUsesQueue`).
- `StageProofs`. Of the receiver, `TypeOK`, `InOrderNoLoss` and `NoLostWakeup` are inductive
  together (`RecInv`), whoever its one caller is; they are carried over to the stage through the
  instance `rec`. `StageInv` says that `ie` runs behind `fetchOne` and has caught up whenever a
  task is submitted (`IeCurrent`), and that what a task has read lies between its own
  message and `ie` (`ReadSoFar`); the receiver's `InOrderNoLoss` gives that `fetched` grows.
  `OutstandingBounded` counts, so it needs to know where tasks are: each one that is under way is
  being pushed, in the queue or in the hands of a worker (`Located`). That maps them into as many
  places as the bound has.
- `LogProofs`. `LogInv` contains the queue's `IInv`, through an instance of `TaskQueueProofs`, and
  that a writer is in `push` exactly when `write_log` is, with its current line (`CallsMatch`).
  `OnePlace` is `EachLineInOnePlace` line by line, with the queue free of duplicates too. The order
  in the file needs the order in the queue, and that what the log thread holds comes between the
  two (`InOrder`).
- `AcceptorProofs`. `NeverForgotten` alone is not inductive: a worker on its way to the end of
  `read_conn` counts as seeing to the connection, but may return on `EAGAIN` and leave it. The
  strengthening `Attended` says who will arm it again: it is armed, or an event or a task is
  on its way, or a worker is at a step that still arms or deletes it (`Answering`), or something
  is readable and a worker is about to read it.
- `MqServerProofs`. `Attended` is `NothingForgotten` without its exception for undefined behaviour.
  It needs that a reset leaves nothing to read (`ResetEmpty`), so that the worker whose read fails
  may go. `RelationsSound` follows from `Asked`; that needs that the messages in the sockets are
  those the setup says (`Numbers`) and that names come from connections that were accepted
  (`AcceptedOnly`).
- `SplayTreeProofs`. A tree is a pointer into a heap: `Reach` is the least set that contains it and
  is closed under the two fields, `Ord` the search order at every node of that set. Being defined
  as a least set, `Reach` needs no induction: to show that it stays inside a set, show that the set
  is closed. The lemmas say what a node is made of (`TreeParts`, `TreeNode`), that writes
  elsewhere do not matter (`Frame`), and that a tree can be hung on the end of another one
  (`Attach`). `SplayInv` says that in the loop the nodes are split into three trees once the stale
  fields at the ends of the side trees are taken as cut off (`Splits`), that the loop
  ends next to the key (`Near`), and that the right subtree of the node to be deleted is not
  touched while its left subtree is splayed (`GoneKept`). Rotating, linking and assembling
  are one lemma each on heaps (`RotateParts`, `LinkParts`, `JoinTree`). In
  `splaytree_delete` the node splayed is the largest of the left subtree by `Near`, so that
  `x->right` is free.

  `SizesExact` is about the whole tree, but the code only ever adds up two fields. The proof uses
  the local equation `Sized` (a size is one more than the sizes of the children), and `SizesCount`
  turns it into a number of nodes: were it wrong anywhere, it would be wrong at a node with the
  least size (`LeastNat`), whose children are right. While the loop runs (`LoopSizes`), the sizes
  are right below `t`, except for `t` itself, and right off the two paths to the ends of the side
  trees, while `l_size` and `r_size` are the numbers of nodes of the side trees. After the loop
  (`FixSizes`) each path is corrected down to a node (`Todo`) that is due what is left of the
  accumulated number: the nodes below it and those that will be hung on the end. That the code can
  subtract its way down rests on the nodes above the end of a side tree forming one path (`Nested`,
  `PathToEnd`). `DeleteSizes` says the same of the node that is being deleted and of its right
  subtree, while the left one is splayed.
- `HttpRequestProofs`. `HttpInv` says that the first `nread` places of the buffer
  are the last read, which starts at the beginning or at a cut, that `begin` is 0 while a method is
  looked for, and that `i` and `begin` are
  not far behind `nread`. What one iteration may do is said once, for all statuses
  (`AlwaysMoves`); where the tokens of a request are (`Layout`) gives that the letters of GET and
  POST are nowhere but in the method (`Marks`), hence `MethodIsFound`, and that the four characters
  the parser takes for the end of the header are at its end (`BlankLine`), hence `NotEarly`. For `OnePiece`, `OneInv`
  follows a request that was not cut: in every status it says where `i` is and which fields are
  already right (`Phase`). One lemma for each status goes on to the next; `ParamsRead` is what
  `get_params` finds in the buffer: the names and values of any number of parameters, as long as
  they fit into `t_content`.

  Its last part is about `RedisClient`. `HeldIsAlive` says both that a held object is there and
  that it goes with its last holder; it needs that the count is the number of
  holders (`CountExact`); `FreedOnce` needs that a live object has a freed context only after a failed connect
  (`Dangling`). These two are proved and have no run.

Only model-checked: all liveness properties (TLAPS cannot prove properties under
fairness), the safety of `StageStart`, `CutsDecide` of `HttpRequest`, which compares all ways to
cut a request with the good ones and would need a phase for each of them, and everything about
`MqWire`, which folds a checksum over a message: what a recursive definition computes for every
input is not in the prover's reach.

### Not modelled

- ZeroMQ, epoll, TCP, hiredis and POSIX threads are external and modelled by how the code uses
  them.
- Payload bytes of a stage: `IElement` copies at most 255 bytes and stops at a NUL. The socket
  shared by the workers' `zmq_send` calls, whose misuse is inside the library.
- Process set-up: the forks in `main`, daemonizing, sockets that cannot be bound, failures that
  abort the process.
- The paths that the macros leave out (`writeBody` and closing after each answer in `acceptor`),
  `find_rank`, and functions nothing calls.
- The message-queue client's receive thread and the life of the object in `test_mq_client.cpp`
  (the destructor joins a thread that only the end of the server stops); its sending side is
  part of `MqServer` and `MqWire`.
- `checkCache`: no built program puts anything into the tree it looks into.
- Lengths: lines longer than `LOG_LEN`, URLs longer than `url[64]`, messages of more than
  `BUFSIZE` bytes. `buffer::expand` is called for texts from 683 bytes on; it copies
  nothing, as `_len` is 0, and what it drops is what the same push would overwrite.
- The seda registry: `stage_message`'s constructor is declared and not defined, so a program
  that adds an edge does not link, `msgExist2Stages` compares fresh pointers, and `stage::run` is
  an endless loop without a body.
- `config` returns before it reads anything; `event_core`, `loop`, `socket` and `tcp_server` are
  unfinished and not built; `slab_system`, `http_response` and `acceptor_stage` are stubs;
  `utiltools` is a hash that nothing depends on being good.

## 3. Plan

1. Proofs: the safety of `StageStart`.
2. The composition of `Acceptor` with the task queue step by step, in place of one step per
   push and pop, and with `HttpRequest`, in place of "finished or not".
3. The receive thread of the message-queue client, and TLC instances of `RedisClient` and of
   `WorkerPool` with endless tasks and several clients.
