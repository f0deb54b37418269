--------------------------------- MODULE Log ---------------------------------
(***************************************************************************)
(* LogUtil (log.h, log.cpp): any thread logs with debug, which ends in     *)
(* write_log; a line is queued for the log thread if is_async, and written *)
(* by the caller if not.  The queue is TaskQueue.tla, step by step.        *)
(*                                                                         *)
(* async_lock covers the test of is_async only, so locking, reading and    *)
(* unlocking is one step, and the line is on its way after it whatever     *)
(* set_async does next.  stop is called once, by a thread of its own; it   *)
(* deletes the queue, and a writer that then enters push or is still in it *)
(* has undefined behaviour, with which the behaviour ends (ub).            *)
(*                                                                         *)
(* A line is its writer and its number; its text, its level and the way    *)
(* debug finds room for it are left out.  The file is opened: init returns *)
(* before it creates the thread if it cannot.  Wake-ups without a signal   *)
(* are part of TaskQueue.tla, and send a caller back to sleep at once.     *)
(***************************************************************************)
EXTENDS Naturals, Sequences, FiniteSets, SequencesExt

CONSTANTS
    Writers, LogThread,
    MaxLines,         \* bound of the model: the lines a writer logs
    Switching,        \* TRUE if somebody calls set_async
    Stopping,         \* TRUE if somebody calls stop
    max_queue_size, None

Line == [by : Writers, n : 1 .. MaxLines]

ASSUME LogAssumption ==
    /\ MaxLines \in Nat /\ max_queue_size \in Nat \ {0}
    /\ LogThread \notin Writers /\ Writers # {}
    /\ None \notin Writers \cup {LogThread} /\ None \notin Line
    /\ {Switching, Stopping} \subseteq BOOLEAN

VARIABLES
    queue, empty, full, queue_mutex, qpc, val,   \* tq
    is_async, running,
    wpc,         \* wpc[w]: where writer w is in write_log
    count,       \* count[w]: the lines w has begun to log
    lpc,         \* where the log thread is in log_from_queue
    spc,         \* where stop is
    output,      \* what was written to output_fd
    switched,    \* history: is_async has been changed
    ub

tqvars == <<queue, empty, full, queue_mutex, qpc, val>>
flags == <<is_async, running, switched>>
vars == <<tqvars, flags, wpc, count, lpc, spc, output, ub>>

tq == INSTANCE TaskQueue WITH
          Producers <- Writers, Consumers <- {LogThread}, Elements <- Line

Current(w) == [by |-> w, n |-> count[w]]

-----------------------------------------------------------------------------
(* The statics, and init: the log thread is created because is_async. *)
Init ==
    /\ tq!Init
    /\ is_async = TRUE /\ running = TRUE /\ switched = FALSE
    /\ wpc = [w \in Writers |-> "idle"]
    /\ count = [w \in Writers |-> 0]
    /\ lpc = "loop" /\ spc = "before"
    /\ output = <<>>
    /\ ub = FALSE

(* debug calls write_log, which looks at is_async under async_lock.  The   *)
(* mutant writes by itself when it sees the queue full.                    *)
write_logIfRoom(w) ==
    /\ wpc[w] = "idle" /\ count[w] < MaxLines
    /\ count' = [count EXCEPT ![w] = @ + 1]
    /\ wpc' = [wpc EXCEPT ![w] = IF is_async /\ ~ full THEN "push" ELSE "write"]
    /\ UNCHANGED <<tqvars, flags, lpc, spc, output, ub>>
write_log(w) ==
    /\ wpc[w] = "idle" /\ count[w] < MaxLines
    /\ count' = [count EXCEPT ![w] = @ + 1]
    /\ wpc' = [wpc EXCEPT ![w] = IF is_async THEN "push" ELSE "write"]
    /\ UNCHANGED <<tqvars, flags, lpc, spc, output, ub>>

(* tq->push(alc), step by step.  push may not be entered, nor gone on      *)
(* with, once the queue is deleted.                                        *)
PushCall(w) ==
    /\ wpc[w] = "push"
    /\ tq!PushCall(w, Current(w))
    /\ wpc' = [wpc EXCEPT ![w] = "pushing"]
    /\ ub' = (spc = "deleted")
    /\ UNCHANGED <<flags, count, lpc, spc, output>>
Push(w) ==
    /\ wpc[w] = "pushing"
    /\ tq!Push(w)
    /\ wpc' = [wpc EXCEPT ![w] = "idle"]
    /\ ub' = (spc = "deleted")
    /\ UNCHANGED <<flags, count, lpc, spc, output>>
Advance(t) ==
    /\ tq!Advance(t)
    /\ ub' = (spc = "deleted")
    /\ UNCHANGED <<flags, wpc, count, lpc, spc, output>>

(* write(output_fd, log) by the writer itself. *)
WriteSync(w) ==
    /\ wpc[w] = "write"
    /\ output' = Append(output, Current(w))
    /\ wpc' = [wpc EXCEPT ![w] = "idle"]
    /\ UNCHANGED <<tqvars, flags, count, lpc, spc, ub>>

(* log_from_queue: while (running) pop and write.  The mutant tests        *)
(* running again before it writes.                                         *)
LogLoop ==
    /\ lpc = "loop"
    /\ IF running THEN tq!PopCall(LogThread) /\ lpc' = "pop"
                  ELSE lpc' = "ended" /\ UNCHANGED tqvars
    /\ UNCHANGED <<flags, wpc, count, spc, output, ub>>
LogPop ==
    /\ lpc = "pop"
    /\ tq!Pop(LogThread)
    /\ lpc' = "write"
    /\ UNCHANGED <<flags, wpc, count, spc, output, ub>>
LogWriteIfRunning ==
    /\ lpc = "write"
    /\ output' = IF running THEN Append(output, val[LogThread]) ELSE output
    /\ lpc' = "loop"
    /\ UNCHANGED <<tqvars, flags, wpc, count, spc, ub>>
LogWrite ==
    /\ lpc = "write"
    /\ output' = Append(output, val[LogThread])
    /\ lpc' = "loop"
    /\ UNCHANGED <<tqvars, flags, wpc, count, spc, ub>>

set_async(async) ==
    /\ Switching /\ is_async # async
    /\ is_async' = async /\ switched' = TRUE
    /\ UNCHANGED <<tqvars, running, wpc, count, lpc, spc, output, ub>>

(* stop: running = false; pthread_join if is_async; delete tq. *)
StopRunning ==
    /\ Stopping /\ spc = "before"
    /\ running' = FALSE
    /\ spc' = IF is_async THEN "join" ELSE "delete"
    /\ UNCHANGED <<tqvars, is_async, switched, wpc, count, lpc, output, ub>>
StopJoin ==
    /\ spc = "join" /\ lpc = "ended"
    /\ spc' = "delete"
    /\ UNCHANGED <<tqvars, flags, wpc, count, lpc, output, ub>>
StopDelete ==
    /\ spc = "delete"
    /\ spc' = "deleted"
    /\ ub' = \/ lpc = "pop"
             \/ \E w \in Writers : qpc[w] \in tq!PushPC
    /\ UNCHANGED <<tqvars, flags, wpc, count, lpc, output>>

Writer(w) == PushCall(w) \/ Push(w) \/ Advance(w) \/ WriteSync(w)
Logger == LogLoop \/ LogPop \/ LogWrite \/ Advance(LogThread)
Stop == StopRunning \/ StopJoin \/ StopDelete

Next == ~ ub /\ \/ \E w \in Writers : write_log(w) \/ Writer(w)
                \/ Logger \/ Stop
                \/ \E async \in BOOLEAN : set_async(async)

Spec == Init /\ [][Next]_vars

(* Threads run; nothing makes a thread log, switch or begin to stop. *)
FairSpec ==
    /\ Spec
    /\ \A w \in Writers : WF_vars(~ ub /\ Writer(w))
    /\ WF_vars(~ ub /\ Logger)
    /\ WF_vars(~ ub /\ (StopJoin \/ StopDelete))

-----------------------------------------------------------------------------
(* The lines begun are lines, and the threads are at places of theirs. *)
TypeOK ==
    /\ tq!TypeOK
    /\ {is_async, running, switched, ub} \subseteq BOOLEAN
    /\ wpc \in [Writers -> {"idle", "push", "pushing", "write"}]
    /\ count \in [Writers -> 0 .. MaxLines]
    /\ lpc \in {"loop", "pop", "write", "ended"}
    /\ spc \in {"before", "join", "delete", "deleted"}
    /\ output \in Seq(Line)

Begun == {l \in Line : l.n <= count[l.by]}

(* However set_async and stop come in between, a line is in one place: its *)
(* writer has it, the queue, the log thread, or the file, once.  The only  *)
(* lines that never reach the file are those in the queue at stop.         *)
EachLineInOnePlace ==
    LET held == {l \in Begun : wpc[l.by] # "idle" /\ l = Current(l.by)}
        popped == IF lpc = "write" THEN {val[LogThread]} ELSE {}
        places == <<held, ToSet(queue), popped, ToSet(output)>>
    IN  ~ ub => /\ Begun = UNION ToSet(places)
                /\ \A i, j \in 1 .. 4 : i # j => places[i] \cap places[j] = {}
                /\ IsInjective(output)

(* A writer's lines are in the file in the order in which it logged them,  *)
(* until somebody calls set_async: a line written directly overtakes those *)
(* that wait in the queue.                                                 *)
WriterOrder ==
    ~ switched => \A i, j \in DOMAIN output :
        i < j /\ output[i].by = output[j].by => output[i].n < output[j].n

(* With any number of writers, a line in the queue gets into the file: a   *)
(* writer may be left asleep in push, because pop wakes only one of them,  *)
(* but never the log thread while there is something to write.             *)
QueuedLineWritten ==
    \A l \in Line : l \in ToSet(queue) ~> l \in ToSet(output) \/ ~ running \/ ub

(* stop returns unless it finds the log thread in pop with nothing to pop, *)
(* where nobody wakes it (log.cpp:33): at any other place of its loop, or  *)
(* with a line in the queue, it comes to see that running was cleared.     *)
StopReturnsUnlessIdle ==
    spc = "join" /\ (lpc # "pop" \/ queue # <<>>) ~> spc = "deleted" \/ ub

=============================================================================
