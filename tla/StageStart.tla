----------------------------- MODULE StageStart -----------------------------
(***************************************************************************)
(* The start of a stage: runStage (main.cpp) and stage::init (stage.cpp).  *)
(* The main thread starts the worker pool, submits the three modules of    *)
(* the stage to it as tasks (the receiver rc, the stage_control sc, the    *)
(* stage_handler sh), and only then, back in runStage, sets the handler    *)
(* function that sh needs.  The pool is WorkerPool.tla with main as its    *)
(* only client; a module is a callback that keeps its worker for good,     *)
(* except that receiver::run returns when ZeroMQ cannot be reached, and    *)
(* stage_handler::run returns at once when it finds no function.           *)
(*                                                                         *)
(* stage_handler::fun is a Function, whose default constructor builds and  *)
(* discards a temporary and leaves the member f uninitialised: until       *)
(* setHandler it is null or any other value, as the heap has it.           *)
(***************************************************************************)
EXTENDS Integers, Sequences, FiniteSets

CONSTANTS Workers, max_queue_size, None

VARIABLES
    queue, empty, full, queue_mutex, qpc, val,
    wpc, statics_lock, running_num, loaded, fresh, deleted,   \* the pool wp
    mpc,    \* the next thing main does
    fun,    \* stage_handler::fun: "null", "garbage" or "handler"
    up      \* up[m]: is module m not begun, up, or returned

poolvars == <<queue, empty, full, queue_mutex, qpc, val,
              wpc, statics_lock, running_num, loaded, fresh, deleted>>
vars == <<poolvars, mpc, fun, up>>

Module == {"rc", "sc", "sh"}

wp == INSTANCE WorkerPool WITH
          Clients <- {"main"}, Task <- Module, Endless <- {}

-----------------------------------------------------------------------------
(* stage::init as far as wp->start(), stage_handler::stage_handler *)
Init ==
    /\ wp!Init
    /\ mpc = "rc"
    /\ fun \in {"null", "garbage"}
    /\ up = [m \in Module |-> "no"]

(* wp->run(func_rc); wp->run(fun_sc); wp->run(func_sh) *)
Submit(m, then) ==
    /\ mpc = m
    /\ wp!run("main", m)
    /\ mpc' = then
    /\ UNCHANGED <<fun, up>>

(* s.getHandler()->setHandler(fun), once stage::init has returned.         *)
SetHandler ==
    /\ mpc = "set" /\ qpc["main"] = "idle"
    /\ fun' = "handler"
    /\ mpc' = "spin"
    /\ UNCHANGED <<poolvars, up>>

(* A worker calls receiver::run or stage_control::run. *)
BeginLoop(w) ==
    /\ wpc[w] = "run" /\ val[w] \in {"rc", "sc"} /\ up[val[w]] = "no"
    /\ up' = [up EXCEPT ![val[w]] = "up"]
    /\ UNCHANGED <<poolvars, mpc, fun>>

(* A worker calls stage_handler::run. *)
BeginHandler(w) ==
    /\ wpc[w] = "run" /\ val[w] = "sh" /\ up["sh"] = "no"
    /\ up' = [up EXCEPT !["sh"] = IF fun = "null" THEN "returned" ELSE "up"]
    /\ UNCHANGED <<poolvars, mpc, fun>>

(* zmq_connect or zmq_setsockopt fails in receiver::run. *)
ReceiverFails ==
    /\ up["rc"] = "up"
    /\ up' = [up EXCEPT !["rc"] = "returned"]
    /\ UNCHANGED <<poolvars, mpc, fun>>

Return(w) ==
    /\ wpc[w] = "run" /\ up[val[w]] = "returned"
    /\ wp!Return(w)
    /\ UNCHANGED <<mpc, fun, up>>

(* The steps of the pool that leave the modules alone. *)
PoolStep(A) == A /\ UNCHANGED <<mpc, fun, up>>

Main ==
    \/ Submit("rc", "sc") \/ Submit("sc", "sh") \/ Submit("sh", "set")
    \/ SetHandler
    \/ PoolStep(wp!Client("main"))

Worker(w) ==
    PoolStep(wp!Worker(w)) \/ BeginLoop(w) \/ BeginHandler(w) \/ Return(w)

Wakeup == \E t \in Workers \cup {"main"} : PoolStep(wp!SpuriousWakeup(t))

Next == Main \/ (\E w \in Workers : Worker(w)) \/ ReceiverFails \/ Wakeup

Spec == Init /\ [][Next]_vars

(* All threads run when they can; POSIX does not promise the wake-ups that *)
(* nobody asked for, so they come to an end.                               *)
FairSpec ==
    /\ Spec
    /\ WF_vars(Main)
    /\ \A w \in Workers : WF_vars(Worker(w))
    /\ <>[][~Wakeup]_vars

-----------------------------------------------------------------------------
TypeOK ==
    /\ wp!TypeOK
    /\ mpc \in Module \cup {"set", "spin"}
    /\ fun \in {"null", "garbage", "handler"}
    /\ up \in [Module -> {"no", "up", "returned"}]

(* The receiver, the first module that is submitted, begins whatever the   *)
(* workers are doing at that moment: the queue was empty, so one is woken. *)
ReceiverBegins == <>(up["rc"] # "no")

(* Workers on their way to pop, and not asleep in it. *)
Awake == {w \in Workers : wpc[w] \in {"loop", "pop"} /\ qpc[w] # "pop_wait"}

(* The modules all begin if, when main is done, as many workers are on     *)
(* their way to pop as there are modules in the queue: workers that are    *)
(* awake need no signal.                                                   *)
AwakeWorkersSuffice ==
    (mpc = "spin" /\ Cardinality(Awake) >= Len(queue)) ~> (\A m \in Module : up[m] # "no")

(* What stage::init is for: each module of the stage begins. *)
AllModulesBegin == <>(\A m \in Module : up[m] # "no")

=============================================================================
