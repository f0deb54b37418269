---------------------------- MODULE BoundedFifo ----------------------------
(***************************************************************************)
(* What mutex_task_queue promises its callers, with no mutex, no condition *)
(* variable and no flag: a bounded FIFO whose push and pop take effect     *)
(* atomically, once, at some moment between the call and the return.  A    *)
(* push takes effect only while there is room, a pop only while there is   *)
(* an element.  TaskQueue.tla, which models the code, implements it.       *)
(***************************************************************************)
EXTENDS Naturals, Sequences

CONSTANTS Producers, Consumers, Elements, Capacity, None

VARIABLES
    buf,    \* the elements in the queue, oldest first
    op,     \* op[t]: the call thread t is in
    val     \* val[t]: push's argument until it is queued, then pop's result

vars == <<buf, op, val>>

Thread == Producers \cup Consumers

Init ==
    /\ buf = <<>>
    /\ op = [t \in Thread |-> "idle"]
    /\ val = [t \in Thread |-> None]

CallPush(t, e) ==
    /\ op[t] = "idle"
    /\ op' = [op EXCEPT ![t] = "push"]
    /\ val' = [val EXCEPT ![t] = e]
    /\ UNCHANGED buf

CallPop(t) ==
    /\ op[t] = "idle"
    /\ op' = [op EXCEPT ![t] = "pop"]
    /\ val' = [val EXCEPT ![t] = None]
    /\ UNCHANGED buf

(* The mutant pushes whether or not there is room. *)
PutAnyway(t) ==
    /\ op[t] = "push"
    /\ buf' = Append(buf, val[t])
    /\ op' = [op EXCEPT ![t] = "idle"]
    /\ val' = [val EXCEPT ![t] = None]
Put(t) ==
    /\ op[t] = "push"
    /\ Len(buf) < Capacity
    /\ buf' = Append(buf, val[t])
    /\ op' = [op EXCEPT ![t] = "idle"]
    /\ val' = [val EXCEPT ![t] = None]

Get(t) ==
    /\ op[t] = "pop"
    /\ buf # <<>>
    /\ buf' = Tail(buf)
    /\ op' = [op EXCEPT ![t] = "idle"]
    /\ val' = [val EXCEPT ![t] = Head(buf)]

Next ==
    \/ \E p \in Producers : \/ \E e \in Elements : CallPush(p, e)
                            \/ Put(p)
    \/ \E c \in Consumers : CallPop(c) \/ Get(c)

Spec == Init /\ [][Next]_vars
=============================================================================
