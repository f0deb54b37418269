---------------------------- MODULE RedisClient ----------------------------
(***************************************************************************)
(* redisClient (redis_client.cpp) and the reference count it inherits from *)
(* sedaObject (seda_object.cpp): one object, made with new redisClient(),  *)
(* which sets every member to zero, and the holders that share it.         *)
(*                                                                         *)
(* connect and command come in any order, and connections fail.  A holder  *)
(* takes a reference with incrRefCount and gives it back once; whoever     *)
(* uses the object holds one, or is the code that created it and has not   *)
(* yet shared it.  Using or freeing a context that was freed sets ub and   *)
(* ends the behaviour.                                                     *)
(*                                                                         *)
(* Contexts and replies are what hiredis allocates.  NULL, number 0, may   *)
(* be passed to redisFree and to freeReplyObject.                          *)
(***************************************************************************)
EXTENDS Integers, FiniteSets

CONSTANTS
    Holder,
    MaxContexts,      \* bounds of the model: how often redisConnect
    MaxReplies        \* and redisCommand are called

VARIABLES
    alive,       \* the object has not been deleted
    refcount,
    c, ptr,      \* the members: the context and the last reply
    holders,     \* who holds a reference
    context,     \* context[i]: "unused", "open", "error" or "freed"
    reply,       \* reply[i]: "unused", "made" or "freed"
    failed,      \* a connect has failed
    shared,      \* history: somebody has taken a reference
    reset,       \* resetRefcount was called
    ub

vars == <<alive, refcount, c, ptr, holders, context, reply, failed, shared, reset, ub>>

hiredis == <<c, ptr, context, reply, failed>>

NULL == 0
Context == 1 .. MaxContexts
Reply == 1 .. MaxReplies

Init ==
    /\ alive = TRUE /\ refcount = 0
    /\ c = NULL /\ ptr = NULL
    /\ holders = {}
    /\ context = [i \in Context |-> "unused"]
    /\ reply = [i \in Reply |-> "unused"]
    /\ failed = FALSE /\ shared = FALSE /\ reset = FALSE /\ ub = FALSE

(* redisFree, and whether it goes wrong *)
redisFree(contexts, i) ==
    IF i = NULL THEN contexts ELSE [contexts EXCEPT ![i] = "freed"]
IsFreed(i) == i # NULL /\ context[i] = "freed"

(* Somebody is entitled to use the object. *)
InUse == alive /\ (holders # {} \/ refcount = 0)

-----------------------------------------------------------------------------
(* sedaObject *)
incrRefCount(h) ==
    /\ InUse /\ h \notin holders
    /\ refcount' = refcount + 1
    /\ holders' = holders \cup {h} /\ shared' = TRUE
    /\ UNCHANGED <<alive, hiredis, reset, ub>>

(* resetRefcount, which nothing in the repository calls *)
resetRefcount ==
    /\ InUse
    /\ refcount' = 0 /\ reset' = TRUE
    /\ UNCHANGED <<alive, hiredis, holders, shared, ub>>

(* ~redisClient *)
Destroy ==
    /\ reply' = IF ptr = NULL THEN reply ELSE [reply EXCEPT ![ptr] = "freed"]
    /\ context' = redisFree(context, c)
    /\ ub' = IsFreed(c)

(* delete this, with the last reference; a count of zero stays zero. *)
Last(n) == n = 1
Decr(n) == IF n <= 0 THEN n ELSE n - 1
decrRefCount(h) ==
    /\ alive /\ h \in holders
    /\ holders' = holders \ {h}
    /\ \/ /\ Last(refcount)
          /\ alive' = FALSE
          /\ Destroy
          /\ UNCHANGED refcount
       \/ /\ ~ Last(refcount)
          /\ refcount' = Decr(refcount)
          /\ UNCHANGED <<alive, context, reply, ub>>
    /\ UNCHANGED <<c, ptr, failed, shared, reset>>
UseDeleted ==
    /\ ~ alive /\ holders # {}
    /\ ub' = TRUE
    /\ UNCHANGED <<alive, refcount, hiredis, holders, shared, reset>>

-----------------------------------------------------------------------------
(* connect: the context that c had before is not freed. *)
ConnectNull ==
    /\ InUse
    /\ c' = NULL /\ failed' = TRUE
    /\ UNCHANGED <<alive, refcount, ptr, holders, context, reply, shared, reset, ub>>
ConnectError(i) ==
    /\ InUse /\ context[i] = "unused"
    /\ c' = i /\ failed' = TRUE
    /\ context' = redisFree([context EXCEPT ![i] = "error"], i)
    /\ UNCHANGED <<alive, refcount, ptr, holders, reply, shared, reset, ub>>
Connect(i) ==
    /\ InUse /\ context[i] = "unused"
    /\ c' = i
    /\ context' = [context EXCEPT ![i] = "open"]
    /\ UNCHANGED <<alive, refcount, ptr, holders, reply, failed, shared, reset, ub>>

(* command: the reply before this one is forgotten.  redisCommand returns  *)
(* NULL when the connection breaks.  Without a context command changes     *)
(* nothing; that c points to a context that was freed it cannot see.       *)
Command(r) ==
    /\ InUse /\ c # NULL
    /\ ub' = IsFreed(c)
    /\ \/ ptr' = r /\ reply' = [reply EXCEPT ![r] = "made"]
       \/ ptr' = NULL /\ UNCHANGED reply
    /\ UNCHANGED <<alive, refcount, c, holders, context, failed, shared, reset>>

RefCount == resetRefcount \/ UseDeleted \/ \E h \in Holder : incrRefCount(h) \/ decrRefCount(h)
Client ==
    \/ ConnectNull
    \/ \E i \in Context : Connect(i) \/ ConnectError(i)
    \/ \E r \in {r \in Reply : reply[r] = "unused"} : Command(r)

Next == ~ ub /\ (RefCount \/ Client)

Spec == Init /\ [][Next]_vars

-----------------------------------------------------------------------------
TypeOK ==
    /\ alive \in BOOLEAN /\ refcount \in Nat
    /\ c \in Context \cup {NULL} /\ ptr \in Reply \cup {NULL}
    /\ holders \subseteq Holder
    /\ context \in [Context -> {"unused", "open", "freed"}]
    /\ reply \in [Reply -> {"unused", "made", "freed"}]
    /\ failed \in BOOLEAN /\ shared \in BOOLEAN /\ reset \in BOOLEAN /\ ub \in BOOLEAN

(* Whatever the order in which references are taken and given back, the    *)
(* object is there until somebody takes one and for whoever holds one, and *)
(* not a step longer: it is deleted with the last (seda_object.cpp:14).    *)
(* Only resetRefcount breaks this.                                         *)
HeldIsAlive ==
    ~ reset => (alive <=> holders # {} \/ ~ shared)

(* However connect, command and the destructor follow one another, a freed *)
(* context is used or freed again only if some connect failed              *)
(* (redis_client.cpp:18) or resetRefcount made the count useless.          *)
FreedOnce == ub => failed \/ reset
=============================================================================
