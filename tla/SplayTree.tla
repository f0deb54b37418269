------------------------------ MODULE SplayTree ------------------------------
(***************************************************************************)
(* The top-down splay tree with size fields (splaytree.c), loop iteration  *)
(* by loop iteration, for a caller that keeps the root it returns, as the  *)
(* test program does (checkCache of http_server.cpp does not).             *)
(*                                                                         *)
(* A node is named by its key.  The two halves of the code mirror each     *)
(* other, so the fields left and right are one function child[d] of a      *)
(* direction d, and the locals r and l are tail["left"] and tail["right"]: *)
(* going left of t moves t to the tree that hangs on the left of r.        *)
(* N is the header on splaytree_splay's stack.  Keys are so close together *)
(* that compare(i, j), a difference of two ints, does not overflow.        *)
(***************************************************************************)
EXTENDS Integers, FiniteSets

CONSTANTS
    Key,              \* the keys, integers
    Null, N,          \* the null pointer and splaytree_splay's header
    Ops               \* what callers do

ASSUME SplayAssumption ==
    /\ Key \subseteq Int /\ Null \notin Key /\ N \notin Key /\ N # Null
    /\ Ops \subseteq {"splay", "insert", "delete"}

VARIABLES
    child,       \* child[d][n]: n's left or right
    size,        \* size[n]: "maintained to be the number of nodes rooted here"
    mem,         \* the nodes malloc gave and free has not taken back
    root,        \* what the caller keeps
    pc,          \* the step the current operation is at
    op,          \* the operation and its key, i
    t,           \* splaytree_splay's t
    tail,        \* tail["left"] is its r, tail["right"] its l
    acc,         \* acc["left"] is its r_size, acc["right"] its l_size
    y,           \* its y, in the loops that correct sizes
    gone,        \* the node splaytree_delete is about to free, or Null
    tsize,       \* splaytree_delete's tsize
    keys         \* history: the keys that should be in the tree

vars == <<child, size, mem, root, pc, op, t, tail, acc, y, gone, tsize, keys>>
splaying == <<tail, acc, y>>
caller == <<mem, root, op, keys, tsize>>

Dir == {"left", "right"}
Other(d) == IF d = "left" THEN "right" ELSE "left"

compare(i, j) == i - j
splaytree_size(n) == IF n = Null THEN 0 ELSE size[n]

(* Where to look for i from node n. *)
Toward(n) == IF compare(op.key, n) < 0 THEN "left" ELSE "right"
Found(n) == compare(op.key, n) = 0
AtRoot == t # Null /\ Found(t)

-----------------------------------------------------------------------------
Init ==
    /\ child = [d \in Dir |-> [n \in Key \cup {N} |-> Null]]
    /\ size = [n \in Key |-> 0]
    /\ mem = {} /\ keys = {}
    /\ root = Null /\ t = Null /\ y = Null /\ gone = Null
    /\ pc = "idle" /\ op \in [name : Ops, key : Key]
    /\ tail = [d \in Dir |-> N] /\ acc = [d \in Dir |-> 0]
    /\ tsize = 0

(* splaytree_splay up to its loop; on NULL it returns at once. *)
Splay(n) ==
    /\ t' = n /\ y' = Null
    /\ child' = [d \in Dir |-> [child[d] EXCEPT ![N] = Null]]
    /\ tail' = [d \in Dir |-> N]
    /\ acc' = [d \in Dir |-> 0]
    /\ pc' = IF n = Null THEN "return" ELSE "loop"

(* A caller starts an operation. *)
Call(o, i) ==
    /\ pc = "idle"
    /\ op' = [name |-> o, key |-> i]
    /\ keys' = CASE o = "insert" -> keys \cup {i}
                 [] o = "delete" -> keys \ {i}
                 [] OTHER -> keys
    /\ tsize' = IF o = "delete" THEN splaytree_size(root) ELSE tsize
    /\ Splay(root)
    /\ UNCHANGED <<size, mem, root, gone>>

(* Going left and left again, or right and right: rotate t below its       *)
(* child.  The mutant forgets that the size of t has changed.              *)
NotResized(n, s) == size
Resized(n, s) == [size EXCEPT ![n] = s]
Rotate ==
    /\ pc = "loop" /\ ~ Found(t)
    /\ LET d == Toward(t)
           c == child[d][t]
           inner == child[Other(d)][c]
       IN  /\ c # Null /\ ~ Found(c) /\ Toward(c) = d
           /\ child' = [child EXCEPT ![d][t] = inner, ![Other(d)][c] = t]
           /\ size' = Resized(t, splaytree_size(inner)
                                   + splaytree_size(child[Other(d)][t]) + 1)
           /\ t' = c
    /\ pc' = "link"
    /\ UNCHANGED <<caller, splaying, gone>>

(* Link right or link left: t goes to the end of the other tree, and is    *)
(* the end from then on; the mutant keeps the old end.                     *)
EndsKept(d) == tail
Ends(d) == [tail EXCEPT ![d] = t]
CanLink ==
    /\ pc \in {"loop", "link"} /\ ~ Found(t) /\ child[Toward(t)][t] # Null
    /\ LET c == child[Toward(t)][t]
       IN  pc = "loop" => Found(c) \/ Toward(c) # Toward(t)
Link ==
    /\ CanLink
    /\ LET d == Toward(t)
       IN  /\ child' = [child EXCEPT ![d][tail[d]] = t]
           /\ tail' = Ends(d)
           /\ acc' = [acc EXCEPT ![d] = @ + 1 + splaytree_size(child[Other(d)][t])]
           /\ t' = child[d][t]
    /\ pc' = "loop"
    /\ UNCHANGED <<caller, size, y, gone>>

(* l->right = r->left = NULL: until then they point into t's tree. *)
Cut == [d \in Dir |-> [child[d] EXCEPT ![tail[d]] = Null]]

(* break, and the sizes of the two trees: t's own subtrees will join them. *)
(* The mutant stops one node early.                                        *)
StopEarly == Found(t) \/ \A c \in {child[Toward(t)][t]} \ {Null} : child[Toward(t)][c] = Null
Stop == Found(t) \/ child[Toward(t)][t] = Null
Break ==
    /\ pc \in {"loop", "link"} /\ Stop
    /\ LET sum == [d \in Dir |-> acc[d] + splaytree_size(child[Other(d)][t])]
       IN  /\ acc' = sum
           /\ size' = [size EXCEPT ![t] = sum["left"] + sum["right"] + 1]
    /\ child' = Cut
    /\ y' = Cut["right"][N]
    /\ pc' = "right"
    /\ UNCHANGED <<caller, t, tail, gone>>

(* The two loops that correct the size fields along N.right, then N.left.  *)
(* The mutant begins the first loop again.                                 *)
Rest(d) == acc[d] - (1 + splaytree_size(child[Other(d)][y]))
Correct ==
    /\ pc \in Dir /\ y # Null
    /\ size' = [size EXCEPT ![y] = acc[pc]]
    /\ acc' = [acc EXCEPT ![pc] = Rest(pc)]
    /\ y' = child[pc][y]
    /\ UNCHANGED <<caller, child, pc, t, tail, gone>>
FirstLoopAgain ==
    /\ pc = "right" /\ y = Null
    /\ y' = child["right"][N]
    /\ UNCHANGED <<caller, child, size, pc, t, tail, acc, gone>>
SecondLoop ==
    /\ pc = "right" /\ y = Null
    /\ y' = child["left"][N]
    /\ pc' = "left"
    /\ UNCHANGED <<caller, child, size, t, tail, acc, gone>>

(* assemble, and return t.  l->right and r->left are written before        *)
(* t->left and t->right are; the mutant has it the other way round.        *)
JoinedLate == [d \in Dir |-> [child[d] EXCEPT ![t] = child[Other(d)][N],
                                             ![tail[d]] = child[d][N]]]
Joined == LET ends == [d \in Dir |-> [child[d] EXCEPT ![tail[d]] = child[Other(d)][t]]]
          IN  [d \in Dir |-> [ends[d] EXCEPT ![t] = ends[Other(d)][N]]]
Assemble ==
    /\ pc = "left" /\ y = Null
    /\ child' = Joined
    /\ pc' = "return"
    /\ UNCHANGED <<caller, size, t, splaying, gone>>

-----------------------------------------------------------------------------
(* The operation ends with these pointers and the caller has n; the locals *)
(* and the fields of nodes that are free no longer matter.                 *)
Done(n, heap) ==
    /\ pc' = "idle" /\ t' = n /\ root' = n
    /\ child' = [d \in Dir |-> [x \in Key \cup {N} |-> IF x \in mem' THEN heap[d][x] ELSE Null]]
    /\ tail' = [d \in Dir |-> N] /\ acc' = [d \in Dir |-> 0]
    /\ tsize' = 0 /\ gone' = Null
    /\ UNCHANGED <<op, y, keys>>

Returning(o) == pc = "return" /\ op.name = o
ReturnSplay ==
    /\ Returning("splay")
    /\ UNCHANGED <<size, mem>>
    /\ Done(t, child)

(* splaytree_insert, of a key that is there, and of one that is not. *)
InsertPresent ==
    /\ Returning("insert") /\ AtRoot
    /\ UNCHANGED <<size, mem>>
    /\ Done(t, child)
Insert ==
    /\ Returning("insert") /\ ~ AtRoot
    /\ LET i == op.key
           d == Toward(t)
           outer == child[d][t]
           below == 1 + splaytree_size(child[Other(d)][t])
       IN  /\ mem' = mem \cup {i}
           /\ IF t = Null
              THEN /\ size' = [size EXCEPT ![i] = 1]
                   /\ Done(i, [e \in Dir |-> [child[e] EXCEPT ![i] = Null]])
              ELSE /\ size' = [size EXCEPT ![t] = below,
                                           ![i] = 1 + splaytree_size(outer) + below]
                   /\ Done(i, [child EXCEPT ![d][i] = outer, ![d][t] = Null,
                                            ![Other(d)][i] = t])

(* splaytree_delete: the key is not there; it is, and has nothing on its   *)
(* left; or the left subtree is splayed for it and takes over the right    *)
(* one.  x->size is what the root's was before, less one.                  *)
DeleteAbsent ==
    /\ Returning("delete") /\ gone = Null /\ ~ AtRoot
    /\ UNCHANGED <<size, mem>>
    /\ Done(t, child)
Free(n, x, heap) ==
    /\ mem' = mem \ {n}
    /\ size' = [k \in Key |-> CASE k = x -> tsize - 1 [] k = n -> 0 [] OTHER -> size[k]]
    /\ Done(x, heap)
DeleteNoLeft ==
    /\ Returning("delete") /\ gone = Null /\ AtRoot /\ child["left"][t] = Null
    /\ Free(t, child["right"][t], child)
DeleteSplayLeft ==
    /\ Returning("delete") /\ gone = Null /\ AtRoot /\ child["left"][t] # Null
    /\ gone' = t
    /\ Splay(child["left"][t])
    /\ UNCHANGED <<caller, size>>
DeleteJoin ==
    /\ Returning("delete") /\ gone # Null
    /\ Free(gone, t, [child EXCEPT !["right"][t] = child["right"][gone]])

Next ==
    \/ \E o \in Ops, i \in Key : Call(o, i)
    \/ Rotate \/ Link \/ Break \/ Correct \/ SecondLoop \/ Assemble
    \/ ReturnSplay \/ InsertPresent \/ Insert
    \/ DeleteAbsent \/ DeleteNoLeft \/ DeleteSplayLeft \/ DeleteJoin

Spec == Init /\ [][Next]_vars

(* The caller's thread runs until its operation returns. *)
FairSpec == Spec /\ WF_vars(pc # "idle" /\ Next)

-----------------------------------------------------------------------------
(* The types of the fields and locals, pointers being nodes or Null. *)
TypeOK ==
    /\ child \in [Dir -> [Key \cup {N} -> Key \cup {Null}]]
    /\ size \in [Key -> Nat] /\ acc \in [Dir -> Nat] /\ tsize \in Nat
    /\ mem \subseteq Key /\ keys \subseteq Key
    /\ {root, t, y, gone} \subseteq Key \cup {Null}
    /\ tail \in [Dir -> Key \cup {N}]
    /\ pc \in {"idle", "loop", "link", "return"} \cup Dir
    /\ op \in [name : Ops, key : Key]

(* The nodes at or below n in a heap, however the pointers run: what every *)
(* set has that has n and, with a node, its children.                      *)
Reach(heap, n) ==
    LET closed == {C \in SUBSET Key : /\ n \in C \cup {Null}
                                      /\ \A x \in C : \A d \in Dir : heap[d][x] \in C \cup {Null}}
    IN  {x \in Key : \A C \in closed : x \in C}
Below(n) == Reach(child, n)

(* Every node below n has smaller keys on its left and larger on its right,*)
(* from which it follows that no node is reached along two ways.           *)
Ordered(n) ==
    \A x \in Below(n) : /\ \A a \in Below(child["left"][x]) : a < x
                        /\ \A b \in Below(child["right"][x]) : x < b

(* Between two operations the caller's pointer leads to exactly the keys   *)
(* inserted and not deleted, in a search tree, and no other node is left   *)
(* allocated: no rotation, link or join loses a subtree.                   *)
HoldsTheKeys == pc = "idle" => Below(root) = keys /\ mem = keys /\ Ordered(root)

(* Between two operations every size field is the number of nodes rooted   *)
(* there (splaytree.h:8), although the loop leaves those of the two side   *)
(* trees wrong and corrects them afterwards along one path each.           *)
SizesExact == pc = "idle" => \A n \in Below(root) : size[n] = Cardinality(Below(n))

(* The tree a splay works on: all of it, or what is left of the key that   *)
(* splaytree_delete is about to free.                                      *)
Whole == IF gone = Null THEN mem ELSE {k \in mem : k < gone}

(* In every iteration the nodes are split into the tree below t and the    *)
(* trees on either side, whose ends still hold old pointers; those on the  *)
(* left are smaller than the key looked for and than t's tree, those on    *)
(* the right larger.                                                       *)
SplitInOrder ==
    pc \in {"loop", "link"} =>
      LET mid == Below(t)
          lt == Reach(Cut, Cut["right"][N])
          rt == Reach(Cut, Cut["left"][N])
      IN  /\ lt \cup mid \cup rt = Whole
          /\ Ordered(t)
          /\ \A a \in lt : a < op.key /\ \A k \in mid : a < k
          /\ \A b \in rt : op.key < b /\ \A k \in mid : k < b

(* A splay brings the key to the root if it is there, and a neighbour of   *)
(* it otherwise (splaytree.c:33): insert splits the tree at that node.     *)
KeyOrNeighbour ==
    pc = "return" /\ t # Null =>
      IF op.key \in Whole THEN t = op.key
      ELSE \A k \in Whole : ~ (op.key < k /\ k < t) /\ ~ (t < k /\ k < op.key)

(* Every operation returns: the loops that follow pointers they are        *)
(* changing come to an end.                                                *)
OperationReturns == pc # "idle" ~> pc = "idle"

=============================================================================
