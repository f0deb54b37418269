-------------------------- MODULE SplayTreeProofs --------------------------
(***************************************************************************)
(* Proofs about SplayTree, for any set of keys: every operation of         *)
(* splaytree.c leaves a search tree of exactly the keys that should be in  *)
(* it, a splay brings the key, or a neighbour of it, to the root, and the  *)
(* size fields count the nodes below them.                                 *)
(*                                                                         *)
(* A tree is a pointer n into a heap: its nodes are Reach(heap, n), the    *)
(* least set that has n and is closed under the two fields, and it is a    *)
(* search tree if Ord(heap, n).  The code's steps are put together from    *)
(* four facts about such trees: what a node is made of (TreeParts,         *)
(* TreeNode), that writes elsewhere do not matter (Frame), and what        *)
(* hanging one tree on the end of another makes (Attach).  The sizes come  *)
(* second, from the local equation Sized of a node and its children.       *)
(***************************************************************************)
EXTENDS SplayTree, FiniteSetTheorems, WellFoundedInduction, TLAPS

Ptr == Key \cup {Null}
Heap == [Dir -> [Key \cup {N} -> Ptr]]

(* a is on the side d of b.                                                *)
Less(d, a, b) == IF d = "left" THEN a < b ELSE b < a

Ord(heap, n) ==
    \A x \in Reach(heap, n), d \in Dir : \A a \in Reach(heap, heap[d][x]) : Less(d, a, x)

(* The pointer n is a search tree with the nodes S.                        *)
Tree(heap, n, S) == Reach(heap, n) = S /\ Ord(heap, n)

Agree(heap1, heap2, S) == \A x \in S : \A d \in Dir : heap1[d][x] = heap2[d][x]

-----------------------------------------------------------------------------
(* What a pointer reaches: nothing from Null, itself, and with a node its  *)
(* children; and no more than any set that has it and its children does.   *)
LEMMA ReachClosed ==
    ASSUME NEW H \in Heap, NEW n \in Ptr
    PROVE  /\ Reach(H, n) \subseteq Key
           /\ n \in Reach(H, n) \cup {Null}
           /\ \A x \in Reach(H, n) : \A d \in Dir : H[d][x] \in Reach(H, n) \cup {Null}
<1> DEFINE Closed == {C \in SUBSET Key : /\ n \in C \cup {Null}
                                         /\ \A x \in C : \A d \in Dir : H[d][x] \in C \cup {Null}}
<1>1. Reach(H, n) = {x \in Key : \A C \in Closed : x \in C}
  BY DEF Reach
<1>2. n \in Reach(H, n) \cup {Null}
  BY <1>1 DEF Ptr
<1>3. ASSUME NEW x \in Reach(H, n), NEW d \in Dir
      PROVE  H[d][x] \in Reach(H, n) \cup {Null}
  <2>1. x \in Key /\ H[d][x] \in Ptr
    BY <1>1, <1>3 DEF Heap
  <2>2. \A C \in Closed : H[d][x] \in C \cup {Null}
    BY <1>1, <1>3
  <2> QED
    BY <1>1, <2>1, <2>2 DEF Ptr
<1> QED
  BY <1>1, <1>2, <1>3

LEMMA ReachLeast ==
    ASSUME NEW H \in Heap, NEW n \in Ptr, NEW C \in SUBSET Key,
           n \in C \cup {Null},
           \A x \in C : \A d \in Dir : H[d][x] \in C \cup {Null}
    PROVE  Reach(H, n) \subseteq C
BY DEF Reach

LEMMA ReachNull ==
    ASSUME NEW H \in Heap  PROVE Reach(H, Null) = {}
<1>1. PICK C \in SUBSET Key : C = {}
  OBVIOUS
<1>2. Null \in Ptr /\ Null \in C \cup {Null}
  BY DEF Ptr
<1>3. \A x \in C : \A d \in Dir : H[d][x] \in C \cup {Null}
  BY <1>1
<1>4. Reach(H, Null) \subseteq C
  BY <1>2, <1>3, ReachLeast
<1> QED
  BY <1>1, <1>4

(* The subtree of a node's child is part of the tree.                      *)
LEMMA ReachChild ==
    ASSUME NEW H \in Heap, NEW n \in Ptr, NEW x \in Reach(H, n), NEW d \in Dir
    PROVE  /\ x \in Key /\ H[d][x] \in Ptr
           /\ Reach(H, H[d][x]) \subseteq Reach(H, n)
<1>1. x \in Key /\ Reach(H, n) \in SUBSET Key
  BY ReachClosed
<1>2. H[d][x] \in Ptr
  BY <1>1 DEF Heap
<1>3. H[d][x] \in Reach(H, n) \cup {Null}
  BY ReachClosed
<1>4. \A z \in Reach(H, n) : \A e \in Dir : H[e][z] \in Reach(H, n) \cup {Null}
  BY ReachClosed
<1>5. Reach(H, H[d][x]) \subseteq Reach(H, n)
  BY <1>1, <1>2, <1>3, <1>4, ReachLeast
<1> QED
  BY <1>1, <1>2, <1>5

(* A node's tree is the node and the trees of its children.                *)
LEMMA ReachNode ==
    ASSUME NEW H \in Heap, NEW n \in Key, NEW d \in Dir
    PROVE  /\ H[d][n] \in Ptr /\ H[Other(d)][n] \in Ptr
           /\ Reach(H, n) = {n} \cup Reach(H, H[d][n]) \cup Reach(H, H[Other(d)][n])
<1>1. Other(d) \in Dir /\ Dir = {d, Other(d)} /\ n \in Ptr
  BY DEF Dir, Other, Ptr
<1>2. H[d][n] \in Ptr /\ H[Other(d)][n] \in Ptr
  BY <1>1 DEF Heap
<1>3. PICK A \in SUBSET Key : A = Reach(H, H[d][n])
  BY <1>2, ReachClosed
<1>4. PICK B \in SUBSET Key : B = Reach(H, H[Other(d)][n])
  BY <1>2, ReachClosed
<1>5. n \in Reach(H, n)
  BY <1>1, ReachClosed, SplayAssumption
<1>6. A \subseteq Reach(H, n) /\ B \subseteq Reach(H, n)
  BY <1>1, <1>3, <1>4, <1>5, ReachChild
<1>7. PICK C \in SUBSET Key : C = {n} \cup A \cup B
  OBVIOUS
<1>8. \A x \in A : \A e \in Dir : H[e][x] \in A \cup {Null}
  BY <1>2, <1>3, ReachClosed
<1>9. \A x \in B : \A e \in Dir : H[e][x] \in B \cup {Null}
  BY <1>2, <1>4, ReachClosed
<1>10. H[d][n] \in A \cup {Null} /\ H[Other(d)][n] \in B \cup {Null}
  BY <1>2, <1>3, <1>4, ReachClosed
<1>11. \A x \in C : \A e \in Dir : H[e][x] \in C \cup {Null}
  BY <1>1, <1>7, <1>8, <1>9, <1>10
<1>12. Reach(H, n) \subseteq C
  BY <1>1, <1>7, <1>11, ReachLeast
<1> QED
  BY <1>2, <1>3, <1>4, <1>5, <1>6, <1>7, <1>12

(* The order of the keys, seen from a side.                                *)
LEMMA LessFacts ==
    ASSUME NEW d \in Dir
    PROVE  /\ Other(d) \in Dir /\ Other(Other(d)) = d /\ Other(d) # d
           /\ Dir = {d, Other(d)}
           /\ \A a \in Key : ~ Less(d, a, a)
           /\ \A a, b \in Key : Less(d, a, b) <=> Less(Other(d), b, a)
           /\ \A a, b \in Key : a = b \/ Less(d, a, b) \/ Less(Other(d), a, b)
           /\ \A a, b, c \in Key : Less(d, a, b) /\ Less(d, b, c) => Less(d, a, c)
BY SplayAssumption DEF Dir, Other, Less

LEMMA TreeNull ==
    ASSUME NEW H \in Heap  PROVE Tree(H, Null, {})
BY ReachNull DEF Tree, Ord

(* A tree is a tree in every heap that has the same nodes.                 *)
LEMMA ReachFrame ==
    ASSUME NEW H \in Heap, NEW H2 \in Heap, NEW m \in Ptr, Agree(H, H2, Reach(H, m))
    PROVE  Reach(H2, m) = Reach(H, m)
<1>0. PICK M : M = Reach(H, m)
  OBVIOUS
<1>1. M \in SUBSET Key /\ m \in M \cup {Null}
  BY <1>0, ReachClosed
<1>2. \A x \in M : \A d \in Dir : H[d][x] \in M \cup {Null}
  BY <1>0, ReachClosed
<1>3. \A x \in M : \A d \in Dir : H2[d][x] \in M \cup {Null}
  BY <1>0, <1>2 DEF Agree
<1>4. Reach(H2, m) \subseteq M
  BY <1>1, <1>3, ReachLeast
<1>5. PICK T \in SUBSET Key : T = Reach(H2, m)
  BY ReachClosed
<1>6. m \in T \cup {Null}
  BY <1>5, ReachClosed
<1>7. \A x \in T : \A d \in Dir : H2[d][x] \in T \cup {Null}
  BY <1>5, ReachClosed
<1>8. \A x \in T : \A d \in Dir : H[d][x] \in T \cup {Null}
  BY <1>0, <1>4, <1>5, <1>7 DEF Agree
<1>9. Reach(H, m) \subseteq T
  BY <1>5, <1>6, <1>8, ReachLeast
<1> QED
  BY <1>0, <1>4, <1>5, <1>9

LEMMA Frame ==
    ASSUME NEW H \in Heap, NEW H2 \in Heap, NEW n \in Ptr, NEW S,
           Tree(H, n, S), Agree(H, H2, S)
    PROVE  Tree(H2, n, S)
<1>0. ASSUME NEW m \in Ptr, Reach(H, m) \subseteq S
      PROVE  Reach(H2, m) = Reach(H, m)
  <2>1. Agree(H, H2, Reach(H, m))
    BY <1>0 DEF Agree
  <2> QED
    BY <1>0, <2>1, ReachFrame
<1>1. S = Reach(H, n)
  BY DEF Tree
<1>2. Reach(H2, n) = S
  BY <1>0, <1>1
<1>3. ASSUME NEW x \in S, NEW d \in Dir, NEW a \in Reach(H2, H2[d][x])
      PROVE  Less(d, a, x)
  <2>1. H2[d][x] = H[d][x]
    BY <1>3 DEF Agree
  <2>2. H[d][x] \in Ptr /\ Reach(H, H[d][x]) \subseteq S
    BY <1>1, <1>3, ReachChild
  <2>3. Reach(H2, H[d][x]) = Reach(H, H[d][x])
    BY <1>0, <2>2
  <2> QED
    BY <1>1, <1>3, <2>1, <2>3 DEF Tree, Ord
<1> QED
  BY <1>2, <1>3 DEF Tree, Ord

(* What a tree is made of, and what makes a tree.                          *)
LEMMA TreeParts ==
    ASSUME NEW H \in Heap, NEW n \in Key, NEW S, Tree(H, n, S), NEW d \in Dir
    PROVE  \E A \in SUBSET Key, B \in SUBSET Key :
             /\ H[d][n] \in Ptr /\ H[Other(d)][n] \in Ptr
             /\ Tree(H, H[d][n], A) /\ Tree(H, H[Other(d)][n], B)
             /\ S = {n} \cup A \cup B
             /\ \A a \in A : Less(d, a, n)
             /\ \A b \in B : Less(Other(d), b, n)
<1>1. S = Reach(H, n) /\ n \in Ptr
  BY DEF Tree, Ptr
<1>2. PICK A \in SUBSET Key : A = Reach(H, H[d][n])
  BY ReachNode, ReachClosed
<1>3. PICK B \in SUBSET Key : B = Reach(H, H[Other(d)][n])
  BY ReachNode, ReachClosed
<1>4. H[d][n] \in Ptr /\ H[Other(d)][n] \in Ptr /\ S = {n} \cup A \cup B
  BY <1>1, <1>2, <1>3, ReachNode
<1>5. \A x \in S, e \in Dir : \A a \in Reach(H, H[e][x]) : Less(e, a, x)
  BY <1>1 DEF Tree, Ord
<1>6. Ord(H, H[d][n])
  BY <1>2, <1>4, <1>5 DEF Ord
<1>7. Ord(H, H[Other(d)][n])
  BY <1>3, <1>4, <1>5 DEF Ord
<1>8. /\ \A a \in A : Less(d, a, n)
      /\ \A b \in B : Less(Other(d), b, n)
  BY <1>2, <1>3, <1>4, <1>5, LessFacts
<1> QED
  BY <1>2, <1>3, <1>4, <1>6, <1>7, <1>8 DEF Tree

LEMMA TreeNode ==
    ASSUME NEW H \in Heap, NEW n \in Key, NEW d \in Dir, NEW A, NEW B,
           Tree(H, H[d][n], A), Tree(H, H[Other(d)][n], B),
           \A a \in A : Less(d, a, n),
           \A b \in B : Less(Other(d), b, n)
    PROVE  Tree(H, n, {n} \cup A \cup B)
<1>1. Reach(H, n) = {n} \cup A \cup B
  BY ReachNode DEF Tree
<1>2. ASSUME NEW x \in {n} \cup A \cup B, NEW e \in Dir, NEW a \in Reach(H, H[e][x])
      PROVE  Less(e, a, x)
  <2>1. CASE x = n
    BY <1>2, <2>1, LessFacts DEF Tree
  <2>2. CASE x \in A
    BY <1>2, <2>2 DEF Tree, Ord
  <2>3. CASE x \in B
    BY <1>2, <2>3 DEF Tree, Ord
  <2> QED
    BY <2>1, <2>2, <2>3
<1> QED
  BY <1>1, <1>2 DEF Tree, Ord

(* The node on the end of a tree has no child on that side, and a tree of  *)
(* keys further out can be hung there.                                     *)
LEMMA EndIsFree ==
    ASSUME NEW H \in Heap, NEW m \in Ptr, NEW S, Tree(H, m, S), NEW d \in Dir,
           NEW r \in S, \A x \in S : x = r \/ Less(d, r, x)
    PROVE  H[d][r] = Null
<1>1. S = Reach(H, m)
  BY DEF Tree
<1>2. r \in Key /\ H[d][r] \in Ptr /\ Reach(H, H[d][r]) \subseteq S /\ S \subseteq Key
  BY <1>1, ReachChild, ReachClosed
<1>3. \A a \in Reach(H, H[d][r]) : Less(d, a, r)
  BY <1>1 DEF Tree, Ord
<1>4. Reach(H, H[d][r]) = {}
  BY <1>2, <1>3, LessFacts
<1> QED
  BY <1>2, <1>4, ReachClosed

LEMMA Attach ==
    ASSUME NEW H \in Heap, NEW H2 \in Heap, NEW m \in Ptr, NEW n \in Ptr,
           NEW S, NEW A, Tree(H, m, S), Tree(H2, n, A), NEW d \in Dir,
           NEW r \in S, \A x \in S : x = r \/ Less(d, r, x),
           \A a \in A, x \in S : Less(d, a, x),
           H2[d][r] = n,
           \A x \in S, e \in Dir : <<x, e>> # <<r, d>> => H2[e][x] = H[e][x]
    PROVE  Tree(H2, m, S \cup A)
<1>1. /\ S = Reach(H, m) /\ A = Reach(H2, n)
      /\ S \in SUBSET Key /\ A \in SUBSET Key /\ r \in Key
      /\ m \in S \cup {Null} /\ n \in A \cup {Null}
  BY ReachClosed DEF Tree
<1>2. H[d][r] = Null
  BY EndIsFree
<1>3. S \cap A = {}
  BY <1>1, LessFacts
<1>4. /\ \A x \in S : \A e \in Dir : H[e][x] \in S \cup {Null}
      /\ \A x \in A : \A e \in Dir : H2[e][x] \in A \cup {Null}
  BY <1>1, ReachClosed
<1>5. Reach(H2, m) \subseteq S \cup A
  <2>1. PICK C \in SUBSET Key : C = S \cup A
    BY <1>1
  <2>2. \A x \in C : \A e \in Dir : H2[e][x] \in C \cup {Null}
    BY <1>1, <1>4, <2>1
  <2>3. m \in C \cup {Null}
    BY <1>1, <2>1
  <2> QED
    BY <2>1, <2>2, <2>3, ReachLeast
<1>6. PICK T \in SUBSET Key : T = Reach(H2, m)
  BY ReachClosed
<1>7. m \in T \cup {Null} /\ \A x \in T : \A e \in Dir : H2[e][x] \in T \cup {Null}
  BY <1>6, ReachClosed
<1>8. S \subseteq T
  <2>1. PICK C \in SUBSET Key : C = S \cap T
    BY <1>1
  <2>2. \A x \in C : \A e \in Dir : H[e][x] \in C \cup {Null}
    BY <1>2, <1>4, <1>7, <2>1
  <2>3. m \in C \cup {Null}
    BY <1>1, <1>7, <2>1
  <2> QED
    BY <1>1, <2>1, <2>2, <2>3, ReachLeast
<1>9. A \subseteq T
  <2>1. H2[d][r] \in Ptr /\ Reach(H2, H2[d][r]) \subseteq T
    BY <1>6, <1>8, ReachChild
  <2> QED
    BY <1>1, <2>1
<1>10. T = S \cup A
  BY <1>5, <1>6, <1>8, <1>9
<1>11. ASSUME NEW x \in S, NEW e \in Dir, <<x, e>> # <<r, d>>, NEW a \in Reach(H2, H2[e][x])
       PROVE  Less(e, a, x)
  <2>1. PICK k \in Ptr : k = H[e][x] /\ k = H2[e][x]
    BY <1>1, <1>11, ReachChild
  <2>2. PICK B \in SUBSET Key : B = Reach(H, k)
    BY ReachClosed
  <2>3. /\ B \subseteq S /\ k \in B \cup {Null}
        /\ \A z \in B : Less(e, z, x)
        /\ \A z \in B : \A f \in Dir : H[f][z] \in B \cup {Null}
    <3>1. B \subseteq S
      BY <1>1, <2>1, <2>2, ReachChild
    <3>2. k \in B \cup {Null} /\ \A z \in B : \A f \in Dir : H[f][z] \in B \cup {Null}
      BY <2>2, ReachClosed
    <3>3. \A z \in B : Less(e, z, x)
      BY <1>1, <2>1, <2>2 DEF Tree, Ord
    <3> QED
      BY <3>1, <3>2, <3>3
  <2>4. CASE r \notin B
    <3>1. \A z \in B : \A f \in Dir : H2[f][z] \in B \cup {Null}
      BY <2>3, <2>4
    <3>2. Reach(H2, k) \subseteq B
      BY <2>2, <2>3, <3>1, ReachLeast
    <3> QED
      BY <1>11, <2>1, <2>3, <3>2
  <2>5. CASE r \in B
    <3>1. e = d
      <4>1. r \in Key /\ x \in Key /\ Less(e, r, x)
        BY <1>1, <1>11, <2>3, <2>5
      <4>2. Less(d, r, x)
        BY <1>11, <4>1, LessFacts
      <4> QED
        BY <4>1, <4>2, SplayAssumption DEF Dir, Less
    <3>2. PICK C \in SUBSET Key : C = B \cup A
      BY <1>1
    <3>3. \A z \in C : \A f \in Dir : H2[f][z] \in C \cup {Null}
      BY <1>1, <1>4, <2>3, <3>2
    <3>4. k \in C \cup {Null}
      BY <2>3, <3>2
    <3>5. Reach(H2, k) \subseteq C
      BY <3>2, <3>3, <3>4, ReachLeast
    <3> QED
      BY <1>11, <2>1, <2>3, <3>1, <3>2, <3>5
  <2> QED
    BY <2>4, <2>5
<1>12. ASSUME NEW x \in S \cup A, NEW e \in Dir, NEW a \in Reach(H2, H2[e][x])
       PROVE  Less(e, a, x)
  <2>1. CASE x \in A
    <3>1. a \in Reach(H2, H2[e][x]) /\ Ord(H2, n) /\ x \in Reach(H2, n)
      BY <1>1, <1>12, <2>1 DEF Tree
    <3> QED
      BY <3>1 DEF Ord
  <2>2. CASE x = r /\ e = d
    BY <1>1, <1>12, <2>2
  <2>3. CASE x \in S /\ <<x, e>> # <<r, d>>
    BY <1>11, <1>12, <2>3
  <2> QED
    BY <2>1, <2>2, <2>3
<1> QED
  BY <1>6, <1>10, <1>12 DEF Tree, Ord

-----------------------------------------------------------------------------
(* The loop of splaytree_splay, as it looks once the ends of the two side  *)
(* trees are cut off: n's tree M, and on either side a tree S[d] of keys   *)
(* beyond the key k looked for and beyond M, whose end is r.               *)
Beside(heap, r, k, M, d, S) ==
    /\ Tree(heap, heap[d][N], S)
    /\ \/ r = N /\ S = {}
       \/ r \in S /\ \A x \in S : x = r \/ Less(d, r, x)
    /\ \A b \in S : Less(d, k, b) /\ \A x \in M : Less(d, x, b)

Parts(heap, n, tl, k, W, M, S) ==
    /\ Tree(heap, n, M)
    /\ \A d \in Dir : Beside(heap, tl[d], k, M, d, S[d])
    /\ W = M \cup S["left"] \cup S["right"]

Splits(heap, n, tl, k, W) ==
    \E M \in SUBSET Key, S \in [Dir -> SUBSET Key] : Parts(heap, n, tl, k, W, M, S)

Apart(heap, n, tl, W, M, S, d) ==
    /\ n \in M /\ W = M \cup S[d] \cup S[Other(d)]
    /\ S[d] \cap M = {} /\ S[d] \cap S[Other(d)] = {}
    /\ tl[d] \in S[d] \cup {N} /\ tl[d] \notin M
    /\ heap[d][N] \in Ptr

LEMMA PartsApart ==
    ASSUME NEW H \in Heap, NEW n \in Key, NEW tl \in [Dir -> Key \cup {N}],
           NEW k \in Key, NEW W, NEW M \in SUBSET Key, NEW S \in [Dir -> SUBSET Key],
           Parts(H, n, tl, k, W, M, S), NEW d \in Dir
    PROVE  Apart(H, n, tl, W, M, S, d)
<1>1. n \in M
  BY ReachClosed, SplayAssumption DEF Parts, Tree, Ptr
<1>2. W = M \cup S[d] \cup S[Other(d)]
  BY DEF Parts, Dir, Other
<1>3. Beside(H, tl[d], k, M, d, S[d]) /\ Beside(H, tl[Other(d)], k, M, Other(d), S[Other(d)])
  BY LessFacts DEF Parts
<1>4. tl[d] \in S[d] \cup {N}
  BY <1>3 DEF Beside
<1>5. \A b \in S[d] : Less(d, k, b) /\ \A x \in M : Less(d, x, b)
  BY <1>3 DEF Beside
<1>6. \A b \in S[Other(d)] : Less(Other(d), k, b)
  BY <1>3 DEF Beside
<1>7. S[d] \in SUBSET Key /\ S[Other(d)] \in SUBSET Key
  BY LessFacts
<1>8. S[d] \cap M = {}
  BY <1>5, <1>7, LessFacts
<1>9. S[d] \cap S[Other(d)] = {}
  BY <1>5, <1>6, <1>7, LessFacts
<1>10. tl[d] \notin M
  BY <1>4, <1>8, SplayAssumption
<1>11. H[d][N] \in Ptr
  BY DEF Heap
<1> QED
  BY <1>1, <1>2, <1>4, <1>8, <1>9, <1>10, <1>11 DEF Apart

(* The writes of the loop: rotate, of n and its child c in direction d, and *)
(* link, of n to the end r of the tree on side d, where the link that n    *)
(* itself still has on that side is cut off.                               *)
Rotates(heap, heap2, n, c, d) ==
    /\ heap2[d][n] = heap[Other(d)][c] /\ heap2[Other(d)][c] = n
    /\ \A x \in Key \cup {N}, e \in Dir :
         <<x, e>> # <<n, d>> /\ <<x, e>> # <<c, Other(d)>> => heap2[e][x] = heap[e][x]
Links(heap, heap2, n, c, k, tl, tl2, d) ==
    /\ c = heap[d][n] /\ Less(d, k, n)
    /\ heap2[d][tl[d]] = n /\ heap2[d][n] = Null
    /\ tl2[d] = n /\ tl2[Other(d)] = tl[Other(d)]
    /\ \A x \in Key \cup {N}, e \in Dir :
         <<x, e>> # <<tl[d], d>> /\ <<x, e>> # <<n, d>> => heap2[e][x] = heap[e][x]

(* What link moves: n and its subtree on the other side.                   *)
Moved(heap, n, c, d, S, A, S2) ==
    /\ A = Reach(heap, c)
    /\ S2[d] = S[d] \cup {n} \cup Reach(heap, heap[Other(d)][n])
    /\ S2[Other(d)] = S[Other(d)]

(* rotate: the tree at n keeps its nodes and gets the root H[d][n].        *)
LEMMA RotateParts ==
    ASSUME NEW H \in Heap, NEW H2 \in Heap, NEW n \in Key,
           NEW tl \in [Dir -> Key \cup {N}], NEW k \in Key, NEW W,
           NEW M \in SUBSET Key, NEW S \in [Dir -> SUBSET Key], Parts(H, n, tl, k, W, M, S),
           NEW d \in Dir, NEW c \in Key, c = H[d][n], Rotates(H, H2, n, c, d)
    PROVE  Parts(H2, c, tl, k, W, M, S)
<1>a. /\ H2[d][n] = H[Other(d)][c] /\ H2[Other(d)][c] = n
      /\ \A x \in Key \cup {N}, e \in Dir :
           <<x, e>> # <<n, d>> /\ <<x, e>> # <<c, Other(d)>> => H2[e][x] = H[e][x]
  BY DEF Rotates
<1> USE <1>a
<1>0. Other(d) \in Dir /\ Other(d) # d /\ Other(Other(d)) = d
  BY LessFacts
<1>1. PICK A \in SUBSET Key, B \in SUBSET Key :
        /\ H[Other(d)][n] \in Ptr
        /\ Tree(H, c, A) /\ Tree(H, H[Other(d)][n], B)
        /\ M = {n} \cup A \cup B
        /\ \A a \in A : Less(d, a, n)
        /\ \A b \in B : Less(Other(d), b, n)
  <2>1. Tree(H, n, M)
    BY DEF Parts
  <2> QED
    BY <2>1, TreeParts
<1>2. PICK A1 \in SUBSET Key, A2 \in SUBSET Key :
        /\ H[d][c] \in Ptr /\ H[Other(d)][c] \in Ptr
        /\ Tree(H, H[d][c], A1) /\ Tree(H, H[Other(d)][c], A2)
        /\ A = {c} \cup A1 \cup A2
        /\ \A a \in A1 : Less(d, a, c)
        /\ \A b \in A2 : Less(Other(d), b, c)
  BY <1>1, TreeParts
<1>3. /\ n \notin A1 /\ n \notin A2 /\ n \notin B /\ n # c
      /\ c \notin A1 /\ c \notin A2 /\ c \notin B
  <2>1. Less(d, c, n) /\ Less(Other(d), n, c)
    BY <1>1, <1>2, LessFacts
  <2>2. \A a \in A1 \cup A2 : Less(d, a, n)
    BY <1>1, <1>2
  <2>3. n \notin A1 /\ n \notin A2 /\ n \notin B /\ n # c
    BY <1>0, <1>1, <2>1, <2>2, LessFacts
  <2>4. c \notin A1 /\ c \notin A2
    BY <1>0, <1>2, LessFacts
  <2>5. c \notin B
    BY <1>1, <2>1, LessFacts
  <2> QED
    BY <2>3, <2>4, <2>5
<1>4. Tree(H2, H[d][c], A1) /\ Tree(H2, H[Other(d)][c], A2) /\ Tree(H2, H[Other(d)][n], B)
  <2>1. Agree(H, H2, A1) /\ Agree(H, H2, A2) /\ Agree(H, H2, B)
    BY <1>3 DEF Agree
  <2> QED
    BY <1>1, <1>2, <2>1, Frame
<1>5. PICK C \in SUBSET Key : C = {n} \cup A2 \cup B
  OBVIOUS
<1>6. Tree(H2, n, C)
  <2>1. H2[d][n] = H[Other(d)][c] /\ H2[Other(d)][n] = H[Other(d)][n]
    BY <1>0, <1>3
  <2>2. \A a \in A2 : Less(d, a, n)
    BY <1>1, <1>2
  <2> QED
    BY <1>1, <1>4, <1>5, <2>1, <2>2, TreeNode
<1>7. Tree(H2, c, {c} \cup A1 \cup C)
  <2>1. H2[d][c] = H[d][c]
    BY <1>0, <1>3
  <2>2. Less(Other(d), n, c)
    BY <1>1, <1>2, LessFacts
  <2>3. \A b \in B : Less(Other(d), b, c)
    BY <1>0, <1>1, <2>2, LessFacts
  <2>4. \A b \in C : Less(Other(d), b, c)
    BY <1>2, <1>5, <2>2, <2>3
  <2> QED
    BY <1>2, <1>4, <1>6, <2>1, <2>4, TreeNode
<1>8. Tree(H2, c, M)
  <2>1. M = {c} \cup A1 \cup C
    BY <1>1, <1>2, <1>5
  <2> QED
    BY <1>7, <2>1
<1>9. ASSUME NEW e \in Dir  PROVE Beside(H2, tl[e], k, M, e, S[e])
  <2>1. Beside(H, tl[e], k, M, e, S[e])
    BY <1>9 DEF Parts
  <2>2. n \notin S[e] /\ c \notin S[e] /\ H[e][N] \in Ptr
    <3>1. Apart(H, n, tl, W, M, S, e)
      BY <1>9, PartsApart
    <3> QED
      BY <1>1, <1>2, <3>1 DEF Apart
  <2>3. Agree(H, H2, S[e]) /\ H2[e][N] = H[e][N]
    BY <2>2, SplayAssumption DEF Agree
  <2>4. Tree(H2, H2[e][N], S[e])
    BY <2>1, <2>2, <2>3, Frame DEF Beside
  <2> QED
    BY <2>1, <2>4 DEF Beside
<1> QED
  BY <1>8, <1>9 DEF Parts

(* link: n and its other subtree go to the end of the tree on that side.   *)
LEMMA LinkParts ==
    ASSUME NEW H \in Heap, NEW H2 \in Heap, NEW n \in Key,
           NEW tl \in [Dir -> Key \cup {N}], NEW tl2, NEW k \in Key, NEW W,
           NEW M \in SUBSET Key, NEW S \in [Dir -> SUBSET Key], Parts(H, n, tl, k, W, M, S),
           NEW d \in Dir, NEW c \in Key, Links(H, H2, n, c, k, tl, tl2, d)
    PROVE  \E A \in SUBSET Key, S2 \in [Dir -> SUBSET Key] :
             Parts(H2, c, tl2, k, W, A, S2) /\ Moved(H, n, c, d, S, A, S2)
<1>a. /\ H2[d][tl[d]] = n /\ H2[d][n] = Null
      /\ \A x \in Key \cup {N}, e \in Dir :
           <<x, e>> # <<tl[d], d>> /\ <<x, e>> # <<n, d>> => H2[e][x] = H[e][x]
  BY DEF Links
<1>b. c = H[d][n] /\ Less(d, k, n)
  BY DEF Links
<1>c. tl2[d] = n /\ tl2[Other(d)] = tl[Other(d)]
  BY DEF Links
<1> USE <1>a, <1>b
<1>0. Other(d) \in Dir /\ Other(d) # d /\ Other(Other(d)) = d /\ Dir = {d, Other(d)}
  BY LessFacts
<1>1. PICK A \in SUBSET Key, B \in SUBSET Key :
        /\ H[Other(d)][n] \in Ptr
        /\ Tree(H, c, A) /\ Tree(H, H[Other(d)][n], B)
        /\ M = {n} \cup A \cup B
        /\ \A a \in A : Less(d, a, n)
        /\ \A b \in B : Less(Other(d), b, n)
  <2>1. Tree(H, n, M)
    BY DEF Parts
  <2> QED
    BY <2>1, TreeParts
<1>2. n \notin A /\ n \notin B
  BY <1>0, <1>1, LessFacts
<1>3. /\ S[d] \cap M = {} /\ S[Other(d)] \cap M = {} /\ S[d] \cap S[Other(d)] = {}
      /\ tl[d] \in S[d] \cup {N} /\ tl[d] \notin M /\ n \in M
      /\ W = M \cup S[d] \cup S[Other(d)]
      /\ H[d][N] \in Ptr /\ H[Other(d)][N] \in Ptr
      /\ S[d] \in SUBSET Key /\ S[Other(d)] \in SUBSET Key
  <2>1. Apart(H, n, tl, W, M, S, d) /\ Apart(H, n, tl, W, M, S, Other(d))
    BY <1>0, PartsApart
  <2> QED
    BY <1>0, <2>1 DEF Apart
<1>4. Beside(H, tl[d], k, M, d, S[d]) /\ Beside(H, tl[Other(d)], k, M, Other(d), S[Other(d)])
  BY <1>0 DEF Parts
<1>5. Tree(H2, c, A) /\ Tree(H2, H[Other(d)][n], B)
  <2>1. Agree(H, H2, A) /\ Agree(H, H2, B)
    BY <1>1, <1>2, <1>3 DEF Agree
  <2> QED
    BY <1>1, <2>1, Frame DEF Ptr
<1>6. PICK C \in SUBSET Key : C = {n} \cup {} \cup B
  OBVIOUS
<1>7. C \subseteq M /\ M = A \cup C /\ n \in C /\ \A x \in C : x = n \/ Less(d, n, x)
  BY <1>1, <1>6, LessFacts
<1>8. H2[Other(d)][n] = H[Other(d)][n]
  BY <1>0
<1>9. Tree(H2, Null, {})
  BY TreeNull
<1>10. Tree(H2, n, C)
  BY <1>1, <1>5, <1>6, <1>8, <1>9, TreeNode
<1>11. Tree(H2, H2[d][N], S[d] \cup C)
  <2>1. CASE tl[d] = N
    <3>1. S[d] = {}
      BY <1>3, <1>4, <2>1, SplayAssumption DEF Beside
    <3> QED
      BY <1>10, <2>1, <3>1
  <2>2. CASE tl[d] # N
    <3>1. tl[d] \in S[d] /\ \A x \in S[d] : x = tl[d] \/ Less(d, tl[d], x)
      BY <1>4, <2>2 DEF Beside
    <3>2. \A a \in C, x \in S[d] : Less(d, a, x)
      BY <1>4, <1>7 DEF Beside
    <3>3. \A x \in S[d], e \in Dir : <<x, e>> # <<tl[d], d>> => H2[e][x] = H[e][x]
      BY <1>3
    <3>4. Tree(H, H[d][N], S[d])
      BY <1>4 DEF Beside
    <3>5. H2[d][N] = H[d][N]
      BY <2>2, SplayAssumption
    <3>6. n \in Ptr
      BY DEF Ptr
    <3>7. Tree(H2, H[d][N], S[d] \cup C)
      BY <1>3, <1>10, <3>1, <3>2, <3>3, <3>4, <3>6, Attach
    <3> QED
      BY <3>5, <3>7
  <2> QED
    BY <2>1, <2>2
<1>12. Beside(H2, n, k, A, d, S[d] \cup C)
  <2>1. \A x \in S[d] : Less(d, n, x)
    BY <1>3, <1>4 DEF Beside
  <2>2. n \in S[d] \cup C /\ \A x \in S[d] \cup C : x = n \/ Less(d, n, x)
    BY <1>7, <2>1
  <2>3. \A b \in S[d] \cup C : Less(d, k, b)
    BY <1>3, <2>2, LessFacts
  <2>4. \A b \in S[d] \cup C, x \in A : Less(d, x, b)
    BY <1>1, <1>3, <2>2, LessFacts
  <2> QED
    BY <1>11, <2>2, <2>3, <2>4 DEF Beside
<1>13. Beside(H2, tl[Other(d)], k, A, Other(d), S[Other(d)])
  <2>1. Agree(H, H2, S[Other(d)]) /\ H2[Other(d)][N] = H[Other(d)][N]
    BY <1>0, <1>3, SplayAssumption DEF Agree
  <2>2. Tree(H2, H2[Other(d)][N], S[Other(d)])
    BY <1>3, <1>4, <2>1, Frame DEF Beside
  <2> QED
    BY <1>1, <1>4, <2>2 DEF Beside
<1>14. PICK S2 \in [Dir -> SUBSET Key] :
          S2[d] = S[d] \cup C /\ S2[Other(d)] = S[Other(d)]
  <2>1. PICK D \in SUBSET Key : D = S[d] \cup C
    BY <1>3
  <2>2. [S EXCEPT ![d] = D] \in [Dir -> SUBSET Key]
    OBVIOUS
  <2> QED
    BY <1>0, <2>1, <2>2
<1>16. W = A \cup S2[d] \cup S2[Other(d)]
  BY <1>3, <1>7, <1>14
<1>17. W = A \cup S2["left"] \cup S2["right"]
  BY <1>16 DEF Dir, Other
<1>18. \A e \in Dir : Beside(H2, tl2[e], k, A, e, S2[e])
  BY <1>c, <1>0, <1>12, <1>13, <1>14
<1>19. Parts(H2, c, tl2, k, W, A, S2)
  BY <1>5, <1>17, <1>18 DEF Parts
<1>20. A = Reach(H, c) /\ S2[d] = S[d] \cup {n} \cup Reach(H, H[Other(d)][n])
  BY <1>1, <1>6, <1>14 DEF Tree
<1> QED
  BY <1>14, <1>19, <1>20 DEF Moved

(* n is the key k, or nothing in W is between them.                        *)
NearTo(k, n, W) ==
    IF k \in W THEN n = k
    ELSE \A x \in W : ~ (k < x /\ x < n) /\ ~ (n < x /\ x < k)

(* break: the search cannot go on from n.                                  *)
LEMMA StopNear ==
    ASSUME NEW H \in Heap, NEW n \in Key,
           NEW tl \in [Dir -> Key \cup {N}], NEW k \in Key, NEW W,
           Splits(H, n, tl, k, W), NEW d \in Dir,
           k = n \/ (Less(d, k, n) /\ H[d][n] = Null)
    PROVE  NearTo(k, n, W)
<1> PICK M \in SUBSET Key, S \in [Dir -> SUBSET Key] : Parts(H, n, tl, k, W, M, S)
  BY DEF Splits
<1>0. Other(d) \in Dir
  BY LessFacts
<1>1. Apart(H, n, tl, W, M, S, d)
  BY PartsApart
<1>2. CASE k = n
  BY <1>1, <1>2 DEF Apart, NearTo
<1>3. CASE Less(d, k, n) /\ H[d][n] = Null
  <2>1. Tree(H, n, M)
    BY DEF Parts
  <2>2. PICK A \in SUBSET Key, B \in SUBSET Key :
          /\ H[d][n] \in Ptr /\ H[Other(d)][n] \in Ptr
          /\ Tree(H, H[d][n], A) /\ Tree(H, H[Other(d)][n], B)
          /\ M = {n} \cup A \cup B
          /\ \A a \in A : Less(d, a, n)
          /\ \A b \in B : Less(Other(d), b, n)
    BY <2>1, TreeParts
  <2>3. A = {}
    BY <1>3, <2>2, ReachNull DEF Tree
  <2>4. \A x \in S[d] : Less(d, n, x)
    BY <1>1 DEF Apart, Parts, Beside
  <2>5. \A x \in S[Other(d)] : Less(Other(d), k, x)
    BY <1>0 DEF Parts, Beside
  <2>6. S[d] \in SUBSET Key /\ S[Other(d)] \in SUBSET Key
    BY <1>0
  <2>7. \A x \in W : x \in Key /\ (x = n \/ Less(d, n, x) \/ Less(Other(d), k, x))
    BY <1>1, <2>2, <2>3, <2>4, <2>5, <2>6, LessFacts DEF Apart
  <2>8. \A x \in W : x # k /\ ~ (k < x /\ x < n) /\ ~ (n < x /\ x < k)
    <3>0. n \in Int /\ k \in Int /\ \A x \in W : x \in Int
      BY <2>7, SplayAssumption
    <3>1. CASE d = "left"
      <4>1. k < n /\ \A x \in W : x = n \/ n < x \/ x < k
        BY <1>3, <2>7, <3>1 DEF Less, Other
      <4> QED
        BY <3>0, <4>1
    <3>2. CASE d = "right"
      <4>1. n < k /\ \A x \in W : x = n \/ x < n \/ k < x
        BY <1>3, <2>7, <3>2 DEF Less, Other
      <4> QED
        BY <3>0, <4>1
    <3> QED
      BY <3>1, <3>2 DEF Dir
  <2> QED
    BY <2>8 DEF NearTo
<1> QED
  BY <1>2, <1>3

Joins(heap, heap2, n, tl) ==
    /\ \A e \in Dir :
         /\ tl[e] # N => heap2[e][tl[e]] = heap[Other(e)][n] /\ heap2[Other(e)][n] = heap[e][N]
         /\ tl[e] = N => heap2[Other(e)][n] = heap[Other(e)][n]
    /\ \A x \in Key, e \in Dir : x # n /\ x # tl[e] => heap2[e][x] = heap[e][x]

(* assemble: the two subtrees of n are hung on the ends of the side trees, *)
(* and these become the subtrees of n.                                     *)
LEMMA JoinTree ==
    ASSUME NEW H \in Heap, NEW J \in Heap, NEW n \in Key,
           NEW tl \in [Dir -> Key \cup {N}], NEW k \in Key, NEW W,
           Splits(H, n, tl, k, W), Joins(H, J, n, tl)
    PROVE  Tree(J, n, W)
<1>a. \A e \in Dir : /\ tl[e] # N => J[e][tl[e]] = H[Other(e)][n] /\ J[Other(e)][n] = H[e][N]
                     /\ tl[e] = N => J[Other(e)][n] = H[Other(e)][n]
  BY DEF Joins
<1>b. \A x \in Key, e \in Dir : x # n /\ x # tl[e] => J[e][x] = H[e][x]
  BY DEF Joins
<1> USE <1>b
<1> PICK M \in SUBSET Key, S \in [Dir -> SUBSET Key] : Parts(H, n, tl, k, W, M, S)
  BY DEF Splits
<1> DEFINE Half(d, o, B) == /\ Tree(H, H[o][n], B)
                            /\ Tree(J, J[o][n], S[d] \cup B)
                            /\ \A x \in S[d] \cup B : Less(o, x, n)
<1>1. ASSUME NEW d \in Dir
      PROVE  \E B \in SUBSET Key : Half(d, Other(d), B)
  <2>0. Other(d) \in Dir /\ Other(d) # d /\ Other(Other(d)) = d /\ Dir = {d, Other(d)}
    BY <1>1, LessFacts
  <2>1. PICK A \in SUBSET Key, B \in SUBSET Key :
          /\ H[d][n] \in Ptr /\ H[Other(d)][n] \in Ptr
          /\ Tree(H, H[d][n], A) /\ Tree(H, H[Other(d)][n], B)
          /\ M = {n} \cup A \cup B
          /\ \A a \in A : Less(d, a, n)
          /\ \A b \in B : Less(Other(d), b, n)
    <3>1. Tree(H, n, M)
      BY DEF Parts
    <3> QED
      BY <1>1, <3>1, TreeParts
  <2>2. Apart(H, n, tl, W, M, S, d) /\ Apart(H, n, tl, W, M, S, Other(d))
    BY <2>0, PartsApart
  <2>3. Beside(H, tl[d], k, M, d, S[d])
    BY <1>1 DEF Parts
  <2>4. S[d] \in SUBSET Key /\ H[d][N] \in Ptr /\ n \notin B
    BY <2>0, <2>1, <2>2, LessFacts DEF Apart
  <2>5. Agree(H, J, B)
    <3>1. tl[d] \notin B /\ tl[Other(d)] \notin B
      BY <2>1, <2>2 DEF Apart
    <3> QED
      BY <2>0, <2>4, <3>1 DEF Agree
  <2>6. Tree(J, H[Other(d)][n], B)
    BY <2>1, <2>5, Frame
  <2>7. \A x \in S[d] \cup B : Less(Other(d), x, n)
    BY <2>1, <2>2, <2>3, <2>4, LessFacts DEF Apart, Beside
  <2>8. CASE tl[d] = N
    <3>1. S[d] = {}
      BY <2>3, <2>4, <2>8, SplayAssumption DEF Beside
    <3>2. J[Other(d)][n] = H[Other(d)][n] /\ S[d] \cup B = B
      BY <1>a, <1>1, <2>8, <3>1
    <3> QED
      BY <2>1, <2>6, <2>7, <3>2
  <2>9. CASE tl[d] # N
    <3>1. PICK r \in S[d] : r = tl[d] /\ \A x \in S[d] : x = r \/ Less(d, r, x)
      BY <2>3, <2>9 DEF Beside
    <3>2. n \notin S[d] /\ tl[Other(d)] \notin S[d]
      BY <2>0, <2>2, <2>4, SplayAssumption DEF Apart
    <3>3. \A x \in S[d], e \in Dir : <<x, e>> # <<r, d>> => J[e][x] = H[e][x]
      <4>1. \A x \in S[d], e \in Dir : <<x, e>> # <<r, d>> => x \in Key /\ x # n /\ x # tl[e]
        BY <2>0, <2>4, <3>1, <3>2
      <4> QED
        BY <4>1
    <3>4. \A a \in B, x \in S[d] : Less(d, a, x)
      BY <2>1, <2>3 DEF Beside
    <3>5. J[d][r] = H[Other(d)][n] /\ J[Other(d)][n] = H[d][N]
      BY <1>a, <1>1, <2>9, <3>1
    <3>6. Tree(J, H[d][N], S[d] \cup B)
      <4>1. Tree(H, H[d][N], S[d])
        BY <2>3 DEF Beside
      <4> QED
        BY <1>1, <2>1, <2>4, <2>6, <3>1, <3>3, <3>4, <3>5, <4>1, Attach
    <3> QED
      BY <2>1, <2>7, <3>5, <3>6
  <2> QED
    BY <2>8, <2>9
<1>2. "left" \in Dir /\ "right" \in Dir /\ Other("left") = "right" /\ Other("right") = "left"
  BY DEF Dir, Other
<1>3. PICK B \in SUBSET Key : Half("left", "right", B)
  <2>1. \E B \in SUBSET Key : Half("left", Other("left"), B)
    BY <1>1, <1>2
  <2> QED
    BY <1>2, <2>1
<1>4. PICK A \in SUBSET Key : Half("right", "left", A)
  <2>1. \E A \in SUBSET Key : Half("right", Other("right"), A)
    BY <1>1, <1>2
  <2> QED
    BY <1>2, <2>1
<1>5. M = {n} \cup A \cup B
  <2>1. Tree(H, n, M)
    BY DEF Parts
  <2> QED
    BY <1>2, <1>3, <1>4, <2>1, ReachNode DEF Tree
<1>6. PICK AA, BB : AA = S["right"] \cup A /\ BB = S["left"] \cup B
  OBVIOUS
<1>7. Tree(J, n, {n} \cup AA \cup BB)
  <2>1. Tree(J, J["left"][n], AA) /\ Tree(J, J[Other("left")][n], BB)
    BY <1>2, <1>3, <1>4, <1>6
  <2>2. (\A a \in AA : Less("left", a, n)) /\ (\A b \in BB : Less(Other("left"), b, n))
    BY <1>2, <1>3, <1>4, <1>6
  <2> QED
    BY <1>2, <2>1, <2>2, TreeNode
<1>8. W = {n} \cup AA \cup BB
  BY <1>5, <1>6 DEF Parts
<1> QED
  BY <1>7, <1>8

(* splaytree_insert puts i between the root n, its neighbour, and what is  *)
(* on i's side of n.                                                       *)
LEMMA InsertTree ==
    ASSUME NEW H \in Heap, NEW G \in Heap, NEW n \in Key, NEW W \in SUBSET Key,
           Tree(H, n, W), NEW i \in Key, NearTo(i, n, W), NEW d \in Dir, Less(d, i, n),
           G[d][i] = H[d][n], G[d][n] = Null, G[Other(d)][i] = n,
           \A x \in W, e \in Dir : x # i /\ <<x, e>> # <<n, d>> => G[e][x] = H[e][x]
    PROVE  i \notin W /\ Tree(G, i, W \cup {i})
<1>0. Other(d) \in Dir /\ Other(d) # d /\ Other(Other(d)) = d /\ n # i
  BY LessFacts
<1>1. i \notin W
  BY <1>0 DEF NearTo
<1>2. PICK A \in SUBSET Key, B \in SUBSET Key :
        /\ H[d][n] \in Ptr /\ H[Other(d)][n] \in Ptr
        /\ Tree(H, H[d][n], A) /\ Tree(H, H[Other(d)][n], B)
        /\ W = {n} \cup A \cup B
        /\ \A a \in A : Less(d, a, n)
        /\ \A b \in B : Less(Other(d), b, n)
  BY TreeParts
<1>3. n \notin A /\ n \notin B
  BY <1>0, <1>2, LessFacts
<1>4. \A a \in A : Less(d, a, i)
  <2>1. \A a \in A : a \in Key /\ a # i /\ Less(d, a, n) /\ ~ (i < a /\ a < n) /\ ~ (n < a /\ a < i)
    BY <1>1, <1>2 DEF NearTo
  <2> QED
    BY <2>1, SplayAssumption DEF Less, Dir
<1>5. Agree(H, G, A) /\ Agree(H, G, B)
  BY <1>1, <1>2, <1>3 DEF Agree
<1>6. Tree(G, H[d][n], A) /\ Tree(G, H[Other(d)][n], B)
  BY <1>2, <1>5, Frame
<1>7. G[Other(d)][n] = H[Other(d)][n]
  BY <1>0, <1>2
<1>8. PICK C : C = {n} \cup {} \cup B
  OBVIOUS
<1>9. Tree(G, n, C)
  <2>1. Tree(G, Null, {})
    BY TreeNull
  <2> QED
    BY <1>2, <1>6, <1>7, <1>8, <2>1, TreeNode
<1>10. \A b \in C : Less(Other(d), b, i)
  BY <1>0, <1>2, <1>8, LessFacts
<1>11. Tree(G, i, {i} \cup A \cup C)
  BY <1>4, <1>6, <1>9, <1>10, TreeNode
<1>12. W \cup {i} = {i} \cup A \cup C
  BY <1>2, <1>8
<1> QED
  BY <1>1, <1>11, <1>12

-----------------------------------------------------------------------------
(* The inductive invariant.  While the loop runs, the tree is split; after *)
(* it, t is near the key; a splay that has returned has the whole tree.    *)
Split == t \in Key /\ Splits(Cut, t, tail, op.key, Whole)
Near == NearTo(op.key, t, Whole)

PtrType ==
    /\ child \in Heap
    /\ mem \subseteq Key /\ keys \subseteq Key
    /\ root \in Ptr /\ t \in Ptr /\ y \in Ptr /\ gone \in Ptr
    /\ tail \in [Dir -> Key \cup {N}]
    /\ pc \in {"idle", "loop", "link", "right", "left", "return"}
    /\ op \in [name : Ops, key : Key]

(* What the operation will have done to the keys when it returns.          *)
KeysMem ==
    keys = CASE pc = "idle" -> mem
             [] pc # "idle" /\ op.name = "insert" -> mem \cup {op.key}
             [] pc # "idle" /\ op.name = "delete" -> mem \ {op.key}
             [] OTHER -> mem

(* While splaytree_delete splays the left subtree of the node it will free,*)
(* the right one is as it was.                                             *)
GoneKept ==
    gone # Null =>
      /\ gone \in mem /\ op.name = "delete" /\ op.key = gone /\ pc # "idle" /\ t # Null
      /\ Tree(child, child["right"][gone], {k \in mem : gone < k})

Phase ==
    /\ pc = "idle" => t = root /\ Tree(child, root, mem)
    /\ pc \in {"loop", "link"} => Split
    /\ pc \in Dir => Split /\ child = Cut /\ Near
    /\ pc = "return" => Tree(child, t, Whole) /\ (t # Null => Near)

SplayInv == PtrType /\ KeysMem /\ GoneKept /\ Phase

LEMMA SplitsApart ==
    ASSUME NEW H \in Heap, NEW n \in Key, NEW tl \in [Dir -> Key \cup {N}],
           NEW k \in Key, NEW W, Splits(H, n, tl, k, W)
    PROVE  /\ W \subseteq Key /\ Reach(H, n) \subseteq W /\ n \in Reach(H, n)
           /\ \A e \in Dir : tl[e] \notin Reach(H, n) /\ tl[e] \in W \cup {N}
<1> PICK M \in SUBSET Key, S \in [Dir -> SUBSET Key] : Parts(H, n, tl, k, W, M, S)
  BY DEF Splits
<1>1. \A e \in Dir : Apart(H, n, tl, W, M, S, e)
  BY PartsApart
<1>2. M = Reach(H, n)
  BY DEF Parts, Tree
<1>3. \A e \in Dir : tl[e] \notin M /\ tl[e] \in W \cup {N}
  BY <1>1 DEF Apart
<1>4. n \in M /\ M \subseteq W /\ W \subseteq Key
  BY <1>1, LessFacts DEF Apart, Dir
<1> QED
  BY <1>2, <1>3, <1>4

LEMMA TowardLess ==
    ASSUME PtrType, NEW n \in Key
    PROVE  /\ Toward(n) \in Dir /\ op.key \in Key /\ op.name \in Ops
           /\ Found(n) <=> op.key = n
           /\ ~ Found(n) => Less(Toward(n), op.key, n)
<1>1. op.key \in Key /\ op.name \in Ops
  BY DEF PtrType
<1>2. op.key \in Int /\ n \in Int
  BY <1>1, SplayAssumption
<1>3. Found(n) <=> op.key = n
  BY <1>2 DEF Found, compare
<1>4. compare(op.key, n) < 0 <=> op.key < n
  BY <1>2 DEF compare
<1>5. op.key # n => Less(Toward(n), op.key, n)
  BY <1>2, <1>4 DEF Toward, Less
<1> QED
  BY <1>1, <1>3, <1>5 DEF Toward, Dir

CutAt(heap, tl) == [d \in Dir |-> [heap[d] EXCEPT ![tl[d]] = Null]]

LEMMA CutOf ==
    ASSUME NEW H \in Heap, NEW tl \in [Dir -> Key \cup {N}]
    PROVE  /\ CutAt(H, tl) \in Heap
           /\ \A e \in Dir : \A x \in Key \cup {N} :
                CutAt(H, tl)[e][x] = IF x = tl[e] THEN Null ELSE H[e][x]
<1>1. \A e \in Dir : H[e] \in [Key \cup {N} -> Ptr] /\ tl[e] \in Key \cup {N}
  BY DEF Heap
<1>2. Null \in Ptr
  BY DEF Ptr
<1> QED
  BY <1>1, <1>2 DEF Heap, CutAt

LEMMA CutHeap ==
    ASSUME PtrType
    PROVE  /\ Cut \in Heap
           /\ \A e \in Dir : \A x \in Key \cup {N} :
                Cut[e][x] = IF x = tail[e] THEN Null ELSE child[e][x]
<1>1. Cut = CutAt(child, tail)
  BY DEF Cut, CutAt
<1> QED
  BY <1>1, CutOf DEF PtrType

LEMMA HeapEq ==
    ASSUME NEW H \in Heap, NEW G \in Heap,
           \A e \in Dir : \A x \in Key \cup {N} : H[e][x] = G[e][x]
    PROVE  H = G
<1>1. \A e \in Dir : H[e] \in [Key \cup {N} -> Ptr] /\ G[e] \in [Key \cup {N} -> Ptr]
  BY DEF Heap
<1>2. \A e \in Dir : H[e] = G[e]
  BY <1>1
<1> QED
  BY <1>2 DEF Heap

JoinAt(heap, n, tl) ==
    LET ends == [d \in Dir |-> [heap[d] EXCEPT ![tl[d]] = heap[Other(d)][n]]]
    IN  [d \in Dir |-> [ends[d] EXCEPT ![n] = ends[Other(d)][N]]]

LEMMA JoinOf ==
    ASSUME NEW H \in Heap, NEW n \in Key, NEW tl \in [Dir -> Key \cup {N}],
           \A e \in Dir : tl[e] # n
    PROVE  JoinAt(H, n, tl) \in Heap /\ Joins(H, JoinAt(H, n, tl), n, tl)
<1>1. PICK E : E = [d \in Dir |-> [H[d] EXCEPT ![tl[d]] = H[Other(d)][n]]]
  OBVIOUS
<1>2. \A d \in Dir : Other(d) \in Dir /\ Other(Other(d)) = d
  BY LessFacts
<1>3. \A d \in Dir : H[d] \in [Key \cup {N} -> Ptr] /\ H[Other(d)][n] \in Ptr
  BY <1>2 DEF Heap
<1>4. /\ E \in Heap
      /\ \A d \in Dir : \A x \in Key \cup {N} :
           E[d][x] = IF x = tl[d] THEN H[Other(d)][n] ELSE H[d][x]
  BY <1>1, <1>3 DEF Heap
<1>5. \A d \in Dir : E[d] \in [Key \cup {N} -> Ptr] /\ E[Other(d)][N] \in Ptr
  BY <1>2, <1>4 DEF Heap
<1>6. PICK J : J = [d \in Dir |-> [E[d] EXCEPT ![n] = E[Other(d)][N]]]
  OBVIOUS
<1>7. /\ J \in Heap
      /\ \A d \in Dir : \A x \in Key \cup {N} :
           J[d][x] = IF x = n THEN E[Other(d)][N] ELSE E[d][x]
  BY <1>5, <1>6 DEF Heap
<1>8. J = JoinAt(H, n, tl)
  BY <1>1, <1>6 DEF JoinAt
<1>9. ASSUME NEW e \in Dir
      PROVE  /\ tl[e] # N => J[e][tl[e]] = H[Other(e)][n] /\ J[Other(e)][n] = H[e][N]
             /\ tl[e] = N => J[Other(e)][n] = H[Other(e)][n]
  <2>1. J[Other(e)][n] = E[e][N]
    BY <1>2, <1>7, <1>9
  <2>2. E[e][N] = IF N = tl[e] THEN H[Other(e)][n] ELSE H[e][N]
    BY <1>4, <1>9
  <2>3. J[e][tl[e]] = E[e][tl[e]] /\ E[e][tl[e]] = H[Other(e)][n]
    BY <1>4, <1>7, <1>9
  <2> QED
    BY <2>1, <2>2, <2>3
<1>10. \A x \in Key, e \in Dir : x # n /\ x # tl[e] => J[e][x] = H[e][x]
  BY <1>4, <1>7
<1> QED
  BY <1>7, <1>8, <1>9, <1>10 DEF Joins

(* What the node in gone needs is not touched by a splay of its left       *)
(* subtree.                                                                *)
LEMMA KeepGone ==
    ASSUME PtrType, GoneKept, child' \in Heap, UNCHANGED <<gone, mem, op>>,
           pc' # "idle", gone # Null => t' # Null,
           \A x \in Key \ Whole, e \in Dir : child'[e][x] = child[e][x]
    PROVE  GoneKept'
<1> SUFFICES ASSUME gone # Null  PROVE GoneKept'
  BY DEF GoneKept
<1>1. gone \in Key /\ mem \subseteq Key /\ "right" \in Dir /\ child["right"][gone] \in Ptr
  BY DEF PtrType, Heap, Dir, Ptr
<1>2. PICK S \in SUBSET Key : S = {k \in mem : gone < k}
  BY <1>1
<1>3. Tree(child, child["right"][gone], S)
  BY <1>2 DEF GoneKept
<1>4. gone \notin Whole /\ S \cap Whole = {}
  <2>1. gone \in Int /\ \A x \in mem : x \in Int
    BY <1>1, SplayAssumption
  <2>2. Whole = {k \in mem : k < gone}
    BY DEF Whole
  <2> QED
    BY <1>2, <2>1, <2>2
<1>5. Agree(child, child', S) /\ child'["right"][gone] = child["right"][gone]
  BY <1>1, <1>4 DEF Agree
<1>6. child \in Heap
  BY DEF PtrType
<1>7. Tree(child', child["right"][gone], S)
  BY <1>1, <1>3, <1>5, <1>6, Frame
<1> QED
  BY <1>2, <1>5, <1>7 DEF GoneKept

(* splaytree_splay begins with the whole tree at t and empty side trees.   *)
LEMMA SplayBegins ==
    ASSUME PtrType, NEW n \in Ptr, NEW S \in SUBSET Key, Tree(child, n, S),
           Splay(n), op' \in [name : Ops, key : Key], Whole' = S
    PROVE  /\ child' \in Heap /\ t' = n /\ y' = Null /\ tail' \in [Dir -> Key \cup {N}]
           /\ pc' \in {"loop", "return"}
           /\ \A x \in Key, e \in Dir : child'[e][x] = child[e][x]
           /\ Cut' \in Heap
           /\ \A x \in Key \cup {N}, e \in Dir : Cut'[e][x] = IF x = N THEN Null ELSE child[e][x]
           /\ Phase'
<1>0. child \in Heap /\ Null \in Ptr /\ N \notin Key
  BY SplayAssumption DEF PtrType, Ptr
<1>1. child' \in Heap /\ \A x \in Key \cup {N}, e \in Dir :
                           child'[e][x] = IF x = N THEN Null ELSE child[e][x]
  BY <1>0 DEF Splay, Heap
<1>2. \A x \in Key, e \in Dir : child'[e][x] = child[e][x]
  BY <1>0, <1>1
<1>3. Tree(child', n, S)
  BY <1>0, <1>1, <1>2, Frame DEF Agree
<1>4. tail' = [d \in Dir |-> N] /\ tail' \in [Dir -> Key \cup {N}]
  BY DEF Splay
<1>5. Cut' \in Heap /\ \A x \in Key \cup {N}, e \in Dir : Cut'[e][x] = IF x = N THEN Null ELSE child[e][x]
  <2>1. Cut' \in Heap
    BY <1>0, <1>1, <1>4 DEF Cut, Heap
  <2>2. \A x \in Key \cup {N}, e \in Dir : Cut'[e][x] = IF x = N THEN Null ELSE child'[e][x]
    BY <1>1, <1>4 DEF Cut, Heap
  <2> QED
    BY <1>1, <2>1, <2>2
<1>6. CASE n = Null
  <2>1. t' = n /\ y' = Null /\ pc' = "return"
    BY <1>6 DEF Splay
  <2>2. Phase'
    BY <1>3, <1>6, <2>1 DEF Phase, Dir
  <2> QED
    BY <1>1, <1>2, <1>4, <1>5, <2>1, <2>2
<1>7. CASE n # Null
  <2>1. PICK H \in Heap : H = Cut' /\ \A x \in Key \cup {N}, e \in Dir :
                                      H[e][x] = IF x = N THEN Null ELSE child[e][x]
    BY <1>5
  <2>2. Tree(H, n, S)
    BY <1>0, <2>1, Frame DEF Agree
  <2>3. PICK E \in [Dir -> SUBSET Key] : E = [d \in Dir |-> {}]
    OBVIOUS
  <2>4. ASSUME NEW d \in Dir  PROVE Beside(H, tail'[d], op'.key, S, d, E[d])
    <3>1. H[d][N] = Null /\ tail'[d] = N /\ E[d] = {}
      BY <1>4, <2>1, <2>3, <2>4
    <3>2. Tree(H, H[d][N], {})
      BY <3>1, TreeNull
    <3> QED
      BY <3>1, <3>2 DEF Beside
  <2>5. S = S \cup E["left"] \cup E["right"]
    BY <2>3 DEF Dir
  <2>6. Parts(H, n, tail', op'.key, S, S, E)
    BY <2>2, <2>4, <2>5 DEF Parts
  <2>7. Splits(H, n, tail', op'.key, S)
    BY <2>6 DEF Splits
  <2>8. pc' = "loop" /\ t' = n /\ n \in Key
    BY <1>7 DEF Splay, Ptr
  <2>9. Split'
    BY <2>1, <2>7, <2>8 DEF Split
  <2>10. Phase'
    BY <2>8, <2>9 DEF Phase, Dir
  <2>11. y' = Null
    BY DEF Splay
  <2> QED
    BY <1>1, <1>2, <1>4, <1>5, <2>8, <2>10, <2>11
<1> QED
  BY <1>6, <1>7

-----------------------------------------------------------------------------
LEMMA InitSplayInv == Init => SplayInv
<1> SUFFICES ASSUME Init  PROVE SplayInv
  OBVIOUS
<1>1. child \in Heap /\ Null \in Ptr
  BY DEF Init, Heap, Ptr
<1>2. PtrType
  BY <1>1 DEF Init, PtrType
<1>3. Tree(child, Null, {})
  BY <1>1, TreeNull
<1>4. KeysMem /\ GoneKept
  BY DEF Init, KeysMem, GoneKept
<1>5. Phase
  BY <1>3 DEF Init, Phase, Dir
<1> QED
  BY <1>2, <1>4, <1>5 DEF SplayInv

LEMMA CallInv ==
    ASSUME SplayInv, NEW o \in Ops, NEW i \in Key, Call(o, i)
    PROVE  SplayInv'
<1> USE DEF SplayInv
<1>1. pc = "idle" /\ gone = Null /\ gone' = Null /\ mem' = mem /\ root' = root
  BY DEF Call, GoneKept
<1>2. Tree(child, root, mem) /\ root \in Ptr /\ mem \in SUBSET Key /\ Whole' = mem /\ keys = mem
  BY <1>1 DEF Phase, PtrType, Whole, KeysMem
<1>3. op' = [name |-> o, key |-> i] /\ op' \in [name : Ops, key : Key] /\ Splay(root)
  BY DEF Call
<1>4. /\ child' \in Heap /\ t' = root /\ y' = Null /\ tail' \in [Dir -> Key \cup {N}]
      /\ pc' \in {"loop", "return"}
      /\ Phase'
  BY <1>2, <1>3, SplayBegins
<1>5. keys' = CASE o = "insert" -> mem \cup {i} [] o = "delete" -> mem \ {i} [] OTHER -> mem
  BY <1>2 DEF Call
<1>6. PtrType'
  BY <1>1, <1>2, <1>3, <1>4, <1>5 DEF PtrType, Ptr
<1>7. op'.name = o /\ op'.key = i /\ pc' # "idle"
  BY <1>3, <1>4
<1>8. KeysMem'
  BY <1>1, <1>5, <1>7 DEF KeysMem
<1>9. GoneKept'
  BY <1>1 DEF GoneKept
<1> QED
  BY <1>4, <1>6, <1>8, <1>9

(* What holds in the loop of splaytree_splay: t and its child on the way   *)
(* to the key are not the ends of the side trees.                          *)
LEMMA InLoop ==
    ASSUME PtrType, Split, NEW d \in Dir
    PROVE  /\ Cut \in Heap /\ t \in Key /\ t \in Whole /\ Whole \subseteq Key
           /\ child[d][t] \in Ptr /\ Cut[d][t] = child[d][t]
           /\ \A e \in Dir : tail[e] # t /\ tail[e] \in Whole \cup {N}
           /\ child[d][t] # Null =>
                /\ child[d][t] \in Whole
                /\ \A e \in Dir : tail[e] # child[d][t] /\ Cut[e][child[d][t]] = child[e][child[d][t]]
<1>1. /\ Cut \in Heap
      /\ \A e \in Dir : \A x \in Key \cup {N} :
           Cut[e][x] = IF x = tail[e] THEN Null ELSE child[e][x]
  BY CutHeap
<1>2. t \in Key /\ Splits(Cut, t, tail, op.key, Whole) /\ op.key \in Key /\ tail \in [Dir -> Key \cup {N}]
  BY DEF Split, PtrType
<1>3. /\ Whole \subseteq Key /\ Reach(Cut, t) \subseteq Whole /\ t \in Reach(Cut, t)
      /\ \A e \in Dir : tail[e] \notin Reach(Cut, t) /\ tail[e] \in Whole \cup {N}
  BY <1>1, <1>2, SplitsApart
<1>4. \A e \in Dir : \A x \in Reach(Cut, t) : x \in Key /\ tail[e] # x /\ Cut[e][x] = child[e][x]
  BY <1>1, <1>3
<1>5. child[d][t] \in Ptr
  BY <1>2 DEF PtrType, Heap
<1>6. Cut[d][t] = child[d][t]
  BY <1>3, <1>4
<1>7. child[d][t] # Null => child[d][t] \in Reach(Cut, t)
  BY <1>1, <1>2, <1>3, <1>6, ReachClosed DEF Ptr
<1> QED
  BY <1>1, <1>2, <1>3, <1>4, <1>5, <1>6, <1>7

(* What Rotate writes, with the ends cut off.                              *)
LEMMA RotateStep ==
    ASSUME SplayInv, Rotate
    PROVE  \E d \in Dir, c \in Key :
             /\ d = Toward(t) /\ c = child[d][t] /\ t' = c
             /\ t \in Whole /\ c \in Whole /\ Whole \subseteq Key
             /\ Cut \in Heap /\ Cut' \in Heap /\ Cut[d][t] = c /\ Rotates(Cut, Cut', t, c, d)
             /\ child' \in Heap /\ \A x \in Key \ {t, c}, e \in Dir : child'[e][x] = child[e][x]
<1> USE DEF SplayInv
<1>1. /\ pc = "loop" /\ pc' = "link" /\ Split /\ ~ Found(t)
      /\ UNCHANGED <<mem, root, op, keys, tail, y, gone>>
  BY DEF Rotate, Phase, caller, splaying
<1>2. PICK d \in Dir : d = Toward(t)
  BY <1>1, TowardLess DEF Split
<1>3. Other(d) \in Dir /\ Other(d) # d
  BY LessFacts
<1>4. PICK c : c = child[d][t]
  OBVIOUS
<1>5. /\ c # Null /\ t' = c
      /\ child' = [child EXCEPT ![d][t] = child[Other(d)][c], ![Other(d)][c] = t]
  BY <1>2, <1>4 DEF Rotate
<1>6. /\ Cut \in Heap /\ t \in Key /\ t \in Whole /\ Whole \subseteq Key
      /\ c \in Ptr /\ Cut[d][t] = c
      /\ \A e \in Dir : tail[e] # t
      /\ c \in Whole
      /\ \A e \in Dir : tail[e] # c /\ Cut[e][c] = child[e][c]
  BY <1>1, <1>4, <1>5, InLoop
<1>7. c \in Key /\ child \in Heap /\ child[Other(d)][c] \in Ptr
  BY <1>3, <1>6 DEF PtrType, Heap
<1>8. /\ child' \in Heap
      /\ child'[d][t] = child[Other(d)][c] /\ child'[Other(d)][c] = t
      /\ \A x \in Key \cup {N}, e \in Dir :
           <<x, e>> # <<t, d>> /\ <<x, e>> # <<c, Other(d)>> => child'[e][x] = child[e][x]
  BY <1>3, <1>5, <1>6, <1>7 DEF Heap, Ptr
<1>9. /\ \A e \in Dir : \A x \in Key \cup {N} :
            Cut[e][x] = IF x = tail[e] THEN Null ELSE child[e][x]
      /\ Cut' \in Heap
      /\ \A e \in Dir : \A x \in Key \cup {N} :
            Cut'[e][x] = IF x = tail[e] THEN Null ELSE child'[e][x]
  <2>1. /\ Cut' \in Heap
        /\ \A e \in Dir : \A x \in Key \cup {N} :
            Cut'[e][x] = IF x = tail'[e] THEN Null ELSE child'[e][x]
    <3>1. Cut' = CutAt(child', tail') /\ child' \in Heap /\ tail' \in [Dir -> Key \cup {N}]
      BY <1>1, <1>8 DEF Cut, CutAt, PtrType
    <3> QED
      BY <3>1, CutOf
  <2> QED
    BY <1>1, <2>1, CutHeap
<1>10. PICK H2 \in Heap : H2 = Cut'
  BY <1>9
<1>11. H2[d][t] = Cut[Other(d)][c] /\ H2[Other(d)][c] = t
  BY <1>3, <1>6, <1>7, <1>8, <1>9, <1>10
<1>12. \A x \in Key \cup {N}, e \in Dir :
          <<x, e>> # <<t, d>> /\ <<x, e>> # <<c, Other(d)>> => H2[e][x] = Cut[e][x]
  BY <1>8, <1>9, <1>10
<1>13. Cut' \in Heap /\ Rotates(Cut, Cut', t, c, d)
  BY <1>10, <1>11, <1>12 DEF Rotates
<1>14. \A x \in Key \ {t, c}, e \in Dir : child'[e][x] = child[e][x]
  BY <1>8
<1>15. /\ d = Toward(t) /\ c = child[d][t] /\ t' = c
       /\ t \in Whole /\ c \in Whole /\ Whole \subseteq Key
       /\ Cut \in Heap /\ Cut[d][t] = c
  BY <1>2, <1>4, <1>5, <1>6
<1> QED
  BY <1>7, <1>8, <1>13, <1>14, <1>15

LEMMA RotateInv ==
    ASSUME SplayInv, Rotate
    PROVE  SplayInv'
<1> USE DEF SplayInv
<1>1. /\ pc = "loop" /\ pc' = "link" /\ Split
      /\ UNCHANGED <<mem, root, op, keys, tail, y, gone>>
  BY DEF Rotate, Phase, caller, splaying
<1>2. PICK d \in Dir, c \in Key :
         /\ t' = c /\ t \in Whole /\ c \in Whole /\ Whole \subseteq Key
         /\ Cut \in Heap /\ Cut' \in Heap /\ Cut[d][t] = c /\ Rotates(Cut, Cut', t, c, d)
         /\ child' \in Heap /\ \A x \in Key \ {t, c}, e \in Dir : child'[e][x] = child[e][x]
  BY RotateStep
<1>3. PtrType'
  BY <1>1, <1>2 DEF PtrType, Ptr
<1>4. Splits(Cut', c, tail, op.key, Whole)
  <2>1. Splits(Cut, t, tail, op.key, Whole) /\ op.key \in Key /\ tail \in [Dir -> Key \cup {N}] /\ t \in Key
    BY <1>1 DEF Split, PtrType
  <2>2. PICK H \in Heap, H2 \in Heap : H = Cut /\ H2 = Cut' /\ c = H[d][t] /\ Rotates(H, H2, t, c, d)
    BY <1>2
  <2>3. PICK M \in SUBSET Key, S \in [Dir -> SUBSET Key] : Parts(H, t, tail, op.key, Whole, M, S)
    BY <2>1, <2>2 DEF Splits
  <2>4. Parts(H2, c, tail, op.key, Whole, M, S)
    BY <2>1, <2>2, <2>3, RotateParts
  <2> QED
    BY <2>2, <2>4 DEF Splits
<1>5. Whole' = Whole
  BY <1>1 DEF Whole
<1>6. Split'
  BY <1>1, <1>2, <1>4, <1>5 DEF Split
<1>7. Phase'
  BY <1>1, <1>6 DEF Phase, Dir
<1>8. KeysMem'
  BY <1>1 DEF KeysMem
<1>9. GoneKept'
  <2>1. \A x \in Key \ Whole, e \in Dir : child'[e][x] = child[e][x]
    BY <1>2
  <2>2. pc' # "idle" /\ t' # Null
    BY <1>1, <1>2, SplayAssumption
  <2> QED
    BY <1>1, <1>2, <2>1, <2>2, KeepGone
<1> QED
  BY <1>3, <1>7, <1>8, <1>9

(* What Link writes, with the ends cut off.                                *)
LEMMA LinkStep ==
    ASSUME SplayInv, Link
    PROVE  \E d \in Dir, c \in Key :
             /\ d = Toward(t) /\ t' = c /\ t \in Whole /\ c \in Whole /\ Whole \subseteq Key
             /\ tail' \in [Dir -> Key \cup {N}]
             /\ Cut \in Heap /\ Cut' \in Heap /\ Links(Cut, Cut', t, c, op.key, tail, tail', d)
             /\ child' \in Heap /\ \A x \in Key \ Whole, e \in Dir : child'[e][x] = child[e][x]
<1> USE DEF SplayInv
<1>1. /\ pc \in {"loop", "link"} /\ pc' = "loop" /\ Split /\ ~ Found(t)
      /\ UNCHANGED <<mem, root, op, keys, y, gone>>
  BY DEF Link, CanLink, Phase, caller
<1>2. PICK d \in Dir : d = Toward(t) /\ Less(d, op.key, t)
  BY <1>1, TowardLess DEF Split
<1>3. Other(d) \in Dir /\ Other(d) # d
  BY LessFacts
<1>4. PICK c : c = child[d][t]
  OBVIOUS
<1>5. PICK r : r = tail[d]
  OBVIOUS
<1>6. c # Null /\ t' = c /\ child' = [child EXCEPT ![d][r] = t] /\ tail' = [tail EXCEPT ![d] = t]
  BY <1>2, <1>4, <1>5 DEF Link, CanLink, Ends
<1>7. /\ Cut \in Heap /\ t \in Key /\ t \in Whole /\ Whole \subseteq Key
      /\ c \in Ptr /\ Cut[d][t] = c
      /\ \A e \in Dir : tail[e] # t /\ tail[e] \in Whole \cup {N}
      /\ c \in Whole
  BY <1>1, <1>4, <1>6, InLoop
<1>8. c \in Key /\ child \in Heap /\ r \in Key \cup {N} /\ r # t /\ r \in Whole \cup {N} /\ t \in Ptr
  BY <1>5, <1>7 DEF PtrType, Ptr
<1>9. /\ child' \in Heap /\ child'[d][r] = t
      /\ \A x \in Key \cup {N}, e \in Dir : <<x, e>> # <<r, d>> => child'[e][x] = child[e][x]
  BY <1>6, <1>8 DEF Heap
<1>10. tail \in [Dir -> Key \cup {N}] /\ tail' \in [Dir -> Key \cup {N}]
  BY <1>6, <1>7 DEF PtrType
<1>11. \A e \in Dir : \A x \in Key \cup {N} :
          Cut[e][x] = IF x = tail[e] THEN Null ELSE child[e][x]
  BY CutHeap
<1>12. PICK H2 \in Heap : /\ H2 = Cut'
                          /\ \A e \in Dir : \A x \in Key \cup {N} :
                               H2[e][x] = IF x = tail'[e] THEN Null ELSE child'[e][x]
  <2>1. Cut' = CutAt(child', tail')
    BY DEF Cut, CutAt
  <2> QED
    BY <1>9, <1>10, <2>1, CutOf
<1>13. PICK H \in Heap : H = Cut
  BY <1>7
<1>14. Links(H, H2, t, c, op.key, tail, tail', d)
  <2>1. tail'[d] = t /\ tail'[Other(d)] = tail[Other(d)]
    BY <1>3, <1>6, <1>10
  <2>2. H2[d][r] = t /\ H2[d][t] = Null
    BY <1>7, <1>8, <1>9, <1>12, <2>1
  <2>3. ASSUME NEW x \in Key \cup {N}, NEW e \in Dir, <<x, e>> # <<r, d>>, <<x, e>> # <<t, d>>
        PROVE  H2[e][x] = H[e][x]
    <3>1. child'[e][x] = child[e][x]
      BY <1>9, <2>3
    <3>2. CASE e = d
      BY <1>5, <1>11, <1>12, <1>13, <2>1, <2>3, <3>1, <3>2
    <3>3. CASE e = Other(d)
      BY <1>11, <1>12, <1>13, <2>1, <2>3, <3>1, <3>3
    <3> QED
      BY <2>3, <3>2, <3>3, LessFacts
  <2> QED
    BY <1>2, <1>4, <1>5, <1>7, <1>13, <2>1, <2>2, <2>3 DEF Links
<1>15. \A x \in Key \ Whole, e \in Dir : child'[e][x] = child[e][x]
  BY <1>8, <1>9, SplayAssumption
<1> QED
  BY <1>2, <1>6, <1>7, <1>8, <1>9, <1>10, <1>12, <1>13, <1>14, <1>15

LEMMA LinkInv ==
    ASSUME SplayInv, Link
    PROVE  SplayInv'
<1> USE DEF SplayInv
<1>1. /\ pc \in {"loop", "link"} /\ pc' = "loop" /\ Split
      /\ UNCHANGED <<mem, root, op, keys, y, gone>>
  BY DEF Link, CanLink, Phase, caller
<1>2. PICK d \in Dir, c \in Key :
         /\ t' = c /\ tail' \in [Dir -> Key \cup {N}]
         /\ Cut \in Heap /\ Cut' \in Heap /\ Links(Cut, Cut', t, c, op.key, tail, tail', d)
         /\ child' \in Heap /\ \A x \in Key \ Whole, e \in Dir : child'[e][x] = child[e][x]
  BY LinkStep
<1>3. PtrType'
  BY <1>1, <1>2 DEF PtrType, Ptr
<1>4. Splits(Cut', c, tail', op.key, Whole)
  <2>1. Splits(Cut, t, tail, op.key, Whole) /\ op.key \in Key /\ tail \in [Dir -> Key \cup {N}] /\ t \in Key
    BY <1>1 DEF Split, PtrType
  <2>2. PICK H \in Heap, H2 \in Heap :
           H = Cut /\ H2 = Cut' /\ Links(H, H2, t, c, op.key, tail, tail', d)
    BY <1>2
  <2>3. PICK M \in SUBSET Key, S \in [Dir -> SUBSET Key] : Parts(H, t, tail, op.key, Whole, M, S)
    BY <2>1, <2>2 DEF Splits
  <2>4. \E A \in SUBSET Key, S2 \in [Dir -> SUBSET Key] : Parts(H2, c, tail', op.key, Whole, A, S2)
    BY <1>2, <2>1, <2>2, <2>3, LinkParts
  <2> QED
    BY <2>2, <2>4 DEF Splits
<1>5. Whole' = Whole
  BY <1>1 DEF Whole
<1>6. Split'
  BY <1>1, <1>2, <1>4, <1>5 DEF Split
<1>7. Phase'
  BY <1>1, <1>6 DEF Phase, Dir
<1>8. KeysMem'
  BY <1>1 DEF KeysMem
<1>9. GoneKept'
  <2>1. pc' # "idle" /\ t' # Null
    BY <1>1, <1>2, SplayAssumption
  <2> QED
    BY <1>1, <1>2, <2>1, KeepGone
<1> QED
  BY <1>3, <1>7, <1>8, <1>9

LEMMA BreakInv ==
    ASSUME SplayInv, Break
    PROVE  SplayInv'
<1> USE DEF SplayInv
<1>1. /\ pc \in {"loop", "link"} /\ pc' = "right" /\ Split /\ Stop
      /\ child' = Cut /\ y' = Cut["right"][N]
      /\ UNCHANGED <<mem, root, op, keys, t, tail, gone>>
  BY DEF Break, Phase, caller
<1>2. PICK d \in Dir : d = Toward(t)
  BY <1>1, TowardLess DEF Split
<1>3. /\ Cut \in Heap /\ t \in Key /\ Whole \subseteq Key /\ Cut[d][t] = child[d][t]
      /\ \A e \in Dir : tail[e] \in Whole \cup {N}
  BY <1>1, InLoop
<1>4. \A e \in Dir : \A x \in Key \cup {N} :
         Cut[e][x] = IF x = tail[e] THEN Null ELSE child[e][x]
  BY CutHeap
<1>5. PtrType'
  BY <1>1, <1>3 DEF PtrType, Heap, Dir
<1>6. Cut' = Cut
  <2>1. Cut' = CutAt(Cut, tail) /\ tail \in [Dir -> Key \cup {N}]
    BY <1>1 DEF Cut, CutAt, PtrType
  <2>2. PICK H \in Heap : H = Cut
    BY <1>3
  <2>3. PICK G \in Heap : G = Cut' /\ \A e \in Dir : \A x \in Key \cup {N} :
                                       G[e][x] = IF x = tail[e] THEN Null ELSE H[e][x]
    BY <2>1, <2>2, CutOf
  <2>4. \A e \in Dir : \A x \in Key \cup {N} : G[e][x] = H[e][x]
    BY <1>4, <2>2, <2>3
  <2> QED
    BY <2>2, <2>3, <2>4, HeapEq
<1>7. Whole' = Whole
  BY <1>1 DEF Whole
<1>8. Split'
  BY <1>1, <1>6, <1>7 DEF Split
<1>9. Near
  <2>1. Splits(Cut, t, tail, op.key, Whole) /\ op.key \in Key /\ tail \in [Dir -> Key \cup {N}]
    BY <1>1 DEF Split, PtrType
  <2>2. op.key = t \/ (Less(d, op.key, t) /\ Cut[d][t] = Null)
    BY <1>1, <1>2, <1>3, TowardLess DEF Stop
  <2> QED
    BY <1>3, <2>1, <2>2, StopNear DEF Near
<1>10. Near'
  BY <1>1, <1>7, <1>9 DEF Near
<1>11. Phase'
  BY <1>1, <1>6, <1>8, <1>10 DEF Phase, Dir
<1>12. KeysMem'
  BY <1>1 DEF KeysMem
<1>13. GoneKept'
  <2>1. \A x \in Key \ Whole, e \in Dir : child'[e][x] = child[e][x]
    BY <1>1, <1>3, <1>4, SplayAssumption
  <2>2. pc' # "idle" /\ t' # Null
    BY <1>1, <1>3, SplayAssumption
  <2>3. child' \in Heap
    BY <1>1, <1>3
  <2> QED
    BY <1>1, <2>1, <2>2, <2>3, KeepGone
<1> QED
  BY <1>5, <1>11, <1>12, <1>13

(* The loops that correct the sizes leave the pointers alone.              *)
LEMMA CorrectInv ==
    ASSUME SplayInv, Correct \/ SecondLoop
    PROVE  SplayInv'
<1> USE DEF SplayInv
<1>1. /\ pc \in Dir /\ pc' \in Dir /\ UNCHANGED <<child, mem, root, op, keys, t, tail, gone>>
  BY DEF Correct, SecondLoop, caller, Dir
<1>2. y' \in Ptr
  <2>1. \A e \in Dir, x \in Key \cup {N} : child[e][x] \in Ptr
    BY DEF PtrType, Heap
  <2>2. CASE Correct
    <3>1. y \in Key /\ y' = child[pc][y]
      BY <2>2 DEF Correct, PtrType, Ptr
    <3> QED
      BY <1>1, <2>1, <3>1
  <2>3. CASE SecondLoop
    BY <2>1, <2>3 DEF SecondLoop, Dir
  <2> QED
    BY <2>2, <2>3
<1>3. PtrType'
  BY <1>1, <1>2 DEF PtrType, Dir
<1>4. Cut' = Cut /\ Whole' = Whole
  BY <1>1 DEF Cut, Whole
<1>5. Split /\ child = Cut /\ Near
  BY <1>1 DEF Phase
<1>6. Split' /\ child' = Cut' /\ Near'
  BY <1>1, <1>4, <1>5 DEF Split, Near
<1>7. Phase'
  BY <1>1, <1>6 DEF Phase, Dir
<1>8. KeysMem' /\ GoneKept'
  BY <1>1 DEF KeysMem, GoneKept, Dir
<1> QED
  BY <1>3, <1>7, <1>8

LEMMA AssembleInv ==
    ASSUME SplayInv, Assemble
    PROVE  SplayInv'
<1> USE DEF SplayInv
<1>1. /\ Split /\ child = Cut /\ Near /\ pc' = "return" /\ child' = Joined /\ pc = "left"
      /\ UNCHANGED <<mem, root, op, keys, t, tail, y, gone>>
  BY DEF Assemble, Phase, caller, splaying, Dir
<1>2. /\ t \in Key /\ t \in Whole /\ Whole \subseteq Key
      /\ \A e \in Dir : tail[e] # t /\ tail[e] \in Whole \cup {N}
  BY <1>1, InLoop DEF Dir
<1>3. child \in Heap /\ tail \in [Dir -> Key \cup {N}] /\ op.key \in Key
  BY DEF PtrType
<1>4. PICK J \in Heap : J = child' /\ Joins(child, J, t, tail)
  <2>1. child' = JoinAt(child, t, tail)
    BY <1>1 DEF Joined, JoinAt
  <2> QED
    BY <1>2, <1>3, <2>1, JoinOf
<1>5. Tree(J, t, Whole)
  <2>1. Splits(child, t, tail, op.key, Whole)
    BY <1>1 DEF Split
  <2> QED
    BY <1>2, <1>3, <1>4, <2>1, JoinTree
<1>6. PtrType'
  BY <1>1, <1>4 DEF PtrType
<1>7. Whole' = Whole
  BY <1>1 DEF Whole
<1>8. Phase'
  BY <1>1, <1>4, <1>5, <1>7 DEF Phase, Near, Dir
<1>9. KeysMem'
  BY <1>1 DEF KeysMem
<1>10. GoneKept'
  <2>1. \A x \in Key \ Whole, e \in Dir : child'[e][x] = child[e][x]
    BY <1>2, <1>4, SplayAssumption DEF Joins
  <2>2. pc' # "idle" /\ t' # Null
    BY <1>1, <1>2, SplayAssumption
  <2> QED
    BY <1>1, <1>4, <2>1, <2>2, KeepGone
<1> QED
  BY <1>6, <1>8, <1>9, <1>10

(* An operation returns a tree of the nodes that are allocated then.       *)
LEMMA DoneInv ==
    ASSUME PtrType, NEW n \in Ptr, NEW G \in Heap, mem' \subseteq Key,
           Tree(G, n, mem'), Done(n, G), keys = mem'
    PROVE  SplayInv'
<1>1. /\ pc' = "idle" /\ t' = n /\ root' = n /\ gone' = Null
      /\ tail' = [d \in Dir |-> N] /\ UNCHANGED <<op, y, keys>>
      /\ child' = [d \in Dir |-> [x \in Key \cup {N} |-> IF x \in mem' THEN G[d][x] ELSE Null]]
  BY DEF Done
<1>2. \A d \in Dir, x \in Key \cup {N} : G[d][x] \in Ptr
  BY DEF Heap
<1>3. Null \in Ptr
  BY DEF Ptr
<1>4. child' \in Heap /\ Agree(G, child', mem')
  BY <1>1, <1>2, <1>3 DEF Heap, Agree
<1>5. Tree(child', n, mem')
  BY <1>4, Frame
<1>6. tail' \in [Dir -> Key \cup {N}]
  BY <1>1
<1>7. PtrType'
  BY <1>1, <1>3, <1>4, <1>6 DEF PtrType
<1>8. KeysMem' /\ GoneKept'
  BY <1>1 DEF KeysMem, GoneKept
<1>9. Phase'
  BY <1>1, <1>5 DEF Phase, Dir
<1> QED
  BY <1>7, <1>8, <1>9 DEF SplayInv

(* What holds when splaytree_splay has returned.                           *)
LEMMA AtReturn ==
    ASSUME SplayInv, pc = "return"
    PROVE  /\ PtrType /\ child \in Heap /\ t \in Ptr /\ mem \in SUBSET Key /\ Whole \subseteq mem
           /\ Tree(child, t, Whole) /\ (gone = Null => Whole = mem)
           /\ op.key \in Key
           /\ t = Null => Whole = {}
           /\ t # Null => t \in Key /\ t \in Whole /\ NearTo(op.key, t, Whole)
           /\ AtRoot <=> t = op.key
           /\ AtRoot <=> op.key \in Whole
<1>1. PtrType /\ child \in Heap /\ t \in Ptr /\ mem \in SUBSET Key /\ op.key \in Key
  BY DEF SplayInv, PtrType
<1>2. Tree(child, t, Whole) /\ (t # Null => NearTo(op.key, t, Whole))
  BY DEF SplayInv, Phase, Near
<1>3. Whole \subseteq mem /\ (gone = Null => Whole = mem)
  BY DEF Whole
<1>4. t = Null => Whole = {}
  BY <1>1, <1>2, ReachNull DEF Tree
<1>5. t # Null => t \in Key /\ t \in Whole
  BY <1>1, <1>2, ReachClosed DEF Tree, Ptr
<1>6. AtRoot <=> t = op.key
  BY <1>1, <1>5, TowardLess, SplayAssumption DEF AtRoot
<1>7. AtRoot <=> op.key \in Whole
  <2>1. CASE t = Null
    BY <1>1, <1>4, <1>6, <2>1, SplayAssumption
  <2>2. CASE t # Null
    <3>1. NearTo(op.key, t, Whole) /\ t \in Whole
      BY <1>2, <1>5, <2>2
    <3>2. op.key \in Whole => t = op.key
      BY <3>1 DEF NearTo
    <3> QED
      BY <1>6, <3>1, <3>2
  <2> QED
    BY <2>1, <2>2
<1> QED
  BY <1>1, <1>2, <1>3, <1>4, <1>5, <1>6, <1>7

LEMMA ReturnInv ==
    ASSUME SplayInv, ReturnSplay \/ InsertPresent \/ DeleteAbsent
    PROVE  SplayInv'
<1>1. pc = "return" /\ mem' = mem /\ Done(t, child)
  BY DEF ReturnSplay, InsertPresent, DeleteAbsent, Returning
<1>2. /\ PtrType /\ child \in Heap /\ t \in Ptr /\ mem \in SUBSET Key
      /\ Tree(child, t, Whole) /\ (gone = Null => Whole = mem)
      /\ AtRoot <=> op.key \in Whole
  BY <1>1, AtReturn
<1>3. gone = Null
  BY DEF ReturnSplay, InsertPresent, DeleteAbsent, Returning, SplayInv, GoneKept
<1>4. keys = mem
  <2>1. KeysMem
    BY DEF SplayInv
  <2>2. CASE ReturnSplay
    BY <1>1, <2>1, <2>2 DEF ReturnSplay, Returning, KeysMem
  <2>3. CASE InsertPresent
    BY <1>1, <1>2, <1>3, <2>1, <2>3 DEF InsertPresent, Returning, KeysMem
  <2>4. CASE DeleteAbsent
    BY <1>1, <1>2, <1>3, <2>1, <2>4 DEF DeleteAbsent, Returning, KeysMem
  <2> QED
    BY <2>2, <2>3, <2>4
<1> QED
  BY <1>1, <1>2, <1>3, <1>4, DoneInv

(* The pointers splaytree_insert leaves.                                   *)
InsertAt(heap, n, i, d) == [heap EXCEPT ![d][i] = heap[d][n], ![d][n] = Null, ![Other(d)][i] = n]

LEMMA InsertOf ==
    ASSUME NEW H \in Heap, NEW n \in Key, NEW i \in Key, i # n, NEW d \in Dir
    PROVE  LET G == InsertAt(H, n, i, d)
           IN  /\ G \in Heap /\ G[d][i] = H[d][n] /\ G[d][n] = Null /\ G[Other(d)][i] = n
               /\ \A x \in Key, e \in Dir : x # i /\ <<x, e>> # <<n, d>> => G[e][x] = H[e][x]
<1>1. Other(d) \in Dir /\ Other(d) # d
  BY LessFacts
<1>2. H[d][n] \in Ptr /\ Null \in Ptr /\ n \in Ptr
  BY DEF Heap, Ptr
<1> QED
  BY <1>1, <1>2 DEF Heap, InsertAt

LEMMA InsertInv ==
    ASSUME SplayInv, Insert
    PROVE  SplayInv'
<1>1. pc = "return" /\ op.name = "insert" /\ ~ AtRoot
  BY DEF Insert, Returning
<1>2. /\ PtrType /\ child \in Heap /\ t \in Ptr /\ mem \in SUBSET Key
      /\ Tree(child, t, Whole) /\ (gone = Null => Whole = mem)
      /\ op.key \in Key /\ (t = Null => Whole = {})
      /\ t # Null => t \in Key /\ NearTo(op.key, t, Whole)
      /\ AtRoot <=> t = op.key
  BY <1>1, AtReturn
<1>3. gone = Null /\ Whole = mem
  BY <1>1, <1>2 DEF SplayInv, GoneKept
<1>4. PICK i \in Key : i = op.key
  BY <1>2
<1>5. mem' = mem \cup {i} /\ keys = mem \cup {i}
  BY <1>1, <1>4 DEF Insert, SplayInv, KeysMem
<1>6. CASE t = Null
  <2>1. PICK G : G = [e \in Dir |-> [child[e] EXCEPT ![i] = Null]]
    OBVIOUS
  <2>2. Done(i, G)
    BY <1>4, <1>6, <2>1 DEF Insert
  <2>3. G \in Heap /\ G["left"][i] = Null /\ G[Other("left")][i] = Null /\ "left" \in Dir
    BY <1>2, <2>1 DEF Heap, Dir, Other, Ptr
  <2>4. Tree(G, Null, {})
    BY <2>3, TreeNull
  <2>5. Tree(G, i, {i} \cup {} \cup {})
    BY <2>3, <2>4, TreeNode
  <2>6. mem' = {i} \cup {} \cup {}
    BY <1>2, <1>3, <1>5, <1>6
  <2> QED
    BY <1>2, <1>5, <2>2, <2>3, <2>5, <2>6, DoneInv DEF Ptr
<1>7. CASE t # Null
  <2>1. t \in Key /\ t # i
    BY <1>1, <1>2, <1>4, <1>7
  <2>2. PICK d \in Dir : d = Toward(t) /\ Less(d, i, t)
    BY <1>2, <1>4, <2>1, TowardLess
  <2>3. PICK G : G = InsertAt(child, t, i, d)
    OBVIOUS
  <2>4. Done(i, G)
    BY <1>4, <1>7, <2>2, <2>3 DEF Insert, InsertAt
  <2>5. /\ G \in Heap /\ G[d][i] = child[d][t] /\ G[d][t] = Null /\ G[Other(d)][i] = t
        /\ \A x \in Key, e \in Dir : x # i /\ <<x, e>> # <<t, d>> => G[e][x] = child[e][x]
    BY <1>2, <2>1, <2>3, InsertOf
  <2>6. Tree(child, t, mem) /\ NearTo(i, t, mem)
    BY <1>2, <1>3, <1>4, <1>7
  <2>7. \A x \in mem, e \in Dir : x # i /\ <<x, e>> # <<t, d>> => G[e][x] = child[e][x]
    BY <1>2, <2>5
  <2>8. Tree(G, i, mem \cup {i})
    BY <1>2, <2>1, <2>2, <2>5, <2>6, <2>7, InsertTree
  <2> QED
    BY <1>2, <1>5, <2>4, <2>5, <2>8, DoneInv DEF Ptr
<1> QED
  BY <1>6, <1>7

(* The root's two subtrees are the keys on either side of it.              *)
LEMMA RootParts ==
    ASSUME NEW H \in Heap, NEW n \in Key, NEW W \in SUBSET Key, Tree(H, n, W)
    PROVE  /\ H["left"][n] \in Ptr /\ H["right"][n] \in Ptr
           /\ Tree(H, H["left"][n], {k \in W : k < n})
           /\ Tree(H, H["right"][n], {k \in W : n < k})
<1>1. "left" \in Dir /\ Other("left") = "right"
  BY DEF Dir, Other
<1>2. PICK A \in SUBSET Key, B \in SUBSET Key :
        /\ H["left"][n] \in Ptr /\ H[Other("left")][n] \in Ptr
        /\ Tree(H, H["left"][n], A) /\ Tree(H, H[Other("left")][n], B)
        /\ W = {n} \cup A \cup B
        /\ \A a \in A : Less("left", a, n)
        /\ \A b \in B : Less(Other("left"), b, n)
  BY <1>1, TreeParts
<1>3. (\A a \in A : a < n) /\ (\A b \in B : n < b)
  BY <1>1, <1>2 DEF Less
<1>4. n \in Int /\ \A x \in W : x \in Int
  BY SplayAssumption
<1>5. A = {k \in W : k < n} /\ B = {k \in W : n < k}
  <2>1. \A x \in W : (x = n \/ x \in A \/ x \in B) /\ (x < n => ~ (n < x) /\ x # n) /\ (n < x => x # n)
    BY <1>2, <1>4
  <2>2. \A x \in W : (x < n => x \in A) /\ (n < x => x \in B)
    BY <1>3, <2>1
  <2>3. A \subseteq W /\ B \subseteq W
    BY <1>2
  <2> QED
    BY <1>3, <2>2, <2>3
<1> QED
  BY <1>1, <1>2, <1>5

(* splaytree_delete of a root with nothing on its left.                    *)
LEMMA DeleteNoLeftStep ==
    ASSUME SplayInv, DeleteNoLeft
    PROVE  /\ PtrType /\ child \in Heap /\ mem \in SUBSET Key /\ Tree(child, t, mem)
           /\ t \in Key /\ op.key = t /\ child["right"][t] \in Ptr
           /\ mem = {t} \cup mem' /\ t \notin mem' /\ Tree(child, child["right"][t], mem')
<1>1. /\ pc = "return" /\ op.name = "delete" /\ AtRoot /\ gone = Null /\ child["left"][t] = Null
      /\ mem' = mem \ {t} /\ Done(child["right"][t], child)
  BY DEF DeleteNoLeft, Returning, Free
<1>2. /\ PtrType /\ child \in Heap /\ mem \in SUBSET Key
      /\ Tree(child, t, mem) /\ op.key = t /\ t \in Key
  BY <1>1, AtReturn
<1>a. PICK A \in SUBSET Key, B \in SUBSET Key : A = {k \in mem : k < t} /\ B = {k \in mem : t < k}
  BY <1>2
<1>3. /\ child["right"][t] \in Ptr
      /\ Tree(child, child["left"][t], A) /\ Tree(child, child["right"][t], B)
  BY <1>2, <1>a, RootParts
<1>b. mem = {t} \cup A \cup B
  <2>1. "left" \in Dir /\ Other("left") = "right"
    BY DEF Dir, Other
  <2>2. Reach(child, t) = {t} \cup Reach(child, child["left"][t]) \cup Reach(child, child["right"][t])
    BY <1>2, <2>1, ReachNode
  <2> QED
    BY <1>2, <1>3, <2>2 DEF Tree
<1>4. A = {}
  BY <1>1, <1>2, <1>3, ReachNull DEF Tree
<1>5. mem' = B /\ t \notin B /\ mem = {t} \cup B
  <2>1. t \notin B
    BY <1>2, <1>a, SplayAssumption
  <2> QED
    BY <1>1, <1>b, <1>4, <2>1
<1> QED
  BY <1>2, <1>3, <1>5

LEMMA DeleteNoLeftInv ==
    ASSUME SplayInv, DeleteNoLeft
    PROVE  SplayInv'
<1>1. pc = "return" /\ op.name = "delete" /\ mem' = mem \ {t} /\ Done(child["right"][t], child)
  BY DEF DeleteNoLeft, Returning, Free
<1>2. /\ PtrType /\ child \in Heap /\ mem \in SUBSET Key /\ op.key = t
      /\ child["right"][t] \in Ptr /\ Tree(child, child["right"][t], mem')
  BY DeleteNoLeftStep
<1>3. keys = mem'
  BY <1>1, <1>2 DEF SplayInv, KeysMem
<1> QED
  BY <1>1, <1>2, <1>3, DoneInv

LEMMA DeleteSplayLeftInv ==
    ASSUME SplayInv, DeleteSplayLeft
    PROVE  SplayInv'
<1>1. /\ pc = "return" /\ op.name = "delete" /\ AtRoot /\ gone = Null /\ child["left"][t] # Null
      /\ gone' = t /\ Splay(child["left"][t]) /\ UNCHANGED <<mem, root, op, keys>>
  BY DEF DeleteSplayLeft, Returning, caller
<1>2. /\ PtrType /\ child \in Heap /\ mem \in SUBSET Key
      /\ Tree(child, t, mem) /\ op.key = t /\ t \in Key /\ t \in mem
  BY <1>1, AtReturn
<1>3. PICK A \in SUBSET Key, B \in SUBSET Key : A = {k \in mem : k < t} /\ B = {k \in mem : t < k}
  BY <1>2
<1>4. /\ child["left"][t] \in Ptr /\ child["right"][t] \in Ptr
      /\ Tree(child, child["left"][t], A) /\ Tree(child, child["right"][t], B)
  BY <1>2, <1>3, RootParts
<1>5. Whole' = A /\ gone' # Null
  BY <1>1, <1>2, <1>3, SplayAssumption DEF Whole
<1>6. op' \in [name : Ops, key : Key]
  BY <1>1, <1>2 DEF PtrType
<1>7. /\ child' \in Heap /\ t' = child["left"][t] /\ y' = Null /\ tail' \in [Dir -> Key \cup {N}]
      /\ pc' \in {"loop", "return"}
      /\ \A x \in Key, e \in Dir : child'[e][x] = child[e][x]
      /\ Phase'
  BY <1>1, <1>2, <1>4, <1>5, <1>6, SplayBegins
<1>8. PtrType'
  BY <1>1, <1>2, <1>4, <1>6, <1>7 DEF PtrType, Ptr
<1>9. KeysMem'
  BY <1>1, <1>7 DEF SplayInv, KeysMem
<1>10. GoneKept'
  <2>1. child'["right"][t] = child["right"][t] /\ Agree(child, child', B)
    BY <1>2, <1>7 DEF Agree, Dir
  <2>2. Tree(child', child["right"][t], B)
    BY <1>2, <1>4, <1>7, <2>1, Frame
  <2> QED
    BY <1>1, <1>2, <1>3, <1>7, <2>1, <2>2 DEF GoneKept
<1> QED
  BY <1>7, <1>8, <1>9, <1>10 DEF SplayInv

(* What was splayed is the largest key of the left subtree, so it has      *)
(* nothing on its right, where the right subtree goes.                     *)
Hangs(heap, G, n, R) ==
    /\ G["right"][n] = R
    /\ \A x \in Key, e \in Dir : <<x, e>> # <<n, "right">> => G[e][x] = heap[e][x]

LEMMA DeleteJoinStep ==
    ASSUME SplayInv, DeleteJoin
    PROVE  \E G \in Heap, S \in SUBSET Key, A \in SUBSET Key, R \in Ptr :
             /\ child \in Heap /\ mem \in SUBSET Key /\ t \in Key /\ t \in S
             /\ R = child["right"][gone] /\ Hangs(child, G, t, R) /\ Done(t, G)
             /\ S = Whole /\ A = {k \in mem : gone < k} /\ S \cap A = {}
             /\ gone \notin S /\ gone \notin A /\ mem = {gone} \cup S \cup A /\ mem' = S \cup A
             /\ Tree(child, t, S) /\ Tree(child, R, A) /\ Tree(G, t, S \cup A)
             /\ child["right"][t] = Null
<1>1. PICK G : G = [child EXCEPT !["right"][t] = child["right"][gone]]
  OBVIOUS
<1>2. /\ pc = "return" /\ op.name = "delete" /\ gone # Null
      /\ mem' = mem \ {gone} /\ Done(t, G)
  BY <1>1 DEF DeleteJoin, Returning, Free
<1>3. /\ gone \in mem /\ op.key = gone /\ t # Null
      /\ Tree(child, child["right"][gone], {k \in mem : gone < k})
  BY <1>2 DEF SplayInv, GoneKept
<1>4. /\ PtrType /\ child \in Heap /\ t \in Ptr /\ mem \in SUBSET Key
      /\ Tree(child, t, Whole) /\ t \in Key /\ t \in Whole /\ NearTo(gone, t, Whole)
  BY <1>2, <1>3, AtReturn
<1>5. PICK S \in SUBSET Key, A \in SUBSET Key :
         S = {k \in mem : k < gone} /\ A = {k \in mem : gone < k} /\ S = Whole
  BY <1>2, <1>4 DEF Whole
<1>6. gone \in Int /\ (\A x \in mem : x \in Int) /\ gone \in Key /\ "right" \in Dir
  BY <1>3, <1>4, SplayAssumption DEF Dir
<1>7. mem' = S \cup A
  <2>1. \A x \in mem : (x # gone <=> x < gone \/ gone < x)
    BY <1>6
  <2>2. \A x : x \in S \cup A <=> x \in mem /\ x # gone
    BY <1>5, <2>1
  <2> QED
    BY <1>2, <2>2
<1>8. \A x \in S : x = t \/ Less("right", t, x)
  <2>1. gone \notin Whole
    BY <1>5, <1>6
  <2>2. \A x \in Whole : ~ (t < x /\ x < gone)
    BY <1>4, <2>1 DEF NearTo
  <2>3. \A x \in S : x \in Int /\ x < gone /\ ~ (t < x)
    BY <1>5, <1>6, <2>2
  <2>4. t \in Int
    BY <1>4, SplayAssumption
  <2> QED
    BY <2>3, <2>4 DEF Less
<1>9. \A a \in A, x \in S : Less("right", a, x)
  BY <1>5, <1>6 DEF Less
<1>10. child["right"][gone] \in Ptr
  BY <1>4, <1>6 DEF Heap
<1>11. /\ G \in Heap /\ G["right"][t] = child["right"][gone]
       /\ \A x \in Key, e \in Dir : <<x, e>> # <<t, "right">> => G[e][x] = child[e][x]
  BY <1>1, <1>4, <1>6, <1>10 DEF Heap
<1>12. \A x \in S, e \in Dir : <<x, e>> # <<t, "right">> => G[e][x] = child[e][x]
  BY <1>11
<1>13. Tree(child, t, S) /\ Tree(G, child["right"][gone], A) /\ t \in S
  <2>1. t \notin A
    BY <1>4, <1>5, <1>6
  <2>2. Agree(child, G, A)
    BY <1>11, <2>1 DEF Agree
  <2>3. Tree(G, child["right"][gone], A)
    BY <1>3, <1>4, <1>5, <1>10, <1>11, <2>2, Frame
  <2> QED
    BY <1>4, <1>5, <2>3
<1>14. Tree(G, t, S \cup A)
  <2>1. PICK d \in Dir, R \in Ptr : d = "right" /\ R = child["right"][gone]
    BY <1>6, <1>10
  <2>2. child \in Heap /\ G \in Heap /\ t \in Ptr /\ Tree(child, t, S) /\ Tree(G, R, A) /\ t \in S
    BY <1>4, <1>11, <1>13, <2>1
  <2>3. \A x \in S : x = t \/ Less(d, t, x)
    BY <1>8, <2>1
  <2>4. \A a \in A, x \in S : Less(d, a, x)
    BY <1>9, <2>1
  <2>5. G[d][t] = R /\ \A x \in S, e \in Dir : <<x, e>> # <<t, d>> => G[e][x] = child[e][x]
    BY <1>11, <1>12, <2>1
  <2> QED
    BY <2>2, <2>3, <2>4, <2>5, Attach
<1>15. S \cap A = {} /\ gone \notin S /\ gone \notin A /\ mem = {gone} \cup S \cup A
  <2>1. \A x \in mem : x = gone \/ x < gone \/ gone < x
    BY <1>6
  <2>2. mem = {gone} \cup S \cup A
    BY <1>3, <1>5, <2>1
  <2>3. ~ (gone < gone) /\ \A x \in mem : ~ (x < gone /\ gone < x)
    BY <1>6
  <2>4. S \cap A = {} /\ gone \notin S /\ gone \notin A
    BY <1>5, <2>3
  <2> QED
    BY <2>2, <2>4
<1>16. child["right"][t] = Null
  BY <1>4, <1>6, <1>8, <1>13, EndIsFree
<1>17. Hangs(child, G, t, child["right"][gone])
  BY <1>11 DEF Hangs
<1>18. Tree(child, child["right"][gone], A)
  BY <1>3, <1>5
<1>19. /\ child \in Heap /\ mem \in SUBSET Key /\ t \in Key /\ Done(t, G)
       /\ S = Whole /\ A = {k \in mem : gone < k}
  BY <1>2, <1>4, <1>5
<1> QED
  BY <1>7, <1>10, <1>11, <1>13, <1>14, <1>15, <1>16, <1>17, <1>18, <1>19

LEMMA DeleteJoinInv ==
    ASSUME SplayInv, DeleteJoin
    PROVE  SplayInv'
<1>1. pc = "return" /\ op.name = "delete" /\ gone # Null /\ mem' = mem \ {gone} /\ PtrType
  BY DEF DeleteJoin, Returning, Free, SplayInv
<1>2. op.key = gone
  BY <1>1 DEF SplayInv, GoneKept
<1>3. PICK G \in Heap, S \in SUBSET Key, A \in SUBSET Key :
         t \in Key /\ mem' = S \cup A /\ Tree(G, t, S \cup A) /\ Done(t, G)
  BY DeleteJoinStep
<1>4. keys = mem'
  BY <1>1, <1>2 DEF SplayInv, KeysMem
<1> QED
  BY <1>1, <1>3, <1>4, DoneInv DEF Ptr

LEMMA NextSplayInv == SplayInv /\ [Next]_vars => SplayInv'
<1> SUFFICES ASSUME SplayInv, [Next]_vars  PROVE SplayInv'
  OBVIOUS
<1>1. CASE UNCHANGED vars
  BY <1>1 DEF vars, SplayInv, PtrType, KeysMem, GoneKept, Phase, Split, Near, Cut, Whole
<1>2. ASSUME NEW o \in Ops, NEW i \in Key, Call(o, i)  PROVE SplayInv'
  BY <1>2, CallInv
<1>3. CASE Rotate
  BY <1>3, RotateInv
<1>4. CASE Link
  BY <1>4, LinkInv
<1>5. CASE Break
  BY <1>5, BreakInv
<1>6. CASE Correct \/ SecondLoop
  BY <1>6, CorrectInv
<1>7. CASE Assemble
  BY <1>7, AssembleInv
<1>8. CASE ReturnSplay \/ InsertPresent \/ DeleteAbsent
  BY <1>8, ReturnInv
<1>9. CASE Insert
  BY <1>9, InsertInv
<1>10. CASE DeleteNoLeft
  BY <1>10, DeleteNoLeftInv
<1>11. CASE DeleteSplayLeft
  BY <1>11, DeleteSplayLeftInv
<1>12. CASE DeleteJoin
  BY <1>12, DeleteJoinInv
<1> QED
  BY <1>1, <1>2, <1>3, <1>4, <1>5, <1>6, <1>7, <1>8, <1>9, <1>10, <1>11, <1>12 DEF Next

LEMMA SplayInvariant == Spec => []SplayInv
BY InitSplayInv, NextSplayInv, PTL DEF Spec

-----------------------------------------------------------------------------
(* Ordered, of SplayTree, is Ord in the code's own heap.                   *)
LEMMA OrdOrdered ==
    ASSUME NEW n, NEW S, Tree(child, n, S)
    PROVE  Ordered(n)
<1>1. \A x \in Reach(child, n), d \in Dir : \A a \in Reach(child, child[d][x]) : Less(d, a, x)
  BY DEF Tree, Ord
<1>2. "left" \in Dir /\ "right" \in Dir
  BY DEF Dir
<1>3. ASSUME NEW x \in Reach(child, n)
      PROVE  /\ \A a \in Reach(child, child["left"][x]) : a < x
             /\ \A b \in Reach(child, child["right"][x]) : x < b
  <2>1. \A a \in Reach(child, child["left"][x]) : Less("left", a, x)
    BY <1>1, <1>2, <1>3
  <2>2. \A b \in Reach(child, child["right"][x]) : Less("right", b, x)
    BY <1>1, <1>2, <1>3
  <2> QED
    BY <2>1, <2>2 DEF Less
<1> QED
  BY <1>3 DEF Ordered, Below

(* splaytree_insert, splaytree_delete and splaytree_splay: whatever was    *)
(* called before, the caller's root leads to exactly the keys inserted and *)
(* not deleted, in order, and no other node is left allocated.             *)
THEOREM SplayHoldsTheKeys == Spec => []HoldsTheKeys
<1>1. SplayInv => HoldsTheKeys
  <2> SUFFICES ASSUME SplayInv, pc = "idle"
               PROVE  Below(root) = keys /\ mem = keys /\ Ordered(root)
    BY DEF HoldsTheKeys
  <2>1. Tree(child, root, mem) /\ keys = mem
    BY DEF SplayInv, Phase, KeysMem
  <2> QED
    BY <2>1, OrdOrdered DEF Tree, Below
<1> QED
  BY <1>1, SplayInvariant, PTL

(* splaytree_splay's loop: in every iteration the nodes are those below t  *)
(* and those of the two side trees, the side trees on their sides of the   *)
(* key and of t's tree, whatever the stale pointers at their ends say.     *)
THEOREM SplaySplitInOrder == Spec => []SplitInOrder
<1>1. SplayInv => SplitInOrder
  <2> SUFFICES ASSUME SplayInv, pc \in {"loop", "link"}  PROVE SplitInOrder
    BY DEF SplitInOrder
  <2>1. PtrType /\ Split
    BY DEF SplayInv, Phase
  <2>2. /\ t \in Key /\ t \in Ptr /\ Splits(Cut, t, tail, op.key, Whole) /\ op.key \in Key
        /\ tail \in [Dir -> Key \cup {N}] /\ child \in Heap
    BY <2>1 DEF Split, PtrType, Ptr
  <2>3. /\ Cut \in Heap
        /\ \A e \in Dir : \A x \in Key \cup {N} :
             Cut[e][x] = IF x = tail[e] THEN Null ELSE child[e][x]
    BY <2>1, CutHeap
  <2>4. PICK M \in SUBSET Key, S \in [Dir -> SUBSET Key] : Parts(Cut, t, tail, op.key, Whole, M, S)
    BY <2>2 DEF Splits
  <2>5. Tree(child, t, M)
    <3>1. Tree(Cut, t, M)
      BY <2>4 DEF Parts
    <3>2. \A e \in Dir : tail[e] \notin M
      BY <2>2, <2>3, <3>1, SplitsApart DEF Tree
    <3>3. Agree(Cut, child, M)
      BY <2>3, <3>2 DEF Agree
    <3> QED
      BY <2>2, <2>3, <3>1, <3>3, Frame
  <2>6. Below(t) = M /\ Ordered(t)
    BY <2>5, OrdOrdered DEF Tree, Below
  <2>7. \A d \in Dir : Beside(Cut, tail[d], op.key, M, d, S[d])
    BY <2>4 DEF Parts
  <2>8. /\ Reach(Cut, Cut["right"][N]) = S["right"]
        /\ \A a \in S["right"] : a < op.key /\ \A k \in M : a < k
    BY <2>7 DEF Beside, Tree, Less, Dir
  <2>9. /\ Reach(Cut, Cut["left"][N]) = S["left"]
        /\ \A b \in S["left"] : op.key < b /\ \A k \in M : k < b
    BY <2>7 DEF Beside, Tree, Less, Dir
  <2>10. S["right"] \cup M \cup S["left"] = Whole
    BY <2>4 DEF Parts
  <2> QED
    BY <2>6, <2>8, <2>9, <2>10 DEF SplitInOrder
<1> QED
  BY <1>1, SplayInvariant, PTL

(* splaytree_splay: what it returns is the key looked for if the tree has  *)
(* it, and otherwise a neighbour of it ("It's a neighbor of i").           *)
THEOREM SplayKeyOrNeighbour == Spec => []KeyOrNeighbour
<1>1. SplayInv => KeyOrNeighbour
  BY DEF SplayInv, Phase, Near, NearTo, KeyOrNeighbour
<1> QED
  BY <1>1, SplayInvariant, PTL

-----------------------------------------------------------------------------
(* What a size field says of a pointer, and that it is right if those of   *)
(* the children are.                                                       *)
Count(sz, p) == IF p = Null THEN 0 ELSE sz[p]
Sized(heap, sz, x) == sz[x] = 1 + Count(sz, heap["left"][x]) + Count(sz, heap["right"][x])

LEMMA LeastNat ==
    ASSUME NEW T \in SUBSET Nat, T # {}
    PROVE  \E m \in T : \A k \in T : m <= k
<1>1. PICK R : R = OpToRel(<, Nat)
  OBVIOUS
<1>2. \A a, b \in Nat : <<a, b>> \in R <=> a < b
  BY <1>1 DEF OpToRel
<1>3. PICK m \in T : \A k \in T : <<k, m>> \notin R
  BY <1>1, NatLessThanWellFounded, WFMin
<1>4. \A k \in T : k \in Nat /\ m \in Nat /\ ~ (k < m)
  BY <1>2, <1>3
<1>5. \A k \in T : m <= k
  BY <1>4
<1> QED
  BY <1>5

(* The part of a tree below one of its nodes.                              *)
LEMMA Subtree ==
    ASSUME NEW H \in Heap, NEW n \in Ptr, NEW S, Tree(H, n, S), NEW x \in S
    PROVE  /\ x \in Key /\ S \in SUBSET Key /\ Reach(H, x) \subseteq S /\ x \in Reach(H, x)
           /\ Tree(H, x, Reach(H, x))
           /\ \A d \in Dir : /\ H[d][x] \in Ptr /\ H[d][x] \in S \cup {Null}
                             /\ Reach(H, H[d][x]) \subseteq Reach(H, x)
                             /\ x \notin Reach(H, H[d][x])
                             /\ Tree(H, H[d][x], Reach(H, H[d][x]))
<1>1. S = Reach(H, n) /\ S \in SUBSET Key /\ x \in Key /\ x \in Ptr
  BY ReachClosed DEF Tree, Ptr
<1>2. \A z \in S : \A d \in Dir : H[d][z] \in S \cup {Null}
  BY <1>1, ReachClosed
<1>3. Reach(H, x) \subseteq S
  BY <1>1, <1>2, ReachLeast
<1>4. x \in Reach(H, x)
  BY <1>1, ReachClosed, SplayAssumption
<1>5. \A z \in S, d \in Dir : \A a \in Reach(H, H[d][z]) : Less(d, a, z)
  BY <1>1 DEF Tree, Ord
<1>6. ASSUME NEW d \in Dir
      PROVE  /\ H[d][x] \in Ptr
             /\ Reach(H, H[d][x]) \subseteq Reach(H, x)
             /\ x \notin Reach(H, H[d][x])
             /\ Tree(H, H[d][x], Reach(H, H[d][x]))
  <2>1. H[d][x] \in Ptr /\ Reach(H, H[d][x]) \subseteq Reach(H, x)
    BY <1>1, <1>4, <1>6, ReachChild
  <2>2. x \notin Reach(H, H[d][x])
    BY <1>1, <1>5, <1>6, LessFacts
  <2>3. Ord(H, H[d][x])
    BY <1>3, <1>5, <2>1 DEF Ord
  <2> QED
    BY <2>1, <2>2, <2>3 DEF Tree
<1>7. Tree(H, x, Reach(H, x))
  BY <1>3, <1>5 DEF Tree, Ord
<1> QED
  BY <1>1, <1>2, <1>3, <1>4, <1>6, <1>7

Counted(n, A, B) ==
    /\ IsFiniteSet({n} \cup A \cup B)
    /\ Cardinality({n} \cup A \cup B) = 1 + Cardinality(A) + Cardinality(B)
    /\ Cardinality(A) \in Nat /\ Cardinality(B) \in Nat

LEMMA JoinCard ==
    ASSUME NEW n, NEW A, NEW B, IsFiniteSet(A), IsFiniteSet(B),
           A \cap B = {}, n \notin A, n \notin B
    PROVE  Counted(n, A, B)
<1>1. Cardinality(A) \in Nat /\ Cardinality(B) \in Nat
  BY FS_CardinalityType
<1>2. /\ IsFiniteSet(A \cup B)
      /\ Cardinality(A \cup B) = Cardinality(A) + Cardinality(B) - Cardinality(A \cap B)
  BY FS_Union
<1>3. Cardinality(A \cap B) = 0
  BY FS_EmptySet
<1>4. {n} \cup A \cup B = (A \cup B) \cup {n} /\ n \notin A \cup B
  OBVIOUS
<1>5. /\ IsFiniteSet((A \cup B) \cup {n})
      /\ Cardinality((A \cup B) \cup {n}) = Cardinality(A \cup B) + 1
  BY <1>2, <1>4, FS_AddElement
<1>6. Cardinality((A \cup B) \cup {n}) = 1 + Cardinality(A) + Cardinality(B)
  BY <1>1, <1>2, <1>3, <1>5
<1> QED
  BY <1>1, <1>4, <1>5, <1>6 DEF Counted

(* A node counts one more than its children do together.                   *)
LEMMA NodeCount ==
    ASSUME NEW H \in Heap, NEW n \in Key, NEW S, Tree(H, n, S), IsFiniteSet(S), NEW d \in Dir
    PROVE  /\ Cardinality(S) = 1 + Cardinality(Reach(H, H[d][n])) + Cardinality(Reach(H, H[Other(d)][n]))
           /\ IsFiniteSet(Reach(H, H[d][n])) /\ IsFiniteSet(Reach(H, H[Other(d)][n]))
           /\ Cardinality(Reach(H, H[d][n])) \in Nat /\ Cardinality(Reach(H, H[Other(d)][n])) \in Nat
<1>1. PICK A \in SUBSET Key, B \in SUBSET Key :
        /\ Tree(H, H[d][n], A) /\ Tree(H, H[Other(d)][n], B)
        /\ S = {n} \cup A \cup B
        /\ \A a \in A : Less(d, a, n)
        /\ \A b \in B : Less(Other(d), b, n)
  BY TreeParts
<1>2. A = Reach(H, H[d][n]) /\ B = Reach(H, H[Other(d)][n])
  BY <1>1 DEF Tree
<1>3. n \notin A /\ n \notin B /\ A \cap B = {}
  BY <1>1, LessFacts
<1>4. IsFiniteSet(A) /\ IsFiniteSet(B)
  BY <1>1, FS_Subset
<1> QED
  BY <1>1, <1>2, <1>3, <1>4, JoinCard DEF Counted

LEMMA SizedOf ==
    ASSUME NEW H \in Heap, NEW sz \in [Key -> Nat], NEW x \in Key, NEW d \in Dir
    PROVE  /\ Sized(H, sz, x) <=> sz[x] = 1 + Count(sz, H[d][x]) + Count(sz, H[Other(d)][x])
           /\ Count(sz, H[d][x]) \in Nat /\ Count(sz, H[Other(d)][x]) \in Nat
<1>1. \A e \in Dir : H[e][x] \in Ptr /\ Count(sz, H[e][x]) \in Nat
  BY DEF Heap, Ptr, Count
<1>2. Other(d) \in Dir /\ Dir = {"left", "right"}
  BY LessFacts DEF Dir
<1>3. CASE d = "left"
  BY <1>1, <1>2, <1>3 DEF Sized, Other
<1>4. CASE d = "right"
  BY <1>1, <1>2, <1>4 DEF Sized, Other
<1> QED
  BY <1>2, <1>3, <1>4

(* If every size field in a tree is one more than those of the children,   *)
(* every one is the number of nodes: otherwise take a wrong one with the   *)
(* fewest nodes below it; those of its children are right, and so is it.   *)
LEMMA SizesCount ==
    ASSUME NEW H \in Heap, NEW n \in Ptr, NEW S, Tree(H, n, S), IsFiniteSet(S),
           NEW sz \in [Key -> Nat], \A x \in S : Sized(H, sz, x)
    PROVE  /\ \A x \in S : sz[x] = Cardinality(Reach(H, x))
           /\ Count(sz, n) = Cardinality(S)
<1> DEFINE card == [x \in S |-> Cardinality(Reach(H, x))]
           Wrong == {x \in S : sz[x] # card[x]}
           Cards == {card[x] : x \in Wrong}
<1>1. S \in SUBSET Key /\ \A x \in S : Reach(H, x) \subseteq S /\ Tree(H, x, Reach(H, x))
  BY Subtree, ReachClosed DEF Tree
<1>2. ASSUME NEW x \in S
      PROVE  IsFiniteSet(Reach(H, x)) /\ card[x] \in Nat
  BY <1>1, <1>2, FS_Subset, FS_CardinalityType
<1>3. ASSUME Wrong # {}  PROVE FALSE
  <2>1. Cards \in SUBSET Nat /\ Cards # {}
    BY <1>2, <1>3
  <2>2. PICK m \in Cards : \A k \in Cards : m <= k
    BY <2>1, LeastNat
  <2>3. PICK x \in Wrong : m = card[x]
    OBVIOUS
  <2>4. "left" \in Dir /\ Other("left") = "right" /\ Dir = {"left", "right"}
    BY DEF Dir, Other
  <2>5. /\ card[x] = 1 + Cardinality(Reach(H, H["left"][x])) + Cardinality(Reach(H, H["right"][x]))
        /\ Cardinality(Reach(H, H["left"][x])) \in Nat
        /\ Cardinality(Reach(H, H["right"][x])) \in Nat
    BY <1>1, <1>2, <2>4, NodeCount
  <2>6. ASSUME NEW d \in Dir
        PROVE  Count(sz, H[d][x]) = Cardinality(Reach(H, H[d][x]))
    <3>1. H[d][x] \in S \cup {Null}
      BY <2>6, Subtree
    <3>2. CASE H[d][x] = Null
      BY <3>2, ReachNull, FS_EmptySet DEF Count
    <3>3. CASE H[d][x] # Null
      <4>1. H[d][x] \in S /\ card[H[d][x]] = Cardinality(Reach(H, H[d][x])) /\ sz[H[d][x]] \in Nat
        BY <1>1, <3>1, <3>3
      <4>2. card[H[d][x]] < card[x]
        BY <2>4, <2>5, <2>6, <4>1
      <4>3. H[d][x] \notin Wrong
        <5>1. card[H[d][x]] \in Nat /\ card[x] \in Nat
          BY <1>2, <4>1
        <5>2. H[d][x] \in Wrong => m <= card[H[d][x]]
          BY <2>2
        <5> QED
          BY <2>3, <4>2, <5>1, <5>2
      <4> QED
        BY <3>3, <4>1, <4>3 DEF Count
    <3> QED
      BY <3>2, <3>3
  <2>7. sz[x] = 1 + Count(sz, H["left"][x]) + Count(sz, H["right"][x])
    BY DEF Sized
  <2>8. sz[x] = card[x]
    BY <2>4, <2>5, <2>6, <2>7
  <2> QED
    BY <2>8
<1>4. \A x \in S : sz[x] = Cardinality(Reach(H, x))
  BY <1>3
<1>5. Count(sz, n) = Cardinality(S)
  <2>1. S = Reach(H, n) /\ n \in S \cup {Null}
    BY ReachClosed DEF Tree
  <2>2. CASE n = Null
    BY <2>1, <2>2, ReachNull, FS_EmptySet DEF Count
  <2>3. CASE n # Null
    BY <1>4, <2>1, <2>3 DEF Count
  <2> QED
    BY <2>2, <2>3
<1> QED
  BY <1>4, <1>5

(* A side tree that is not written keeps its sizes.                        *)
LEMMA SizesKept ==
    ASSUME NEW H \in Heap, NEW H2 \in Heap, NEW n \in Ptr, NEW S, Tree(H, n, S), Agree(H, H2, S),
           NEW sz \in [Key -> Nat], NEW sz2 \in [Key -> Nat], \A z \in S : sz2[z] = sz[z],
           NEW x \in S
    PROVE  Reach(H2, x) = Reach(H, x) /\ (Sized(H, sz, x) => Sized(H2, sz2, x))
<1>1. x \in Key /\ x \in Ptr /\ Reach(H, x) \subseteq S /\ \A e \in Dir : H[e][x] \in S \cup {Null}
  BY Subtree DEF Ptr
<1>2. Agree(H, H2, Reach(H, x)) /\ \A e \in Dir : H2[e][x] = H[e][x]
  BY <1>1 DEF Agree
<1>3. Reach(H2, x) = Reach(H, x)
  BY <1>1, <1>2, ReachFrame
<1>4. \A e \in Dir : Count(sz2, H[e][x]) = Count(sz, H[e][x])
  BY <1>1 DEF Count
<1>5. "left" \in Dir /\ "right" \in Dir
  BY DEF Dir
<1> QED
  BY <1>2, <1>3, <1>4, <1>5 DEF Sized

(* The root is below no other node.                                        *)
LEMMA RootOnce ==
    ASSUME NEW H \in Heap, NEW n \in Key, NEW S, Tree(H, n, S), NEW x \in S, x # n
    PROVE  n \notin Reach(H, x) /\ \A e \in Dir : H[e][x] # n
<1>1. PICK A \in SUBSET Key, B \in SUBSET Key :
        /\ H["left"][n] \in Ptr /\ H["right"][n] \in Ptr
        /\ Tree(H, H["left"][n], A) /\ Tree(H, H["right"][n], B)
        /\ S = {n} \cup A \cup B /\ n \notin A /\ n \notin B
  <2>1. "left" \in Dir /\ Other("left") = "right"
    BY DEF Dir, Other
  <2>2. PICK A \in SUBSET Key, B \in SUBSET Key :
          /\ H["left"][n] \in Ptr /\ H[Other("left")][n] \in Ptr
          /\ Tree(H, H["left"][n], A) /\ Tree(H, H[Other("left")][n], B)
          /\ S = {n} \cup A \cup B
          /\ \A a \in A : Less("left", a, n)
          /\ \A b \in B : Less(Other("left"), b, n)
    BY <2>1, TreeParts
  <2>3. n \notin A /\ n \notin B
    BY <2>1, <2>2, LessFacts
  <2> QED
    BY <2>1, <2>2, <2>3
<1>2. CASE x \in A
  BY <1>1, <1>2, Subtree, SplayAssumption
<1>3. CASE x \in B
  BY <1>1, <1>3, Subtree, SplayAssumption
<1> QED
  BY <1>1, <1>2, <1>3

-----------------------------------------------------------------------------
(* The sizes in the loop: right below n, but for n itself, and right in    *)
(* the side trees off the path to their ends, whose nodes will be counted  *)
(* later; r_size and l_size are the numbers of nodes in the side trees.    *)
LoopSizes(heap, n, tl, sz, ac) ==
    /\ \A x \in Reach(heap, n) : x = n \/ Sized(heap, sz, x)
    /\ \A d \in Dir :
         /\ ac[d] = Cardinality(Reach(heap, heap[d][N]))
         /\ \A x \in Reach(heap, heap[d][N]) : tl[d] \in Reach(heap, x) \/ Sized(heap, sz, x)

LEMMA RotateSizes ==
    ASSUME NEW H \in Heap, NEW H2 \in Heap, NEW n \in Key,
           NEW tl \in [Dir -> Key \cup {N}], NEW k \in Key, NEW W,
           NEW M \in SUBSET Key, NEW S \in [Dir -> SUBSET Key], Parts(H, n, tl, k, W, M, S),
           NEW d \in Dir, NEW c \in Key, c = H[d][n], Rotates(H, H2, n, c, d),
           NEW sz \in [Key -> Nat], NEW ac, LoopSizes(H, n, tl, sz, ac), NEW sz2 \in [Key -> Nat],
           sz2[n] = Count(sz, H[Other(d)][c]) + Count(sz, H[Other(d)][n]) + 1,
           \A z \in Key \ {n} : sz2[z] = sz[z]
    PROVE  LoopSizes(H2, c, tl, sz2, ac)
<1>a. /\ H2[d][n] = H[Other(d)][c] /\ H2[Other(d)][c] = n
      /\ \A x \in Key \cup {N}, e \in Dir :
           <<x, e>> # <<n, d>> /\ <<x, e>> # <<c, Other(d)>> => H2[e][x] = H[e][x]
  BY DEF Rotates
<1>0. Other(d) \in Dir /\ Other(d) # d /\ Other(Other(d)) = d
  BY LessFacts
<1>1. Tree(H, n, M) /\ n \in M /\ Reach(H, n) = M /\ n \in Ptr
  <2>1. Apart(H, n, tl, W, M, S, d)
    BY PartsApart
  <2> QED
    BY <2>1 DEF Parts, Apart, Tree, Ptr
<1>2. Parts(H2, c, tl, k, W, M, S)
  BY RotateParts
<1>3. Reach(H2, c) = M
  BY <1>2 DEF Parts, Tree
<1>4. c \in M /\ c # n
  BY <1>1, Subtree, SplayAssumption
<1>5. ASSUME NEW x \in M, x # c  PROVE Sized(H2, sz2, x)
  <2>1. CASE x = n
    <3>1. H2[d][n] = H[Other(d)][c] /\ H2[Other(d)][n] = H[Other(d)][n]
      BY <1>a, <1>0, <1>4
    <3>2. n # H[Other(d)][c] /\ n # H[Other(d)][n]
      <4>1. n # H[Other(d)][c]
        BY <1>0, <1>1, <1>4, RootOnce
      <4>2. n \notin Reach(H, H[Other(d)][n]) /\ H[Other(d)][n] \in Ptr
        BY <1>0, <1>1, Subtree
      <4> QED
        BY <4>1, <4>2, ReachClosed, SplayAssumption
    <3>3. /\ Count(sz2, H2[d][n]) = Count(sz, H[Other(d)][c])
          /\ Count(sz2, H2[Other(d)][n]) = Count(sz, H[Other(d)][n])
      <4>1. H[Other(d)][c] \in Ptr /\ H[Other(d)][n] \in Ptr
        BY <1>0, <1>1, <1>4, Subtree
      <4> QED
        BY <3>1, <3>2, <4>1 DEF Count, Ptr
    <3>4. sz2[n] = Count(sz2, H2[d][n]) + Count(sz2, H2[Other(d)][n]) + 1
      BY <3>3
    <3>5. Count(sz2, H2[d][n]) \in Nat /\ Count(sz2, H2[Other(d)][n]) \in Nat
      BY SizedOf
    <3>6. sz2[n] = 1 + Count(sz2, H2[d][n]) + Count(sz2, H2[Other(d)][n])
      BY <3>4, <3>5
    <3> QED
      BY <2>1, <3>6, SizedOf
  <2>2. CASE x # n
    <3>1. \A e \in Dir : H2[e][x] = H[e][x]
      BY <1>a, <1>5, <2>2
    <3>2. \A e \in Dir : H[e][x] # n
      BY <1>1, <1>5, <2>2, RootOnce
    <3>3. \A e \in Dir : H[e][x] \in Ptr
      BY <1>1, <1>5, Subtree
    <3>4. sz2[x] = sz[x] /\ \A e \in Dir : Count(sz2, H2[e][x]) = Count(sz, H[e][x])
      BY <2>2, <3>1, <3>2, <3>3 DEF Count, Ptr
    <3>5. Sized(H, sz, x)
      BY <1>1, <1>5, <2>2 DEF LoopSizes
    <3> QED
      BY <3>4, <3>5 DEF Sized, Dir
  <2> QED
    BY <2>1, <2>2
<1>6. ASSUME NEW e \in Dir
      PROVE  /\ ac[e] = Cardinality(Reach(H2, H2[e][N]))
             /\ \A x \in Reach(H2, H2[e][N]) : tl[e] \in Reach(H2, x) \/ Sized(H2, sz2, x)
  <2>1. /\ Tree(H, H[e][N], S[e]) /\ Tree(H2, H2[e][N], S[e])
        /\ Reach(H, H[e][N]) = S[e] /\ Reach(H2, H2[e][N]) = S[e]
    BY <1>2, <1>6 DEF Parts, Beside, Tree
  <2>2. n \notin S[e] /\ c \notin S[e] /\ H[e][N] \in Ptr
    <3>1. Apart(H, n, tl, W, M, S, e)
      BY <1>6, PartsApart
    <3> QED
      BY <1>1, <1>4, <3>1 DEF Apart
  <2>3. Agree(H, H2, S[e]) /\ \A z \in S[e] : sz2[z] = sz[z]
    BY <1>a, <2>2 DEF Agree
  <2>4. ac[e] = Cardinality(S[e]) /\ \A x \in S[e] : tl[e] \in Reach(H, x) \/ Sized(H, sz, x)
    BY <1>6, <2>1 DEF LoopSizes
  <2>5. \A x \in S[e] : Reach(H2, x) = Reach(H, x) /\ (Sized(H, sz, x) => Sized(H2, sz2, x))
    BY <2>1, <2>2, <2>3, SizesKept
  <2> QED
    BY <2>1, <2>4, <2>5
<1> QED
  BY <1>3, <1>5, <1>6 DEF LoopSizes

Adds(ac, ac2, d, j) == ac2[d] = ac[d] + j /\ ac2[Other(d)] = ac[Other(d)]

(* link: n is on the path to the end from now on, and whoever was is.      *)
LEMMA LinkSizes ==
    ASSUME NEW H \in Heap, NEW H2 \in Heap, NEW n \in Key,
           NEW tl \in [Dir -> Key \cup {N}], NEW tl2, NEW k \in Key, NEW W, IsFiniteSet(W),
           NEW M \in SUBSET Key, NEW S \in [Dir -> SUBSET Key], Parts(H, n, tl, k, W, M, S),
           NEW d \in Dir, NEW c \in Key, Links(H, H2, n, c, k, tl, tl2, d),
           NEW sz \in [Key -> Nat], NEW ac, LoopSizes(H, n, tl, sz, ac),
           NEW ac2, Adds(ac, ac2, d, 1 + Count(sz, H[Other(d)][n]))
    PROVE  LoopSizes(H2, c, tl2, sz, ac2)
<1>a. /\ H2[d][tl[d]] = n /\ H2[d][n] = Null
      /\ \A x \in Key \cup {N}, e \in Dir :
           <<x, e>> # <<tl[d], d>> /\ <<x, e>> # <<n, d>> => H2[e][x] = H[e][x]
  BY DEF Links
<1>b. c = H[d][n] /\ tl2[d] = n /\ tl2[Other(d)] = tl[Other(d)]
  BY DEF Links
<1>0. Other(d) \in Dir /\ Other(d) # d /\ Other(Other(d)) = d /\ Dir = {d, Other(d)}
  BY LessFacts
<1>1. Tree(H, n, M) /\ n \in M /\ Reach(H, n) = M /\ n \in Ptr
  <2>1. Apart(H, n, tl, W, M, S, d)
    BY PartsApart
  <2> QED
    BY <2>1 DEF Parts, Apart, Tree, Ptr
<1>2. PICK A \in SUBSET Key, B \in SUBSET Key, S2 \in [Dir -> SUBSET Key] :
        /\ Parts(H2, c, tl2, k, W, A, S2)
        /\ A = Reach(H, c) /\ B = Reach(H, H[Other(d)][n])
        /\ S2[d] = S[d] \cup {n} \cup B /\ S2[Other(d)] = S[Other(d)]
  <2>1. PICK A \in SUBSET Key, S2 \in [Dir -> SUBSET Key] :
             Parts(H2, c, tl2, k, W, A, S2) /\ Moved(H, n, c, d, S, A, S2)
    BY LinkParts
  <2>2. H[Other(d)][n] \in Ptr
    BY <1>0, <1>1, Subtree
  <2>3. PICK B \in SUBSET Key : B = Reach(H, H[Other(d)][n])
    BY <2>2, ReachClosed
  <2> QED
    BY <2>1, <2>3 DEF Moved
<1>3. /\ H[Other(d)][n] \in Ptr /\ c \in Ptr /\ A \subseteq M /\ B \subseteq M
      /\ Tree(H, c, A) /\ Tree(H, H[Other(d)][n], B) /\ n \notin A /\ n \notin B
  BY <1>b, <1>0, <1>1, <1>2, Subtree DEF Ptr
<1>4. /\ S[d] \cap M = {} /\ S[Other(d)] \cap M = {} /\ S[d] \cap S[Other(d)] = {}
      /\ tl[d] \in S[d] \cup {N} /\ tl[d] \notin M
      /\ W = M \cup S[d] \cup S[Other(d)]
      /\ H[d][N] \in Ptr /\ H[Other(d)][N] \in Ptr
      /\ S[d] \in SUBSET Key /\ S[Other(d)] \in SUBSET Key
  <2>1. Apart(H, n, tl, W, M, S, d) /\ Apart(H, n, tl, W, M, S, Other(d))
    BY <1>0, PartsApart
  <2> QED
    BY <1>0, <2>1 DEF Apart
<1>5. \A e \in Dir : /\ Tree(H, H[e][N], S[e]) /\ Reach(H, H[e][N]) = S[e]
                     /\ Tree(H2, H2[e][N], S2[e]) /\ Reach(H2, H2[e][N]) = S2[e]
  BY <1>2 DEF Parts, Beside, Tree
<1>6. Agree(H, H2, A) /\ Agree(H, H2, B) /\ Agree(H, H2, S[Other(d)])
  BY <1>a, <1>0, <1>1, <1>3, <1>4, SplayAssumption DEF Agree
<1>7. \A x \in M : x = n \/ Sized(H, sz, x)
  BY <1>1 DEF LoopSizes
<1>8. \A x \in A : x = c \/ Sized(H2, sz, x)
  BY <1>3, <1>6, <1>7, SizesKept
<1>9. \A x \in B : Sized(H2, sz, x)
  BY <1>3, <1>6, <1>7, SizesKept
<1>10. /\ ac2[Other(d)] = Cardinality(S[Other(d)])
       /\ \A x \in S[Other(d)] : tl2[Other(d)] \in Reach(H2, x) \/ Sized(H2, sz, x)
  <2>1. /\ ac[Other(d)] = Cardinality(S[Other(d)])
        /\ \A x \in S[Other(d)] : tl[Other(d)] \in Reach(H, x) \/ Sized(H, sz, x)
    BY <1>0, <1>5 DEF LoopSizes
  <2>2. \A x \in S[Other(d)] : Reach(H2, x) = Reach(H, x) /\ (Sized(H, sz, x) => Sized(H2, sz, x))
    BY <1>0, <1>4, <1>5, <1>6, SizesKept
  <2> QED
    BY <1>b, <2>1, <2>2 DEF Adds
<1>11. ac2[d] = Cardinality(S2[d])
  <2>1. IsFiniteSet(S[d]) /\ IsFiniteSet(B)
    BY <1>3, <1>4, FS_Subset
  <2>2. Count(sz, H[Other(d)][n]) = Cardinality(B)
    BY <1>3, <1>7, <2>1, SizesCount
  <2>3. PICK D \in SUBSET Key : D = S[d]
    BY <1>4
  <2>4. /\ S2[d] = {n} \cup D \cup B
        /\ Cardinality({n} \cup D \cup B) = 1 + Cardinality(D) + Cardinality(B)
    <3>1. S2[d] = {n} \cup D \cup B
      BY <1>2, <2>3
    <3>2. D \cap B = {} /\ n \notin D /\ n \notin B
      BY <1>1, <1>3, <1>4, <2>3
    <3>3. IsFiniteSet(D) /\ IsFiniteSet(B)
      BY <2>1, <2>3
    <3>4. Counted(n, D, B)
      BY <3>2, <3>3, JoinCard
    <3> QED
      BY <3>1, <3>4 DEF Counted
  <2>5. ac[d] = Cardinality(D) /\ Cardinality(D) \in Nat /\ Cardinality(B) \in Nat
    BY <1>5, <2>3, <2>1, FS_CardinalityType DEF LoopSizes
  <2>6. ac2[d] = ac[d] + (1 + Cardinality(B))
    BY <2>2 DEF Adds
  <2> QED
    BY <2>3, <2>4, <2>5, <2>6
<1>12. ASSUME NEW x \in S2[d], n \notin Reach(H2, x)  PROVE Sized(H2, sz, x)
  <2>0. n \in Reach(H2, n)
    BY <1>1, ReachClosed, SplayAssumption
  <2>1. CASE x \in B
    BY <1>9, <2>1
  <2>2. CASE x \in S[d]
    <3>1. PICK C \in SUBSET Key : C = Reach(H2, x)
      BY <1>4, <2>2, ReachClosed DEF Ptr
    <3>2. x \in Key /\ x \in Ptr /\ x \in C /\ \A z \in C : \A e \in Dir : H2[e][z] \in C \cup {Null}
      BY <1>4, <2>2, <3>1, ReachClosed, SplayAssumption DEF Ptr
    <3>3. tl[d] \notin C
      BY <1>a, <1>12, <3>1, <3>2, SplayAssumption
    <3>4. \A z \in C : \A e \in Dir : H[e][z] = H2[e][z]
      BY <1>a, <1>12, <3>1, <3>3
    <3>5. Reach(H, x) \subseteq C
      BY <3>2, <3>4, ReachLeast
    <3>6. Sized(H, sz, x)
      BY <1>5, <2>2, <3>3, <3>5 DEF LoopSizes
    <3> QED
      BY <3>2, <3>4, <3>6 DEF Sized, Dir
  <2> QED
    BY <1>2, <1>12, <2>0, <2>1, <2>2
<1>14. Reach(H2, c) = A
  BY <1>2 DEF Parts, Tree
<1>15. \A e \in Dir : /\ ac2[e] = Cardinality(S2[e])
                      /\ \A x \in S2[e] : tl2[e] \in Reach(H2, x) \/ Sized(H2, sz, x)
  BY <1>b, <1>0, <1>2, <1>10, <1>11, <1>12
<1> QED
  BY <1>5, <1>8, <1>14, <1>15 DEF LoopSizes

-----------------------------------------------------------------------------
(* The nodes of a tree that have its end r below them are on the path to   *)
(* it: r is on side d of them, unless they are r.                          *)
LEMMA PathToEnd ==
    ASSUME NEW H \in Heap, NEW m \in Ptr, NEW S, Tree(H, m, S), NEW d \in Dir,
           NEW r \in S, \A x \in S : x = r \/ Less(d, r, x),
           NEW x \in S, r \in Reach(H, x)
    PROVE  /\ r \notin Reach(H, H[Other(d)][x])
           /\ IF x = r THEN H[d][x] = Null
              ELSE r \in Reach(H, H[d][x]) /\ H[d][x] \in S
<1>0. Other(d) \in Dir /\ Other(d) # d
  BY LessFacts
<1>1. /\ x \in Key /\ r \in Key /\ S = Reach(H, m)
      /\ H[d][x] \in S \cup {Null} /\ x \notin Reach(H, H[Other(d)][x])
  BY <1>0, Subtree DEF Tree
<1>2. Reach(H, x) = {x} \cup Reach(H, H[d][x]) \cup Reach(H, H[Other(d)][x])
  BY <1>1, ReachNode
<1>3. \A a \in Reach(H, H[Other(d)][x]) : Less(Other(d), a, x)
  BY <1>0, <1>1 DEF Tree, Ord
<1>4. r \notin Reach(H, H[Other(d)][x])
  <2>1. CASE x = r
    BY <1>1, <2>1
  <2>2. CASE x # r
    BY <1>0, <1>1, <1>3, <2>2, LessFacts
  <2> QED
    BY <2>1, <2>2
<1>5. x = r => H[d][x] = Null
  BY EndIsFree
<1>6. x # r => r \in Reach(H, H[d][x]) /\ H[d][x] \in S
  BY <1>1, <1>2, <1>4, ReachNull
<1> QED
  BY <1>4, <1>5, <1>6

(* Two subtrees that have a node in common are one inside the other.       *)
LEMMA Nested ==
    ASSUME NEW H \in Heap, NEW m \in Ptr, NEW S, Tree(H, m, S),
           NEW x \in S, NEW z \in S, NEW r \in Reach(H, x), r \in Reach(H, z)
    PROVE  x \in Reach(H, z) \/ z \in Reach(H, x)
<1>1. S = Reach(H, m) /\ S \in SUBSET Key
  BY ReachClosed DEF Tree
<1>2. PICK C \in SUBSET Key : C = {w \in S : \/ w \in Reach(H, x) \/ x \in Reach(H, w)
                                            \/ Reach(H, w) \cap Reach(H, x) = {}}
  BY <1>1
<1>3. ASSUME NEW w \in C, NEW e \in Dir, H[e][w] # Null  PROVE H[e][w] \in C
  <2>1. w \in S /\ w \in Key /\ H[e][w] \in S /\ Reach(H, H[e][w]) \subseteq Reach(H, w)
    BY <1>2, <1>3, Subtree
  <2>2. CASE w \in Reach(H, x)
    <3>1. H[e][w] \in Reach(H, x)
      BY <1>1, <1>3, <2>2, ReachClosed DEF Ptr
    <3> QED
      BY <1>2, <2>1, <3>1
  <2>3. CASE Reach(H, w) \cap Reach(H, x) = {}
    BY <1>2, <2>1, <2>3
  <2>4. CASE w # x /\ x \in Reach(H, w)
    <3>0. Other(e) \in Dir /\ Other(Other(e)) = e
      BY <1>3, LessFacts
    <3>1. Reach(H, w) = {w} \cup Reach(H, H[e][w]) \cup Reach(H, H[Other(e)][w])
      BY <1>3, <2>1, ReachNode
    <3>2. CASE x \in Reach(H, H[e][w])
      BY <1>2, <2>1, <3>2
    <3>3. CASE x \in Reach(H, H[Other(e)][w])
      <4>1. Reach(H, x) \subseteq Reach(H, H[Other(e)][w])
        <5>1. H[Other(e)][w] \in Ptr /\ Tree(H, H[Other(e)][w], Reach(H, H[Other(e)][w]))
          BY <2>1, <3>0, Subtree
        <5> QED
          BY <3>3, <5>1, Subtree
      <4>2. \A a \in Reach(H, H[Other(e)][w]) : Less(Other(e), a, w) /\ a \in Key
        BY <1>1, <2>1, <3>0, <3>1, Subtree DEF Tree, Ord
      <4>3. \A a \in Reach(H, H[e][w]) : Less(e, a, w) /\ a \in Key
        BY <1>1, <1>3, <2>1, <3>1, Subtree DEF Tree, Ord
      <4>4. Reach(H, H[e][w]) \cap Reach(H, x) = {}
        BY <1>3, <2>1, <4>1, <4>2, <4>3, LessFacts
      <4> QED
        BY <1>2, <2>1, <4>4
    <3> QED
      BY <2>4, <3>1, <3>2, <3>3
  <2>5. CASE w = x
    <3>1. x \in Reach(H, x)
      BY Subtree
    <3> QED
      BY <2>2, <2>5, <3>1
  <2> QED
    BY <1>2, <2>2, <2>3, <2>4, <2>5
<1>4. m \in C \cup {Null}
  <2>1. m \in S \cup {Null}
    BY <1>1, ReachClosed
  <2> QED
    BY <1>1, <1>2, <2>1
<1>5. S \subseteq C
  <2>1. \A w \in C : \A e \in Dir : H[e][w] \in C \cup {Null}
    BY <1>3
  <2> QED
    BY <1>1, <1>4, <2>1, ReachLeast
<1> QED
  BY <1>2, <1>5

-----------------------------------------------------------------------------
(* The sizes after the loop.  On side d, the path to the end r is counted  *)
(* down to todo, which will get a: the number of nodes below it and of     *)
(* those of n's subtree that will be hung on the end.                      *)
Due(sz, a, todo, p) == IF p = todo THEN a ELSE Count(sz, p)
OnPath(heap, sz, a, todo, x, d) ==
    \/ x \in Reach(heap, todo)
    \/ sz[x] = 1 + Count(sz, heap[Other(d)][x]) + Due(sz, a, todo, heap[d][x])
SideSizes(heap, n, r, sz, a, todo, d) ==
    /\ a = Cardinality(Reach(heap, todo)) + Count(sz, heap[Other(d)][n])
    /\ todo = Null \/ (todo \in Reach(heap, heap[d][N]) /\ r \in Reach(heap, todo))
    /\ \A x \in Reach(heap, heap[d][N]) :
         IF r \in Reach(heap, x) THEN OnPath(heap, sz, a, todo, x, d) ELSE Sized(heap, sz, x)
FixSizes(heap, n, tl, sz, ac, todo) ==
    /\ \A x \in Reach(heap, n) : x = n \/ Sized(heap, sz, x)
    /\ sz[n] = 1 + Due(sz, ac["left"], todo["left"], heap["left"][N])
                 + Due(sz, ac["right"], todo["right"], heap["right"][N])
    /\ \A d \in Dir : SideSizes(heap, n, tl[d], sz, ac[d], todo[d], d)

(* break: t has its size, and the rest is to be done from the header.      *)
LEMMA BreakSizes ==
    ASSUME NEW H \in Heap, NEW n \in Key,
           NEW tl \in [Dir -> Key \cup {N}], NEW k \in Key, NEW W, IsFiniteSet(W),
           NEW M \in SUBSET Key, NEW S \in [Dir -> SUBSET Key], Parts(H, n, tl, k, W, M, S),
           NEW sz \in [Key -> Nat], NEW ac, LoopSizes(H, n, tl, sz, ac),
           NEW ac2, \A d \in Dir : ac2[d] = ac[d] + Count(sz, H[Other(d)][n]),
           NEW sz2 \in [Key -> Nat], sz2[n] = ac2["left"] + ac2["right"] + 1,
           \A z \in Key \ {n} : sz2[z] = sz[z],
           NEW todo, \A d \in Dir : todo[d] = H[d][N]
    PROVE  FixSizes(H, n, tl, sz2, ac2, todo) /\ \A d \in Dir : ac2[d] \in Nat
<1>0. "left" \in Dir /\ "right" \in Dir
  BY DEF Dir
<1>1. Tree(H, n, M) /\ n \in M /\ Reach(H, n) = M /\ n \in Ptr
  <2>1. Apart(H, n, tl, W, M, S, "left")
    BY <1>0, PartsApart
  <2> QED
    BY <2>1 DEF Parts, Apart, Tree, Ptr
<1>2. ASSUME NEW x \in M, x # n  PROVE Sized(H, sz2, x)
  <2>1. \A e \in Dir : H[e][x] # n /\ H[e][x] \in Ptr
    BY <1>1, <1>2, RootOnce, Subtree
  <2>2. sz2[x] = sz[x] /\ \A e \in Dir : Count(sz2, H[e][x]) = Count(sz, H[e][x])
    BY <1>2, <2>1 DEF Count, Ptr
  <2>3. Sized(H, sz, x)
    BY <1>1, <1>2 DEF LoopSizes
  <2> QED
    BY <1>0, <2>2, <2>3 DEF Sized
<1>3. ASSUME NEW d \in Dir
      PROVE  SideSizes(H, n, tl[d], sz2, ac2[d], todo[d], d) /\ ac2[d] \in Nat
  <2>1. Apart(H, n, tl, W, M, S, d)
    BY <1>3, PartsApart
  <2>2. /\ Tree(H, H[d][N], S[d]) /\ Reach(H, H[d][N]) = S[d] /\ H[d][N] \in Ptr
        /\ n \notin S[d] /\ S[d] \subseteq W
    BY <1>3, <2>1 DEF Parts, Beside, Tree, Apart
  <2>3. Other(d) \in Dir
    BY <1>3, LessFacts
  <2>4. H[Other(d)][n] \in Ptr /\ H[Other(d)][n] # n
    <3>1. H[Other(d)][n] \in Ptr /\ n \notin Reach(H, H[Other(d)][n])
      BY <1>1, <2>3, Subtree
    <3> QED
      BY <3>1, ReachClosed, SplayAssumption
  <2>5. Count(sz2, H[Other(d)][n]) = Count(sz, H[Other(d)][n]) /\ Count(sz, H[Other(d)][n]) \in Nat
    BY <2>4 DEF Count, Ptr
  <2>6. ac[d] = Cardinality(S[d]) /\ Cardinality(S[d]) \in Nat
    BY <1>3, <2>2, FS_Subset, FS_CardinalityType DEF LoopSizes
  <2>7. ac2[d] = Cardinality(Reach(H, todo[d])) + Count(sz2, H[Other(d)][n]) /\ ac2[d] \in Nat
    BY <1>3, <2>2, <2>5, <2>6
  <2>8. todo[d] = Null \/ (todo[d] \in S[d] /\ tl[d] \in Reach(H, todo[d]))
    <3>1. H[d][N] \in S[d] \cup {Null}
      BY <2>2, ReachClosed
    <3>2. tl[d] \in S[d] \/ S[d] = {}
      BY <1>3 DEF Parts, Beside
    <3> QED
      BY <1>3, <2>2, <3>1, <3>2
  <2>9. ASSUME NEW x \in S[d]
        PROVE  IF tl[d] \in Reach(H, x) THEN OnPath(H, sz2, ac2[d], todo[d], x, d) ELSE Sized(H, sz2, x)
    <3>1. Agree(H, H, S[d]) /\ \A z \in S[d] : sz2[z] = sz[z]
      BY <2>2 DEF Agree
    <3>2. Sized(H, sz, x) => Sized(H, sz2, x)
      BY <2>2, <2>9, <3>1, SizesKept
    <3>3. x \in Reach(H, todo[d])
      BY <1>3, <2>2, <2>9
    <3>4. tl[d] \in Reach(H, x) \/ Sized(H, sz, x)
      BY <1>3, <2>2, <2>9 DEF LoopSizes
    <3> QED
      BY <3>2, <3>3, <3>4 DEF OnPath
  <2> QED
    BY <2>2, <2>7, <2>8, <2>9 DEF SideSizes
<1>4. sz2[n] = 1 + Due(sz2, ac2["left"], todo["left"], H["left"][N])
                 + Due(sz2, ac2["right"], todo["right"], H["right"][N])
  BY <1>0, <1>3 DEF Due
<1> QED
  BY <1>1, <1>2, <1>3, <1>4 DEF FixSizes

(* One iteration of a loop that corrects the sizes: q gets what is due to  *)
(* it, and the rest to the next node of the path.                          *)
Corrects(heap, sz, sz2, ac, ac2, todo, todo2, q, d) ==
    /\ q = todo[d] /\ sz2[q] = ac[d] /\ \A z \in Key \ {q} : sz2[z] = sz[z]
    /\ ac2[d] = ac[d] - (1 + Count(sz, heap[Other(d)][q])) /\ ac2[Other(d)] = ac[Other(d)]
    /\ todo2[d] = heap[d][q] /\ todo2[Other(d)] = todo[Other(d)]

LEMMA CorrectSizes ==
    ASSUME NEW H \in Heap, NEW n \in Key,
           NEW tl \in [Dir -> Key \cup {N}], NEW k \in Key, NEW W, IsFiniteSet(W),
           NEW M \in SUBSET Key, NEW S \in [Dir -> SUBSET Key], Parts(H, n, tl, k, W, M, S),
           NEW sz \in [Key -> Nat], NEW ac, NEW todo, FixSizes(H, n, tl, sz, ac, todo),
           NEW d \in Dir, NEW q \in Key,
           NEW sz2 \in [Key -> Nat], NEW ac2, NEW todo2,
           Corrects(H, sz, sz2, ac, ac2, todo, todo2, q, d)
    PROVE  FixSizes(H, n, tl, sz2, ac2, todo2) /\ ac2[d] \in Nat
<1>0. /\ Other(d) \in Dir /\ Other(d) # d /\ Other(Other(d)) = d /\ Dir = {d, Other(d)}
      /\ "left" \in Dir /\ "right" \in Dir
  BY LessFacts DEF Dir
<1>a. q = todo[d] /\ sz2[q] = ac[d] /\ \A z \in Key \ {q} : sz2[z] = sz[z]
  BY DEF Corrects
<1>b. ac2[d] = ac[d] - (1 + Count(sz, H[Other(d)][q])) /\ ac2[Other(d)] = ac[Other(d)]
  BY DEF Corrects
<1>c. todo2[d] = H[d][q] /\ todo2[Other(d)] = todo[Other(d)]
  BY DEF Corrects
<1>1. Tree(H, n, M) /\ n \in M /\ Reach(H, n) = M /\ n \in Ptr
  <2>1. Apart(H, n, tl, W, M, S, d)
    BY PartsApart
  <2> QED
    BY <2>1 DEF Parts, Apart, Tree, Ptr
<1>2. /\ \A e \in Dir : Tree(H, H[e][N], S[e]) /\ Reach(H, H[e][N]) = S[e] /\ H[e][N] \in Ptr
      /\ S[d] \cap M = {} /\ S[d] \cap S[Other(d)] = {} /\ S[d] \subseteq W
  <2>1. \A e \in Dir : Apart(H, n, tl, W, M, S, e)
    BY PartsApart
  <2> QED
    BY <2>1 DEF Parts, Beside, Tree, Apart
<1>3. \A e \in Dir : SideSizes(H, n, tl[e], sz, ac[e], todo[e], e)
  BY DEF FixSizes
<1>4. PICK r \in S[d] : r = tl[d] /\ r \in Reach(H, q) /\ q \in S[d] /\ \A x \in S[d] : x = r \/ Less(d, r, x)
  <2>1. q \in S[d] /\ tl[d] \in Reach(H, q)
    BY <1>a, <1>2, <1>3, SplayAssumption DEF SideSizes
  <2>2. (tl[d] = N /\ S[d] = {}) \/ (tl[d] \in S[d] /\ \A x \in S[d] : x = tl[d] \/ Less(d, tl[d], x))
    BY DEF Parts, Beside
  <2> QED
    BY <2>1, <2>2
<1>5. /\ Reach(H, q) \subseteq S[d] /\ q \in Reach(H, q) /\ Tree(H, q, Reach(H, q))
      /\ \A e \in Dir : /\ H[e][q] \in Ptr /\ H[e][q] \in S[d] \cup {Null}
                         /\ Reach(H, H[e][q]) \subseteq Reach(H, q)
                         /\ q \notin Reach(H, H[e][q]) /\ H[e][q] # q
                         /\ Tree(H, H[e][q], Reach(H, H[e][q]))
  <2>1. /\ Reach(H, q) \subseteq S[d] /\ q \in Reach(H, q) /\ Tree(H, q, Reach(H, q))
        /\ \A e \in Dir : /\ H[e][q] \in Ptr /\ H[e][q] \in S[d] \cup {Null}
                           /\ Reach(H, H[e][q]) \subseteq Reach(H, q)
                           /\ q \notin Reach(H, H[e][q])
                           /\ Tree(H, H[e][q], Reach(H, H[e][q]))
    BY <1>2, <1>4, Subtree
  <2>2. \A e \in Dir : H[e][q] # q
    BY <2>1, ReachClosed, SplayAssumption
  <2> QED
    BY <2>1, <2>2
<1>6. /\ r \notin Reach(H, H[Other(d)][q])
      /\ H[d][q] = Null \/ (H[d][q] \in S[d] /\ r \in Reach(H, H[d][q]))
  BY <1>2, <1>4, PathToEnd
<1>7. \A x \in S[d] : r \notin Reach(H, x) => Sized(H, sz, x)
  BY <1>2, <1>3, <1>4 DEF SideSizes
<1>8. /\ Count(sz, H[Other(d)][q]) = Cardinality(Reach(H, H[Other(d)][q]))
      /\ Cardinality(Reach(H, q)) = 1 + Cardinality(Reach(H, H[d][q])) + Cardinality(Reach(H, H[Other(d)][q]))
      /\ Cardinality(Reach(H, H[d][q])) \in Nat /\ Cardinality(Reach(H, H[Other(d)][q])) \in Nat
  <2>1. IsFiniteSet(Reach(H, q))
    BY <1>2, <1>5, FS_Subset
  <2>2. /\ Cardinality(Reach(H, q)) = 1 + Cardinality(Reach(H, H[d][q]))
                                       + Cardinality(Reach(H, H[Other(d)][q]))
        /\ IsFiniteSet(Reach(H, H[Other(d)][q]))
        /\ Cardinality(Reach(H, H[d][q])) \in Nat /\ Cardinality(Reach(H, H[Other(d)][q])) \in Nat
    BY <1>5, <2>1, NodeCount
  <2>3. ASSUME NEW x \in Reach(H, H[Other(d)][q])  PROVE Sized(H, sz, x)
    <3>1. Reach(H, x) \subseteq Reach(H, H[Other(d)][q])
      BY <1>0, <1>5, <2>3, Subtree
    <3>2. x \in S[d] /\ r \notin Reach(H, x)
      BY <1>0, <1>5, <1>6, <2>3, <3>1
    <3> QED
      BY <1>7, <3>2
  <2>4. Count(sz, H[Other(d)][q]) = Cardinality(Reach(H, H[Other(d)][q]))
    BY <1>0, <1>5, <2>2, <2>3, SizesCount
  <2> QED
    BY <2>2, <2>4
<1>9. \A p \in Ptr : p # q => Count(sz2, p) = Count(sz, p) /\ Count(sz, p) \in Nat
  BY <1>a DEF Count, Ptr
<1>10. H[Other(d)][n] \in Ptr /\ H[Other(d)][n] # q /\ H[d][n] \in Ptr /\ H[d][n] # q /\ q # n
  BY <1>0, <1>1, <1>2, <1>4, Subtree, SplayAssumption
<1>11. /\ ac[d] = Cardinality(Reach(H, q)) + Count(sz, H[Other(d)][n])
       /\ ac2[d] = Cardinality(Reach(H, H[d][q])) + Count(sz2, H[Other(d)][n])
       /\ ac2[d] \in Nat
       /\ ac[d] = 1 + Count(sz2, H[Other(d)][q]) + ac2[d]
  <2>1. ac[d] = Cardinality(Reach(H, q)) + Count(sz, H[Other(d)][n])
    BY <1>a, <1>3 DEF SideSizes
  <2>2. /\ Count(sz2, H[Other(d)][n]) = Count(sz, H[Other(d)][n]) /\ Count(sz, H[Other(d)][n]) \in Nat
        /\ Count(sz2, H[Other(d)][q]) = Count(sz, H[Other(d)][q])
    BY <1>0, <1>5, <1>9, <1>10
  <2> QED
    BY <1>b, <1>8, <2>1, <2>2
<1>12. \A x \in M : x = n \/ Sized(H, sz2, x)
  <2>1. Agree(H, H, M) /\ \A z \in M : sz2[z] = sz[z]
    BY <1>a, <1>2, <1>4 DEF Agree
  <2>2. \A x \in M : Sized(H, sz, x) => Sized(H, sz2, x)
    BY <1>1, <2>1, SizesKept
  <2> QED
    BY <1>1, <2>2 DEF FixSizes
<1> DEFINE DueTo(e) == Due(sz, ac[e], todo[e], H[e][N])
           DueTo2(e) == Due(sz2, ac2[e], todo2[e], H[e][N])
<1>13. DueTo2(d) = DueTo(d)
  <2>1. H[d][N] \in S[d]
    BY <1>2, <1>4, ReachClosed, ReachNull
  <2>2. H[d][N] # H[d][q]
    <3>1. CASE H[d][N] = q
      BY <1>5, <3>1
    <3>2. CASE H[d][N] # q
      BY <1>2, <1>4, <2>1, <3>2, RootOnce
    <3> QED
      BY <3>1, <3>2
  <2>3. H[d][N] # q => Count(sz2, H[d][N]) = Count(sz, H[d][N])
    BY <1>2, <1>9
  <2>4. Count(sz2, q) = ac[d]
    BY <1>a, SplayAssumption DEF Count
  <2> QED
    BY <1>a, <1>c, <2>2, <2>3, <2>4 DEF Due
<1>14. DueTo2(Other(d)) = DueTo(Other(d))
  <2>1. H[Other(d)][N] \in S[Other(d)] \cup {Null} /\ H[Other(d)][N] \in Ptr
    BY <1>0, <1>2, ReachClosed
  <2>2. H[Other(d)][N] # q
    BY <1>2, <1>4, <2>1, SplayAssumption
  <2> QED
    BY <1>b, <1>c, <1>9, <2>1, <2>2 DEF Due
<1>15. sz2[n] = 1 + DueTo2("left") + DueTo2("right")
  <2>1. DueTo2("left") = DueTo("left") /\ DueTo2("right") = DueTo("right")
    BY <1>0, <1>13, <1>14
  <2>2. sz[n] = 1 + DueTo("left") + DueTo("right")
    BY DEF FixSizes
  <2>3. sz2[n] = sz[n]
    BY <1>a, <1>10
  <2> QED
    BY <2>1, <2>2, <2>3
<1>16. SideSizes(H, n, tl[Other(d)], sz2, ac2[Other(d)], todo2[Other(d)], Other(d))
  <2>1. SideSizes(H, n, tl[Other(d)], sz, ac[Other(d)], todo[Other(d)], Other(d))
    BY <1>0, <1>3
  <2>2. Count(sz2, H[d][n]) = Count(sz, H[d][n])
    BY <1>9, <1>10
  <2>3. ASSUME NEW x \in S[Other(d)]
        PROVE  /\ Sized(H, sz, x) => Sized(H, sz2, x)
               /\ sz2[x] = sz[x] /\ Count(sz2, H[d][x]) = Count(sz, H[d][x])
               /\ Count(sz2, H[Other(d)][x]) = Count(sz, H[Other(d)][x])
    <3>1. q \notin S[Other(d)] /\ S[Other(d)] \in SUBSET Key
      BY <1>0, <1>2, <1>4
    <3>2. Agree(H, H, S[Other(d)]) /\ \A z \in S[Other(d)] : sz2[z] = sz[z]
      BY <1>a, <3>1 DEF Agree
    <3>3. Sized(H, sz, x) => Sized(H, sz2, x)
      BY <1>0, <1>2, <2>3, <3>2, SizesKept
    <3>4. \A e \in Dir : H[e][x] \in Ptr /\ H[e][x] \in S[Other(d)] \cup {Null}
      BY <1>0, <1>2, <2>3, Subtree
    <3>5. \A e \in Dir : H[e][x] \in Ptr /\ H[e][x] # q
      BY <3>1, <3>4, SplayAssumption
    <3> QED
      BY <1>0, <1>9, <2>3, <3>2, <3>3, <3>5
  <2>4. ASSUME NEW x \in S[Other(d)], OnPath(H, sz, ac[Other(d)], todo[Other(d)], x, Other(d))
        PROVE  OnPath(H, sz2, ac2[Other(d)], todo2[Other(d)], x, Other(d))
    BY <1>0, <1>b, <1>c, <2>3, <2>4 DEF OnPath, Due
  <2>5. Reach(H, H[Other(d)][N]) = S[Other(d)]
    BY <1>0, <1>2
  <2> QED
    BY <1>0, <1>b, <1>c, <2>1, <2>2, <2>3, <2>4, <2>5 DEF SideSizes
<1>17. SideSizes(H, n, tl[d], sz2, ac2[d], todo2[d], d)
  <2>1. ac2[d] = Cardinality(Reach(H, todo2[d])) + Count(sz2, H[Other(d)][n])
    BY <1>c, <1>11
  <2>2. todo2[d] = Null \/ (todo2[d] \in S[d] /\ tl[d] \in Reach(H, todo2[d]))
    BY <1>c, <1>4, <1>6
  <2>3. ASSUME NEW x \in S[d], r \notin Reach(H, x)  PROVE Sized(H, sz2, x)
    <3>1. x # q /\ x \in Key
      BY <1>2, <1>4, <2>3
    <3>2. ASSUME NEW e \in Dir  PROVE H[e][x] \in Ptr /\ H[e][x] # q
      <4>1. H[e][x] \in Ptr /\ Reach(H, H[e][x]) \subseteq Reach(H, x)
        BY <1>2, <2>3, <3>2, Subtree
      <4> QED
        BY <1>4, <2>3, <4>1
    <3>3. sz2[x] = sz[x] /\ \A e \in Dir : Count(sz2, H[e][x]) = Count(sz, H[e][x])
      BY <1>a, <1>9, <3>1, <3>2
    <3>4. Sized(H, sz, x)
      BY <1>7, <2>3
    <3> QED
      BY <1>0, <3>3, <3>4 DEF Sized
  <2>4. ASSUME NEW x \in S[d], r \in Reach(H, x)  PROVE OnPath(H, sz2, ac2[d], todo2[d], x, d)
    <3>1. CASE x = q
      <4>1. sz2[x] = 1 + Count(sz2, H[Other(d)][x]) + Due(sz2, ac2[d], todo2[d], H[d][x])
        BY <1>a, <1>c, <1>11, <3>1 DEF Due
      <4> QED
        BY <4>1 DEF OnPath
    <3>2. CASE x # q /\ x \in Reach(H, q)
      <4>1. x \in Reach(H, H[d][q]) \/ x \in Reach(H, H[Other(d)][q])
        BY <3>2, ReachNode
      <4>2. x \notin Reach(H, H[Other(d)][q])
        <5>1. x \in Reach(H, H[Other(d)][q]) => Reach(H, x) \subseteq Reach(H, H[Other(d)][q])
          BY <1>0, <1>5, Subtree
        <5> QED
          BY <1>6, <2>4, <5>1
      <4> QED
        BY <1>c, <4>1, <4>2 DEF OnPath
    <3>3. CASE x \notin Reach(H, q)
      <4>1. q \in Reach(H, x) /\ q # x /\ x \in Key
        BY <1>2, <1>4, <1>5, <2>4, <3>3, Nested
      <4>2. H[d][x] \in Ptr /\ H[Other(d)][x] \in Ptr /\ r \notin Reach(H, H[Other(d)][x])
        BY <1>0, <1>2, <1>4, <2>4, PathToEnd, Subtree
      <4>3. H[Other(d)][x] # q
        BY <1>4, <4>2
      <4>4. q \notin Reach(H, H[Other(d)][x])
        <5>1. Tree(H, H[Other(d)][x], Reach(H, H[Other(d)][x]))
          BY <1>0, <1>2, <2>4, Subtree
        <5>2. q \in Reach(H, H[Other(d)][x]) => Reach(H, q) \subseteq Reach(H, H[Other(d)][x])
          BY <4>2, <5>1, Subtree
        <5> QED
          BY <1>4, <4>2, <5>2
      <4>5. q \in Reach(H, H[d][x])
        BY <4>1, <4>4, ReachNode
      <4>6. H[d][x] # H[d][q]
        BY <1>0, <1>5, <4>5
      <4>7. sz[x] = 1 + Count(sz, H[Other(d)][x]) + Due(sz, ac[d], q, H[d][x])
        BY <1>a, <1>2, <1>3, <1>4, <2>4, <3>3 DEF SideSizes, OnPath
      <4>8. sz2[x] = sz[x] /\ Count(sz2, H[Other(d)][x]) = Count(sz, H[Other(d)][x])
        BY <1>a, <1>9, <4>1, <4>2, <4>3
      <4>9. Count(sz2, q) = ac[d]
        BY <1>a, SplayAssumption DEF Count
      <4>10. Due(sz2, ac2[d], H[d][q], H[d][x]) = Due(sz, ac[d], q, H[d][x])
        BY <1>9, <4>2, <4>6, <4>9 DEF Due
      <4> QED
        BY <1>c, <4>7, <4>8, <4>10 DEF OnPath
    <3> QED
      BY <3>1, <3>2, <3>3
  <2> QED
    BY <1>2, <1>4, <2>1, <2>2, <2>3, <2>4 DEF SideSizes
<1>18. \A e \in Dir : SideSizes(H, n, tl[e], sz2, ac2[e], todo2[e], e)
  BY <1>0, <1>16, <1>17
<1> QED
  BY <1>1, <1>11, <1>12, <1>15, <1>18 DEF FixSizes

(* assemble: the paths are done, and what is hung on an end is what its    *)
(* size was due for.                                                       *)
LEMMA AssembleSizes ==
    ASSUME NEW H \in Heap, NEW J \in Heap, NEW n \in Key,
           NEW tl \in [Dir -> Key \cup {N}], NEW k \in Key, NEW W,
           NEW M \in SUBSET Key, NEW S \in [Dir -> SUBSET Key], Parts(H, n, tl, k, W, M, S),
           Joins(H, J, n, tl),
           NEW sz \in [Key -> Nat], NEW ac, NEW todo, FixSizes(H, n, tl, sz, ac, todo),
           \A d \in Dir : todo[d] = Null,
           NEW x \in W
    PROVE  Sized(J, sz, x)
<1>a. \A e \in Dir : /\ tl[e] # N => J[e][tl[e]] = H[Other(e)][n] /\ J[Other(e)][n] = H[e][N]
                     /\ tl[e] = N => J[Other(e)][n] = H[Other(e)][n]
  BY DEF Joins
<1>b. \A z \in Key, e \in Dir : z # n /\ z # tl[e] => J[e][z] = H[e][z]
  BY DEF Joins
<1>0. "left" \in Dir /\ "right" \in Dir /\ Other("left") = "right" /\ Other("right") = "left"
  BY DEF Dir, Other
<1>1. \A e \in Dir : Apart(H, n, tl, W, M, S, e)
  BY PartsApart
<1>2. Reach(H, n) = M /\ n \in M
  BY <1>0, <1>1 DEF Parts, Tree, Apart
<1>3. ASSUME NEW d \in Dir
      PROVE  /\ ac[d] = Count(sz, H[Other(d)][n])
             /\ Due(sz, ac[d], todo[d], H[d][N]) = Count(sz, J[Other(d)][n])
             /\ \A z \in S[d] : Sized(J, sz, z)
  <2>0. Other(d) \in Dir /\ Other(d) # d /\ Other(Other(d)) = d
    BY <1>3, LessFacts
  <2>1. SideSizes(H, n, tl[d], sz, ac[d], Null, d)
    BY <1>3 DEF FixSizes
  <2>2. ac[d] = Count(sz, H[Other(d)][n])
    <3>1. ac[d] = Cardinality(Reach(H, Null)) + Count(sz, H[Other(d)][n])
      BY <2>1 DEF SideSizes
    <3>2. Cardinality(Reach(H, Null)) = 0
      BY ReachNull, FS_EmptySet
    <3>3. Count(sz, H[Other(d)][n]) \in Nat
      BY <1>3, SizedOf
    <3> QED
      BY <3>1, <3>2, <3>3
  <2>3. Beside(H, tl[d], k, M, d, S[d]) /\ S[d] \in SUBSET Key /\ H[d][N] \in Ptr
    BY <1>1, <1>3 DEF Parts, Apart
  <2>4. Tree(H, H[d][N], S[d]) /\ Reach(H, H[d][N]) = S[d]
    BY <2>3 DEF Beside, Tree
  <2>5. Due(sz, ac[d], todo[d], H[d][N]) = Count(sz, J[Other(d)][n])
    <3>1. CASE tl[d] = N
      <4>1. S[d] = {}
        BY <2>3, <3>1, SplayAssumption DEF Beside
      <4>2. H[d][N] = Null
        BY <2>3, <2>4, <4>1, ReachClosed
      <4> QED
        BY <1>a, <1>3, <2>2, <3>1, <4>2 DEF Due
    <3>2. CASE tl[d] # N
      <4>1. S[d] # {}
        BY <2>3, <3>2 DEF Beside
      <4>2. H[d][N] # Null
        BY <2>4, <4>1, ReachNull
      <4> QED
        BY <1>a, <1>3, <3>2, <4>2 DEF Due
    <3> QED
      BY <3>1, <3>2
  <2>6. ASSUME NEW z \in S[d]  PROVE Sized(J, sz, z)
    <3>1. z \in Key /\ z # n /\ z # tl[Other(d)] /\ z \in Reach(H, z)
      <4>1. Apart(H, n, tl, W, M, S, d) /\ Apart(H, n, tl, W, M, S, Other(d))
        BY <1>1, <1>3, <2>0
      <4>2. z \in Key /\ z \in Reach(H, z)
        BY <2>3, <2>4, <2>6, Subtree
      <4> QED
        BY <1>2, <2>0, <2>6, <4>1, <4>2, SplayAssumption DEF Apart
    <3>2. J[Other(d)][z] = H[Other(d)][z]
      BY <1>b, <2>0, <3>1
    <3>3. CASE tl[d] \notin Reach(H, z)
      <4>1. J[d][z] = H[d][z]
        BY <1>b, <1>3, <3>1, <3>3
      <4>2. Sized(H, sz, z)
        BY <2>1, <2>4, <2>6, <3>3 DEF SideSizes
      <4> QED
        BY <1>3, <3>1, <3>2, <4>1, <4>2, SizedOf
    <3>4. CASE tl[d] \in Reach(H, z)
      <4>1. PICK r \in S[d] : r = tl[d] /\ \A w \in S[d] : w = r \/ Less(d, r, w)
        <5>1. S[d] # {}
          BY <2>6
        <5> QED
          BY <2>3, <5>1 DEF Beside
      <4>2. IF z = r THEN H[d][z] = Null ELSE H[d][z] \in S[d]
        BY <1>3, <2>3, <2>4, <2>6, <3>4, <4>1, PathToEnd
      <4>3. sz[z] = 1 + Count(sz, H[Other(d)][z]) + Due(sz, ac[d], Null, H[d][z])
        <5>1. Reach(H, Null) = {}
          BY ReachNull
        <5> QED
          BY <2>1, <2>4, <2>6, <3>4, <5>1 DEF SideSizes, OnPath
      <4>4. Due(sz, ac[d], Null, H[d][z]) = Count(sz, J[d][z])
        <5>1. CASE z = r
          <6>1. tl[d] # N /\ J[d][z] = H[Other(d)][n]
            BY <1>a, <1>3, <2>3, <4>1, <5>1, SplayAssumption
          <6> QED
            BY <2>2, <4>2, <5>1, <6>1 DEF Due
        <5>2. CASE z # r
          <6>1. J[d][z] = H[d][z]
            BY <1>b, <1>3, <3>1, <4>1, <5>2
          <6>2. H[d][z] # Null
            BY <2>3, <4>2, <5>2, SplayAssumption
          <6> QED
            BY <6>1, <6>2 DEF Due
        <5> QED
          BY <5>1, <5>2
      <4>5. Count(sz, J[d][z]) \in Nat /\ Count(sz, J[Other(d)][z]) \in Nat
        BY <1>3, <3>1, SizedOf
      <4>6. sz[z] = 1 + Count(sz, J[d][z]) + Count(sz, J[Other(d)][z])
        BY <3>2, <4>3, <4>4, <4>5
      <4> QED
        BY <1>3, <3>1, <4>6, SizedOf
    <3> QED
      BY <3>3, <3>4
  <2> QED
    BY <2>2, <2>5, <2>6
<1>4. CASE x = n
  <2>1. sz[n] = 1 + Due(sz, ac["left"], todo["left"], H["left"][N])
                  + Due(sz, ac["right"], todo["right"], H["right"][N])
    BY DEF FixSizes
  <2>2. sz[n] = 1 + Count(sz, J["right"][n]) + Count(sz, J["left"][n])
    BY <1>0, <1>3, <2>1
  <2> QED
    BY <1>0, <1>4, <2>2, SizedOf
<1>5. CASE x \in M /\ x # n
  <2>1. \A e \in Dir : J[e][x] = H[e][x]
    BY <1>b, <1>1, <1>5 DEF Apart
  <2>2. Sized(H, sz, x)
    BY <1>2, <1>5 DEF FixSizes
  <2> QED
    BY <1>0, <2>1, <2>2 DEF Sized
<1>6. x \in M \/ x \in S["left"] \/ x \in S["right"]
  BY DEF Parts
<1> QED
  BY <1>0, <1>3, <1>4, <1>5, <1>6

(* splaytree_insert: the old root loses what is on i's side of it, and i   *)
(* has both.                                                               *)
LEMMA InsertSizes ==
    ASSUME NEW H \in Heap, NEW G \in Heap, NEW n \in Key, NEW W \in SUBSET Key,
           Tree(H, n, W), NEW i \in Key, i \notin W, NEW d \in Dir,
           G[d][i] = H[d][n], G[d][n] = Null, G[Other(d)][i] = n,
           \A x \in Key, e \in Dir : x # i /\ <<x, e>> # <<n, d>> => G[e][x] = H[e][x],
           NEW sz \in [Key -> Nat], \A x \in W : Sized(H, sz, x), NEW sz2 \in [Key -> Nat],
           sz2[n] = 1 + Count(sz, H[Other(d)][n]),
           sz2[i] = 1 + Count(sz, H[d][n]) + sz2[n],
           \A z \in Key \ {n, i} : sz2[z] = sz[z],
           NEW x \in W \cup {i}
    PROVE  Sized(G, sz2, x)
<1>0. Other(d) \in Dir /\ Other(d) # d
  BY LessFacts
<1>1. n \in W /\ n # i /\ W = Reach(H, n) /\ n \in Ptr
  BY ReachClosed, SplayAssumption DEF Tree, Ptr
<1>2. \A z \in W : z \in Key /\ \A e \in Dir : H[e][z] \in W \cup {Null} /\ H[e][z] \in Ptr /\ H[e][z] # n
  <2>1. \A z \in W : z \in Key /\ \A e \in Dir : H[e][z] \in W \cup {Null} /\ H[e][z] \in Ptr
    BY <1>1, Subtree
  <2>2. \A z \in W : z # n => \A e \in Dir : H[e][z] # n
    BY RootOnce
  <2>3. \A e \in Dir : H[e][n] # n
    <3>1. \A e \in Dir : n \notin Reach(H, H[e][n]) /\ H[e][n] \in Ptr
      BY <1>1, Subtree
    <3> QED
      BY <3>1, ReachClosed, SplayAssumption
  <2> QED
    BY <2>1, <2>2, <2>3
<1>3. \A p \in W \cup {Null} : p # n => Count(sz2, p) = Count(sz, p) /\ Count(sz, p) \in Nat
  BY SplayAssumption DEF Count
<1>4. \A z \in W, e \in Dir : Count(sz2, H[e][z]) = Count(sz, H[e][z]) /\ Count(sz, H[e][z]) \in Nat
  BY <1>2, <1>3
<1>5. CASE x = i
  <2>1. Count(sz2, G[d][i]) = Count(sz, H[d][n]) /\ Count(sz, H[d][n]) \in Nat
    BY <1>1, <1>4
  <2>2. Count(sz2, G[Other(d)][i]) = sz2[n] /\ sz2[n] \in Nat
    BY SplayAssumption DEF Count
  <2>3. sz2[i] = 1 + Count(sz2, G[d][i]) + Count(sz2, G[Other(d)][i])
    BY <2>1, <2>2
  <2> QED
    BY <1>5, <2>3, SizedOf
<1>6. CASE x = n
  <2>1. Count(sz2, G[d][n]) = 0
    BY DEF Count
  <2>2. G[Other(d)][n] = H[Other(d)][n]
    BY <1>0, <1>1
  <2>3. Count(sz2, G[Other(d)][n]) = Count(sz, H[Other(d)][n]) /\ Count(sz, H[Other(d)][n]) \in Nat
    BY <1>0, <1>1, <1>4, <2>2
  <2>4. sz2[n] = 1 + Count(sz2, G[d][n]) + Count(sz2, G[Other(d)][n])
    BY <2>1, <2>3
  <2> QED
    BY <1>6, <2>4, SizedOf
<1>7. CASE x # i /\ x # n
  <2>1. x \in W /\ x \in Key /\ sz2[x] = sz[x] /\ \A e \in Dir : G[e][x] = H[e][x]
    BY <1>7
  <2>2. Sized(H, sz, x)
    BY <2>1
  <2> QED
    BY <1>4, <2>1, <2>2 DEF Sized, Dir
<1> QED
  BY <1>5, <1>6, <1>7

(* splaytree_delete: the left subtree's root takes over the right subtree. *)
LEMMA JoinSizes ==
    ASSUME NEW H \in Heap, NEW G \in Heap, NEW n \in Key, NEW S \in SUBSET Key, NEW A \in SUBSET Key,
           NEW g \in Key, NEW R \in Ptr, Hangs(H, G, n, R), H["right"][n] = Null,
           Tree(H, n, S), Tree(H, R, A), S \cap A = {}, g \notin S, g \notin A,
           IsFiniteSet(S), IsFiniteSet(A),
           NEW sz \in [Key -> Nat], \A z \in S \cup A : Sized(H, sz, z),
           NEW sz2 \in [Key -> Nat], sz2[n] = Cardinality(S) + Cardinality(A),
           \A z \in Key \ {n, g} : sz2[z] = sz[z],
           NEW x \in S \cup A
    PROVE  Sized(G, sz2, x)
<1>a. G["right"][n] = R /\ \A z \in Key, e \in Dir : <<z, e>> # <<n, "right">> => G[e][z] = H[e][z]
  BY DEF Hangs
<1>0. "left" \in Dir /\ "right" \in Dir /\ Other("left") = "right" /\ "left" # "right"
  BY DEF Dir, Other
<1>1. n \in S /\ n \in Ptr /\ R \in A \cup {Null} /\ A = Reach(H, R) /\ S = Reach(H, n)
  BY ReachClosed, SplayAssumption DEF Tree, Ptr
<1>2. \A z \in S, e \in Dir : H[e][z] \in S \cup {Null} /\ H[e][z] # n
  <2>1. \A z \in S, e \in Dir : H[e][z] \in S \cup {Null}
    BY <1>1, Subtree
  <2>2. \A z \in S : z # n => \A e \in Dir : H[e][z] # n
    BY RootOnce
  <2>3. \A e \in Dir : H[e][n] # n
    <3>1. \A e \in Dir : n \notin Reach(H, H[e][n]) /\ H[e][n] \in Ptr
      BY <1>1, Subtree
    <3> QED
      BY <3>1, ReachClosed, SplayAssumption
  <2> QED
    BY <2>1, <2>2, <2>3
<1>3. \A z \in A, e \in Dir : H[e][z] \in A \cup {Null}
  BY Subtree
<1>4. \A p \in (S \cup A \cup {Null}) \ {n} : Count(sz2, p) = Count(sz, p) /\ Count(sz, p) \in Nat
  BY SplayAssumption DEF Count
<1>5. CASE x # n
  <2>1. x \in Key /\ x # g /\ sz2[x] = sz[x] /\ Sized(H, sz, x)
    BY <1>5
  <2>2. \A e \in Dir : G[e][x] = H[e][x]
    BY <1>a, <1>5, <2>1
  <2>3. \A e \in Dir : H[e][x] \in (S \cup A \cup {Null}) \ {n}
    BY <1>1, <1>2, <1>3, SplayAssumption
  <2>4. \A e \in Dir : Count(sz2, G[e][x]) = Count(sz, H[e][x])
    BY <1>4, <2>2, <2>3
  <2> QED
    BY <1>0, <2>1, <2>4 DEF Sized
<1>6. CASE x = n
  <2>1. Count(sz, n) = Cardinality(S) /\ Count(sz, R) = Cardinality(A)
    BY <1>1, SizesCount
  <2>2. Cardinality(S) \in Nat /\ Cardinality(A) \in Nat
    BY FS_CardinalityType
  <2>3. sz[n] = 1 + Count(sz, H["left"][n]) + 0
    BY <1>1 DEF Sized, Count
  <2>4. Count(sz, n) = sz[n]
    BY SplayAssumption DEF Count
  <2>5. G["left"][n] = H["left"][n]
    BY <1>a, <1>0
  <2>6. Count(sz2, G["left"][n]) = Count(sz, H["left"][n]) /\ Count(sz, H["left"][n]) \in Nat
    BY <1>0, <1>1, <1>2, <1>4, <2>5
  <2>7. Count(sz2, G["right"][n]) = Cardinality(A)
    BY <1>a, <1>1, <1>4, <2>1, SplayAssumption
  <2>8. sz2[n] = 1 + Count(sz2, G["left"][n]) + Count(sz2, G["right"][n])
    BY <2>1, <2>2, <2>3, <2>4, <2>6, <2>7
  <2> QED
    BY <1>6, <2>8 DEF Sized
<1> QED
  BY <1>5, <1>6

-----------------------------------------------------------------------------
(* The inductive invariant of the size fields.  Todo[d] is the node where  *)
(* the correction of side d goes on, and Null when it is done.             *)
Todo == [d \in Dir |-> IF pc = d THEN y ELSE IF pc = "right" THEN child["left"][N] ELSE Null]

SizeType == size \in [Key -> Nat] /\ acc \in [Dir -> Nat] /\ tsize \in Nat /\ IsFiniteSet(mem)

SizePhase ==
    /\ pc = "idle" => \A x \in mem : Sized(child, size, x)
    /\ pc \in {"loop", "link"} => LoopSizes(Cut, t, tail, size, acc)
    /\ pc \in Dir => FixSizes(child, t, tail, size, acc, Todo)
    /\ pc = "return" => \A x \in Whole : Sized(child, size, x)

(* What splaytree_delete relies on when it has splayed: the number of      *)
(* nodes it began with, and the right subtree of the node it will free.    *)
DeleteSizes ==
    /\ pc # "idle" /\ op.name = "delete" => tsize = Cardinality(mem)
    /\ gone # Null => \A x \in mem : gone < x => Sized(child, size, x)

SizeInv == SizeType /\ SizePhase /\ DeleteSizes

LEMMA SizeIsCount ==
    \A p : splaytree_size(p) = Count(size, p)
BY DEF splaytree_size, Count

LEMMA WholeFinite ==
    ASSUME SizeType  PROVE IsFiniteSet(Whole)
<1>1. Whole \subseteq mem /\ IsFiniteSet(mem)
  BY DEF Whole, SizeType
<1> QED
  BY <1>1, FS_Subset

(* The right subtree of the node in gone is not touched by the splay.      *)
LEMMA KeepDelete ==
    ASSUME SplayInv, SizeInv, UNCHANGED <<gone, mem, op, tsize>>, pc # "idle",
           \A x \in Key \ Whole, e \in Dir : child'[e][x] = child[e][x],
           \A x \in Key \ Whole : size'[x] = size[x]
    PROVE  DeleteSizes'
<1>1. pc' # "idle" /\ op'.name = "delete" => tsize' = Cardinality(mem')
  BY DEF SizeInv, DeleteSizes
<1>2. ASSUME gone # Null, NEW x \in mem, gone < x  PROVE Sized(child', size', x)
  <2>1. gone \in Key /\ mem \subseteq Key /\ "right" \in Dir /\ "left" \in Dir /\ child \in Heap
        /\ child["right"][gone] \in Ptr
    BY <1>2 DEF SplayInv, PtrType, Heap, Dir, Ptr
  <2>2. PICK S \in SUBSET Key : S = {k \in mem : gone < k}
    BY <2>1
  <2>3. Tree(child, child["right"][gone], S) /\ x \in S
    BY <1>2, <2>2 DEF SplayInv, GoneKept
  <2>4. \A e \in Dir : child[e][x] \in S \cup {Null}
    BY <2>1, <2>3, Subtree
  <2>5. S \cap Whole = {}
    <3>1. gone \in Int /\ \A z \in mem : z \in Int
      BY <2>1, SplayAssumption
    <3>2. Whole = {k \in mem : k < gone}
      BY <1>2 DEF Whole
    <3> QED
      BY <2>2, <3>1, <3>2
  <2>6. size'[x] = size[x] /\ \A e \in Dir : child'[e][x] = child[e][x]
    BY <2>3, <2>5
  <2>7. \A e \in Dir : Count(size', child[e][x]) = Count(size, child[e][x])
    BY <2>4, <2>5 DEF Count
  <2>8. Sized(child, size, x)
    BY <1>2 DEF SizeInv, DeleteSizes
  <2> QED
    BY <2>1, <2>6, <2>7, <2>8 DEF Sized
<1> QED
  BY <1>1, <1>2 DEF DeleteSizes

LEMMA RotateSizeInv ==
    ASSUME SplayInv, SizeInv, Rotate
    PROVE  SizeInv'
<1>1. /\ pc = "loop" /\ pc' = "link" /\ Split /\ PtrType
      /\ UNCHANGED <<mem, op, tail, acc, gone, tsize>>
  BY DEF Rotate, caller, splaying, SplayInv, Phase
<1>2. SizeType /\ LoopSizes(Cut, t, tail, size, acc)
  BY <1>1 DEF SizeInv, SizePhase
<1>3. PICK d \in Dir, c \in Key :
         /\ d = Toward(t) /\ c = child[d][t] /\ t' = c
         /\ t \in Whole /\ Whole \subseteq Key
         /\ Cut \in Heap /\ Cut' \in Heap /\ Cut[d][t] = c /\ Rotates(Cut, Cut', t, c, d)
         /\ c \in Whole /\ \A x \in Key \ {t, c}, e \in Dir : child'[e][x] = child[e][x]
  BY RotateStep
<1>4. Other(d) \in Dir /\ c # Null
  BY LessFacts, SplayAssumption
<1>5. Cut[Other(d)][c] = child[Other(d)][c] /\ Cut[Other(d)][t] = child[Other(d)][t]
  BY <1>1, <1>3, <1>4, InLoop
<1>6. PICK s : /\ s = Count(size, Cut[Other(d)][c]) + Count(size, Cut[Other(d)][t]) + 1
               /\ size' = [size EXCEPT ![t] = s]
  BY <1>3, <1>5, SizeIsCount DEF Rotate, Resized
<1>7. t \in Key /\ s \in Nat
  <2>1. \A e \in Dir : Count(size, Cut[e][c]) \in Nat /\ Count(size, Cut[e][t]) \in Nat
    BY <1>2, <1>3, SizedOf DEF SizeType
  <2> QED
    BY <1>3, <1>4, <1>6, <2>1
<1>8. /\ size \in [Key -> Nat] /\ size' \in [Key -> Nat] /\ size'[t] = s
      /\ \A z \in Key \ {t} : size'[z] = size[z]
  BY <1>2, <1>6, <1>7 DEF SizeType
<1>9. LoopSizes(Cut', c, tail, size', acc)
  <2>1. Splits(Cut, t, tail, op.key, Whole) /\ op.key \in Key /\ tail \in [Dir -> Key \cup {N}]
    BY <1>1 DEF Split, PtrType
  <2>2. PICK H \in Heap, H2 \in Heap : H = Cut /\ H2 = Cut' /\ c = H[d][t] /\ Rotates(H, H2, t, c, d)
    BY <1>3
  <2>3. PICK M \in SUBSET Key, S \in [Dir -> SUBSET Key] : Parts(H, t, tail, op.key, Whole, M, S)
    BY <2>1, <2>2 DEF Splits
  <2>4. LoopSizes(H, t, tail, size, acc)
    BY <1>2, <2>2
  <2>5. size'[t] = Count(size, H[Other(d)][c]) + Count(size, H[Other(d)][t]) + 1
    BY <1>6, <1>8, <2>2
  <2>6. LoopSizes(H2, c, tail, size', acc)
    BY <1>7, <1>8, <2>1, <2>2, <2>3, <2>4, <2>5, RotateSizes
  <2> QED
    BY <2>2, <2>6
<1>10. SizeType' /\ SizePhase'
  BY <1>1, <1>2, <1>3, <1>8, <1>9 DEF SizeType, SizePhase, Dir
<1>11. DeleteSizes'
  BY <1>1, <1>3, <1>8, KeepDelete
<1> QED
  BY <1>10, <1>11 DEF SizeInv

LEMMA LinkSizeInv ==
    ASSUME SplayInv, SizeInv, Link
    PROVE  SizeInv'
<1>1. /\ pc \in {"loop", "link"} /\ pc' = "loop" /\ Split /\ PtrType
      /\ UNCHANGED <<mem, op, size, gone, tsize>>
  BY DEF Link, CanLink, caller, SplayInv, Phase
<1>2. SizeType /\ LoopSizes(Cut, t, tail, size, acc)
  BY <1>1 DEF SizeInv, SizePhase
<1>3. PICK d \in Dir, c \in Key :
         /\ d = Toward(t) /\ t' = c /\ t \in Whole /\ Whole \subseteq Key
         /\ tail' \in [Dir -> Key \cup {N}]
         /\ Cut \in Heap /\ Cut' \in Heap /\ Links(Cut, Cut', t, c, op.key, tail, tail', d)
         /\ \A x \in Key \ Whole, e \in Dir : child'[e][x] = child[e][x]
  BY LinkStep
<1>4. Other(d) \in Dir /\ Other(d) # d /\ t \in Key
  BY <1>3, LessFacts
<1>5. Cut[Other(d)][t] = child[Other(d)][t]
  BY <1>1, <1>4, InLoop
<1>6. PICK j : j = Count(size, Cut[Other(d)][t]) /\ acc' = [acc EXCEPT ![d] = @ + 1 + j]
  BY <1>3, <1>5, SizeIsCount DEF Link
<1>7. j \in Nat
  BY <1>2, <1>3, <1>4, <1>6, SizedOf DEF SizeType
<1>8. acc' \in [Dir -> Nat] /\ Adds(acc, acc', d, 1 + j)
  BY <1>2, <1>4, <1>6, <1>7 DEF SizeType, Adds
<1>9. LoopSizes(Cut', c, tail', size, acc')
  <2>1. Splits(Cut, t, tail, op.key, Whole) /\ op.key \in Key /\ tail \in [Dir -> Key \cup {N}]
    BY <1>1 DEF Split, PtrType
  <2>2. PICK H \in Heap, H2 \in Heap :
           H = Cut /\ H2 = Cut' /\ Links(H, H2, t, c, op.key, tail, tail', d)
    BY <1>3
  <2>3. PICK M \in SUBSET Key, S \in [Dir -> SUBSET Key] : Parts(H, t, tail, op.key, Whole, M, S)
    BY <2>1, <2>2 DEF Splits
  <2>4. LoopSizes(H, t, tail, size, acc) /\ Adds(acc, acc', d, 1 + Count(size, H[Other(d)][t]))
    BY <1>2, <1>6, <1>8, <2>2
  <2>5. size \in [Key -> Nat] /\ IsFiniteSet(Whole)
    BY <1>2, WholeFinite DEF SizeType
  <2>6. LoopSizes(H2, c, tail', size, acc')
    BY <1>4, <2>1, <2>2, <2>3, <2>4, <2>5, LinkSizes
  <2> QED
    BY <2>2, <2>6
<1>10. SizeType' /\ SizePhase'
  BY <1>1, <1>2, <1>3, <1>8, <1>9 DEF SizeType, SizePhase, Dir
<1>11. DeleteSizes'
  BY <1>1, <1>3, KeepDelete
<1> QED
  BY <1>10, <1>11 DEF SizeInv

LEMMA BreakSizeInv ==
    ASSUME SplayInv, SizeInv, Break
    PROVE  SizeInv'
<1>1. /\ pc \in {"loop", "link"} /\ pc' = "right" /\ Split /\ PtrType
      /\ child' = Cut /\ y' = Cut["right"][N]
      /\ UNCHANGED <<mem, op, t, tail, gone, tsize>>
  BY DEF Break, caller, SplayInv, Phase
<1>2. SizeType /\ LoopSizes(Cut, t, tail, size, acc)
  BY <1>1 DEF SizeInv, SizePhase
<1>3. "left" \in Dir /\ "right" \in Dir /\ "left" # "right"
  BY DEF Dir
<1>4. /\ Cut \in Heap /\ t \in Key /\ t \in Whole /\ Whole \subseteq Key
      /\ \A e \in Dir : Other(e) \in Dir /\ Cut[Other(e)][t] = child[Other(e)][t]
  BY <1>1, <1>3, InLoop, LessFacts
<1>5. /\ acc' = [e \in Dir |-> acc[e] + Count(size, Cut[Other(e)][t])]
      /\ size' = [size EXCEPT ![t] = acc'["left"] + acc'["right"] + 1]
  BY <1>4, SizeIsCount DEF Break
<1>6. \A e \in Dir : Count(size, Cut[Other(e)][t]) \in Nat
  BY <1>2, <1>4, SizedOf DEF SizeType
<1>7. acc' \in [Dir -> Nat] /\ \A e \in Dir : acc'[e] = acc[e] + Count(size, Cut[Other(e)][t])
  BY <1>2, <1>5, <1>6 DEF SizeType
<1>8. /\ size \in [Key -> Nat] /\ size' \in [Key -> Nat]
      /\ size'[t] = acc'["left"] + acc'["right"] + 1
      /\ \A z \in Key \ {t} : size'[z] = size[z]
  <2>1. PICK s \in Nat : s = acc'["left"] + acc'["right"] + 1
    BY <1>3, <1>7
  <2> QED
    BY <1>2, <1>4, <1>5, <2>1 DEF SizeType
<1>9. \A e \in Dir : Todo'[e] = Cut[e][N]
  BY <1>1, <1>3 DEF Todo, Dir
<1>10. FixSizes(Cut, t, tail, size', acc', Todo')
  <2>1. Splits(Cut, t, tail, op.key, Whole) /\ op.key \in Key /\ tail \in [Dir -> Key \cup {N}]
    BY <1>1 DEF Split, PtrType
  <2>2. PICK H \in Heap : H = Cut
    BY <1>4
  <2>3. PICK M \in SUBSET Key, S \in [Dir -> SUBSET Key] : Parts(H, t, tail, op.key, Whole, M, S)
    BY <2>1, <2>2 DEF Splits
  <2>4. /\ LoopSizes(H, t, tail, size, acc) /\ \A e \in Dir : Todo'[e] = H[e][N]
        /\ \A e \in Dir : acc'[e] = acc[e] + Count(size, H[Other(e)][t])
    BY <1>2, <1>7, <1>9, <2>2
  <2>5. IsFiniteSet(Whole)
    BY <1>2, WholeFinite
  <2>6. PICK s \in [Key -> Nat] : s = size'
    BY <1>8
  <2>7. PICK a, d : a = acc' /\ d = Todo'
    OBVIOUS
  <2>8. s[t] = a["left"] + a["right"] + 1 /\ \A z \in Key \ {t} : s[z] = size[z]
    BY <1>8, <2>6, <2>7
  <2>9. /\ \A e \in Dir : d[e] = H[e][N]
        /\ \A e \in Dir : a[e] = acc[e] + Count(size, H[Other(e)][t])
    BY <2>4, <2>7
  <2>10. FixSizes(H, t, tail, s, a, d)
    <3>1. t \in Key /\ size \in [Key -> Nat] /\ LoopSizes(H, t, tail, size, acc)
      BY <1>4, <1>8, <2>4
    <3> QED
      BY <2>1, <2>3, <2>5, <2>8, <2>9, <3>1, BreakSizes
  <2> QED
    BY <2>2, <2>6, <2>7, <2>10
<1>11. SizeType' /\ SizePhase'
  BY <1>1, <1>2, <1>7, <1>8, <1>10 DEF SizeType, SizePhase, Dir
<1>12. DeleteSizes'
  <2>1. \A x \in Key \ Whole, e \in Dir : child'[e][x] = child[e][x]
    <3>1. \A e \in Dir : \A x \in Key \cup {N} : Cut[e][x] = IF x = tail[e] THEN Null ELSE child[e][x]
      BY <1>1, CutHeap
    <3>2. \A e \in Dir : tail[e] \in Whole \cup {N}
      BY <1>1, InLoop
    <3> QED
      BY <1>1, <3>1, <3>2, SplayAssumption
  <2>2. \A x \in Key \ Whole : size'[x] = size[x]
    BY <1>4, <1>8
  <2> QED
    BY <1>1, <2>1, <2>2, KeepDelete
<1> QED
  BY <1>11, <1>12 DEF SizeInv

LEMMA CorrectSizeInv ==
    ASSUME SplayInv, SizeInv, Correct
    PROVE  SizeInv'
<1>1. /\ pc \in Dir /\ pc' = pc /\ y \in Key /\ y # Null /\ Split /\ PtrType
      /\ UNCHANGED <<child, mem, op, t, tail, gone, tsize>>
  BY DEF Correct, caller, SplayInv, Phase, PtrType, Ptr
<1>2. SizeType /\ FixSizes(child, t, tail, size, acc, Todo)
  BY <1>1 DEF SizeInv, SizePhase
<1>3. PICK d \in Dir : d = pc /\ Other(d) \in Dir /\ Other(d) # d /\ Dir = {d, Other(d)}
  BY <1>1, LessFacts
<1>4. PICK a : /\ a = acc[d] - (1 + Count(size, child[Other(d)][y]))
               /\ acc' = [acc EXCEPT ![d] = a] /\ size' = [size EXCEPT ![y] = acc[d]]
               /\ y' = child[d][y]
  BY <1>3, SizeIsCount DEF Correct, Rest
<1>5. acc \in [Dir -> Nat] /\ acc'[d] = a /\ acc'[Other(d)] = acc[Other(d)]
  BY <1>2, <1>3, <1>4 DEF SizeType
<1>6. /\ size \in [Key -> Nat] /\ size' \in [Key -> Nat] /\ size'[y] = acc[d]
      /\ \A z \in Key \ {y} : size'[z] = size[z]
  BY <1>1, <1>2, <1>4, <1>5 DEF SizeType
<1>7. Todo[d] = y /\ Todo'[d] = child[d][y] /\ Todo'[Other(d)] = Todo[Other(d)]
  BY <1>1, <1>3, <1>4 DEF Todo
<1>8. Corrects(child, size, size', acc, acc', Todo, Todo', y, d)
  BY <1>4, <1>5, <1>6, <1>7 DEF Corrects
<1>9. child = Cut /\ child \in Heap /\ t \in Key /\ t \in Whole /\ Whole \subseteq Key
  BY <1>1, InLoop DEF SplayInv, Phase
<1>a. PICK M \in SUBSET Key, S \in [Dir -> SUBSET Key] : Parts(child, t, tail, op.key, Whole, M, S)
  BY <1>1, <1>9 DEF Split, Splits
<1>10. FixSizes(child, t, tail, size', acc', Todo') /\ acc'[d] \in Nat
  <2>1. op.key \in Key /\ tail \in [Dir -> Key \cup {N}] /\ IsFiniteSet(Whole)
    BY <1>1, <1>2, WholeFinite DEF PtrType
  <2> QED
    BY <1>a, <1>1, <1>2, <1>6, <1>8, <1>9, <2>1, CorrectSizes
<1>11. SizeType'
  <2>1. a \in Nat
    BY <1>5, <1>10
  <2>2. acc' \in [Dir -> Nat]
    BY <1>4, <1>5, <2>1
  <2> QED
    BY <1>1, <1>2, <1>6, <2>2 DEF SizeType
<1>12. SizePhase'
  BY <1>1, <1>10 DEF SizePhase, Dir
<1>13. DeleteSizes'
  <2>1. y \in Whole
    <3>1. SideSizes(child, t, tail[d], size, acc[d], y, d)
      BY <1>2, <1>7 DEF FixSizes
    <3>2. y \in Reach(child, child[d][N])
      BY <1>1, <3>1 DEF SideSizes
    <3>3. Reach(child, child[d][N]) = S[d] /\ S[d] \subseteq Whole
      BY <1>a DEF Parts, Beside, Tree, Dir
    <3> QED
      BY <3>2, <3>3
  <2>2. \A x \in Key \ Whole : size'[x] = size[x]
    BY <1>6, <2>1
  <2> QED
    BY <1>1, <2>2, KeepDelete DEF Dir
<1> QED
  BY <1>11, <1>12, <1>13 DEF SizeInv

LEMMA SecondLoopSizeInv ==
    ASSUME SplayInv, SizeInv, SecondLoop
    PROVE  SizeInv'
<1>1. /\ pc = "right" /\ pc' = "left" /\ y = Null /\ y' = child["left"][N]
      /\ UNCHANGED <<child, size, acc, mem, op, t, tail, gone, tsize>>
  BY DEF SecondLoop, caller
<1>2. SizeType /\ FixSizes(child, t, tail, size, acc, Todo)
  BY <1>1 DEF SizeInv, SizePhase, Dir
<1>3. Todo' = Todo
  BY <1>1 DEF Todo, Dir
<1>4. SizeType' /\ SizePhase'
  BY <1>1, <1>2, <1>3 DEF SizeType, SizePhase, Dir
<1>5. DeleteSizes'
  BY <1>1, KeepDelete
<1> QED
  BY <1>4, <1>5 DEF SizeInv

LEMMA AssembleSizeInv ==
    ASSUME SplayInv, SizeInv, Assemble
    PROVE  SizeInv'
<1>1. /\ Split /\ child = Cut /\ PtrType /\ pc' = "return" /\ child' = Joined /\ pc = "left" /\ y = Null
      /\ UNCHANGED <<mem, op, t, tail, acc, size, gone, tsize>>
  BY DEF Assemble, SplayInv, Phase, caller, splaying, Dir
<1>2. SizeType /\ FixSizes(child, t, tail, size, acc, Todo)
  BY <1>1 DEF SizeInv, SizePhase, Dir
<1>3. \A d \in Dir : Todo[d] = Null
  BY <1>1 DEF Todo, Dir
<1>4. /\ t \in Key /\ t \in Whole /\ Whole \subseteq Key
      /\ \A e \in Dir : tail[e] # t /\ tail[e] \in Whole \cup {N}
  BY <1>1, InLoop DEF Dir
<1>5. child \in Heap /\ tail \in [Dir -> Key \cup {N}] /\ op.key \in Key /\ size \in [Key -> Nat]
  BY <1>1, <1>2 DEF PtrType, SizeType
<1>6. PICK J \in Heap : J = child' /\ Joins(child, J, t, tail)
  <2>1. child' = JoinAt(child, t, tail)
    BY <1>1 DEF Joined, JoinAt
  <2> QED
    BY <1>4, <1>5, <2>1, JoinOf
<1>7. PICK M \in SUBSET Key, S \in [Dir -> SUBSET Key] : Parts(child, t, tail, op.key, Whole, M, S)
  BY <1>1 DEF Split, Splits
<1>8. \A x \in Whole : Sized(J, size, x)
  BY <1>2, <1>3, <1>4, <1>5, <1>6, <1>7, AssembleSizes
<1>9. Whole' = Whole
  BY <1>1 DEF Whole
<1>10. SizeType' /\ SizePhase'
  BY <1>1, <1>2, <1>6, <1>8, <1>9 DEF SizeType, SizePhase, Dir
<1>11. DeleteSizes'
  <2>1. \A x \in Key \ Whole, e \in Dir : child'[e][x] = child[e][x]
    BY <1>4, <1>6, SplayAssumption DEF Joins
  <2> QED
    BY <1>1, <2>1, KeepDelete
<1> QED
  BY <1>10, <1>11 DEF SizeInv

(* splaytree_splay begins with empty side trees.                           *)
LEMMA SplayBeginsSizes ==
    ASSUME PtrType, SizeType, NEW n \in Ptr, NEW S \in SUBSET Key, Tree(child, n, S),
           \A x \in S : Sized(child, size, x),
           Splay(n), op' \in [name : Ops, key : Key], Whole' = S, UNCHANGED size
    PROVE  SizePhase' /\ acc' \in [Dir -> Nat]
<1>1. acc' = [d \in Dir |-> 0] /\ acc' \in [Dir -> Nat]
  BY DEF Splay
<1>2. /\ child' \in Heap /\ t' = n /\ child \in Heap
      /\ \A x \in Key, e \in Dir : child'[e][x] = child[e][x]
      /\ Cut' \in Heap
      /\ \A x \in Key \cup {N}, e \in Dir : Cut'[e][x] = IF x = N THEN Null ELSE child[e][x]
  BY SplayBegins DEF PtrType
<1>3. CASE n = Null
  <2>1. pc' = "return" /\ S = {}
    BY <1>2, <1>3, ReachNull DEF Splay, Tree
  <2> QED
    BY <1>1, <2>1 DEF SizePhase, Dir
<1>4. CASE n # Null
  <2>1. PICK H \in Heap : H = Cut' /\ \A x \in Key \cup {N}, e \in Dir :
                                      H[e][x] = IF x = N THEN Null ELSE child[e][x]
    BY <1>2
  <2>2. \A x \in Key, e \in Dir : H[e][x] = child[e][x]
    BY <2>1, SplayAssumption
  <2>3. Tree(H, n, S)
    BY <1>2, <2>2, Frame DEF Agree
  <2>4. \A x \in Reach(H, n) : Sized(H, size, x)
    BY <2>2, <2>3 DEF Tree, Sized, Dir
  <2>5. \A d \in Dir : Reach(H, H[d][N]) = {} /\ acc'[d] = Cardinality(Reach(H, H[d][N]))
    BY <1>1, <2>1, ReachNull, FS_EmptySet
  <2>6. LoopSizes(H, n, tail', size, acc')
    BY <2>4, <2>5 DEF LoopSizes
  <2>7. pc' = "loop"
    BY <1>4 DEF Splay
  <2> QED
    BY <1>1, <1>2, <2>1, <2>6, <2>7 DEF SizePhase, Dir
<1> QED
  BY <1>3, <1>4

LEMMA CallSizeInv ==
    ASSUME SplayInv, SizeInv, NEW o \in Ops, NEW i \in Key, Call(o, i)
    PROVE  SizeInv'
<1>1. /\ pc = "idle" /\ gone = Null /\ gone' = Null /\ mem' = mem /\ size' = size
      /\ op' = [name |-> o, key |-> i] /\ Splay(root)
      /\ tsize' = IF o = "delete" THEN splaytree_size(root) ELSE tsize
  BY DEF Call, SplayInv, GoneKept
<1>2. /\ PtrType /\ SizeType /\ Tree(child, root, mem) /\ root \in Ptr /\ mem \in SUBSET Key
      /\ Whole' = mem /\ op' \in [name : Ops, key : Key] /\ child \in Heap
      /\ \A x \in mem : Sized(child, size, x)
  BY <1>1 DEF SplayInv, SizeInv, SizePhase, Phase, PtrType, Whole
<1>3. SizePhase' /\ acc' \in [Dir -> Nat]
  BY <1>1, <1>2, SplayBeginsSizes
<1>4. splaytree_size(root) = Cardinality(mem) /\ splaytree_size(root) \in Nat
  <2>1. IsFiniteSet(mem) /\ size \in [Key -> Nat]
    BY <1>2 DEF SizeType
  <2> QED
    BY <1>2, <2>1, SizesCount, SizeIsCount, FS_CardinalityType
<1>5. SizeType'
  BY <1>1, <1>2, <1>3, <1>4 DEF SizeType
<1>6. DeleteSizes'
  BY <1>1, <1>4 DEF DeleteSizes
<1> QED
  BY <1>3, <1>5, <1>6 DEF SizeInv

LEMMA DeleteSplayLeftSizeInv ==
    ASSUME SplayInv, SizeInv, DeleteSplayLeft
    PROVE  SizeInv'
<1>1. /\ pc = "return" /\ op.name = "delete" /\ AtRoot /\ gone = Null
      /\ gone' = t /\ Splay(child["left"][t]) /\ UNCHANGED <<mem, op, tsize, size>>
  BY DEF DeleteSplayLeft, Returning, caller
<1>2. /\ PtrType /\ child \in Heap /\ mem \in SUBSET Key /\ Whole = mem
      /\ Tree(child, t, mem) /\ t \in Key /\ op' \in [name : Ops, key : Key]
  BY <1>1, AtReturn DEF PtrType
<1>3. SizeType /\ \A x \in mem : Sized(child, size, x)
  BY <1>1, <1>2 DEF SizeInv, SizePhase
<1>4. PICK A \in SUBSET Key : A = {k \in mem : k < t}
  BY <1>2
<1>5. child["left"][t] \in Ptr /\ Tree(child, child["left"][t], A)
  BY <1>2, <1>4, RootParts
<1>6. Whole' = A /\ gone' # Null
  BY <1>1, <1>2, <1>4, SplayAssumption DEF Whole
<1>7. SizePhase' /\ acc' \in [Dir -> Nat]
  BY <1>1, <1>2, <1>3, <1>4, <1>5, <1>6, SplayBeginsSizes
<1>8. SizeType'
  BY <1>1, <1>3, <1>7 DEF SizeType
<1>9. DeleteSizes'
  <2>1. \A x \in Key, e \in Dir : child'[e][x] = child[e][x]
    BY <1>1, <1>2, <1>5, <1>6, SplayBegins
  <2>2. \A x \in mem : Sized(child', size', x)
    BY <1>1, <1>2, <1>3, <2>1 DEF Sized, Dir
  <2>3. tsize = Cardinality(mem)
    BY <1>1 DEF SizeInv, DeleteSizes
  <2> QED
    BY <1>1, <2>2, <2>3 DEF DeleteSizes
<1> QED
  BY <1>7, <1>8, <1>9 DEF SizeInv

(* An operation returns right sizes if they are right in its pointers.     *)
LEMMA DoneSizes ==
    ASSUME NEW n, NEW G, mem' \subseteq Key, IsFiniteSet(mem'), Done(n, G),
           size' \in [Key -> Nat], \A x \in mem' : Sized(G, size', x)
    PROVE  SizeInv'
<1>1. /\ pc' = "idle" /\ gone' = Null /\ tsize' = 0 /\ acc' = [d \in Dir |-> 0]
      /\ child' = [d \in Dir |-> [x \in Key \cup {N} |-> IF x \in mem' THEN G[d][x] ELSE Null]]
  BY DEF Done
<1>2. \A x \in mem', d \in Dir : child'[d][x] = G[d][x]
  BY <1>1
<1>3. \A x \in mem' : Sized(child', size', x)
  BY <1>2 DEF Sized, Dir
<1>4. SizeType'
  BY <1>1 DEF SizeType
<1>5. SizePhase' /\ DeleteSizes'
  BY <1>1, <1>3 DEF SizePhase, DeleteSizes, Dir
<1> QED
  BY <1>4, <1>5 DEF SizeInv

LEMMA ReturnSizeInv ==
    ASSUME SplayInv, SizeInv, ReturnSplay \/ InsertPresent \/ DeleteAbsent
    PROVE  SizeInv'
<1>1. pc = "return" /\ mem' = mem /\ size' = size /\ Done(t, child)
  BY DEF ReturnSplay, InsertPresent, DeleteAbsent, Returning
<1>2. gone = Null
  BY DEF ReturnSplay, InsertPresent, DeleteAbsent, Returning, SplayInv, GoneKept
<1>3. mem \subseteq Key /\ Whole = mem
  BY <1>1, <1>2, AtReturn
<1>4. SizeType /\ \A x \in mem : Sized(child, size, x)
  BY <1>1, <1>3 DEF SizeInv, SizePhase
<1> QED
  BY <1>1, <1>3, <1>4, DoneSizes DEF SizeType

LEMMA InsertSizeInv ==
    ASSUME SplayInv, SizeInv, Insert
    PROVE  SizeInv'
<1>1. pc = "return" /\ op.name = "insert" /\ ~ AtRoot
  BY DEF Insert, Returning
<1>2. /\ PtrType /\ child \in Heap /\ t \in Ptr /\ mem \in SUBSET Key
      /\ Tree(child, t, Whole) /\ (gone = Null => Whole = mem)
      /\ op.key \in Key /\ (t = Null => Whole = {}) /\ (t # Null => t \in Key)
      /\ AtRoot <=> t = op.key
      /\ AtRoot <=> op.key \in Whole
  BY <1>1, AtReturn
<1>3. Whole = mem
  BY <1>1, <1>2 DEF SplayInv, GoneKept
<1>4. PICK i \in Key : i = op.key /\ i \notin mem
  BY <1>1, <1>2, <1>3
<1>5. /\ size \in [Key -> Nat] /\ IsFiniteSet(mem) /\ \A x \in mem : Sized(child, size, x)
  BY <1>1, <1>3 DEF SizeInv, SizePhase, SizeType
<1>6. mem' = mem \cup {i} /\ mem' \subseteq Key /\ IsFiniteSet(mem')
  BY <1>2, <1>4, <1>5, FS_AddElement DEF Insert
<1>7. CASE t = Null
  <2>1. PICK G : G = [e \in Dir |-> [child[e] EXCEPT ![i] = Null]]
    OBVIOUS
  <2>2. Done(i, G) /\ size' = [size EXCEPT ![i] = 1]
    BY <1>4, <1>7, <2>1 DEF Insert
  <2>3. G["left"][i] = Null /\ G["right"][i] = Null
    BY <1>2, <2>1 DEF Heap, Dir
  <2>4. size' \in [Key -> Nat] /\ size'[i] = 1 /\ mem' = {i}
    BY <1>2, <1>3, <1>5, <1>6, <1>7, <2>2
  <2>5. Sized(G, size', i)
    BY <2>3, <2>4 DEF Sized, Count
  <2> QED
    BY <1>6, <2>2, <2>4, <2>5, DoneSizes
<1>8. CASE t # Null
  <2>1. t \in Key /\ t # i /\ Tree(child, t, mem)
    BY <1>1, <1>2, <1>3, <1>4, <1>8
  <2>2. PICK d \in Dir : d = Toward(t) /\ Other(d) \in Dir
    BY <1>2, <2>1, TowardLess, LessFacts
  <2>3. PICK G : G = InsertAt(child, t, i, d)
    OBVIOUS
  <2>4. PICK a, b : /\ a = Count(size, child[d][t]) /\ b = 1 + Count(size, child[Other(d)][t])
                    /\ Done(i, G) /\ size' = [size EXCEPT ![t] = b, ![i] = 1 + a + b]
    BY <1>4, <1>8, <2>2, <2>3, SizeIsCount DEF Insert, InsertAt
  <2>5. /\ G \in Heap /\ G[d][i] = child[d][t] /\ G[d][t] = Null /\ G[Other(d)][i] = t
        /\ \A x \in Key, e \in Dir : x # i /\ <<x, e>> # <<t, d>> => G[e][x] = child[e][x]
    BY <1>2, <2>1, <2>3, InsertOf
  <2>6. a \in Nat /\ b \in Nat /\ 1 + a + b \in Nat
    <3>1. Count(size, child[d][t]) \in Nat /\ Count(size, child[Other(d)][t]) \in Nat
      BY <1>2, <1>5, <2>1, SizedOf
    <3> QED
      BY <2>4, <3>1
  <2>7. /\ size' \in [Key -> Nat] /\ size'[t] = b /\ size'[i] = 1 + a + size'[t]
        /\ \A z \in Key \ {t, i} : size'[z] = size[z]
    BY <1>5, <2>1, <2>4, <2>6
  <2>8. /\ size'[t] = 1 + Count(size, child[Other(d)][t])
        /\ size'[i] = 1 + Count(size, child[d][t]) + size'[t]
    BY <2>4, <2>7
  <2>9. \A x \in mem \cup {i} : Sized(G, size', x)
    BY <1>2, <1>4, <1>5, <2>1, <2>5, <2>7, <2>8, InsertSizes
  <2> QED
    BY <1>6, <2>4, <2>7, <2>9, DoneSizes
<1> QED
  BY <1>7, <1>8

(* What splaytree_delete leaves in the size fields.                        *)
LEMMA FreeSizes ==
    ASSUME NEW n, NEW x, n # x, NEW G, Free(n, x, G), SizeType, tsize - 1 \in Nat
    PROVE  /\ size' \in [Key -> Nat] /\ (x \in Key => size'[x] = tsize - 1)
           /\ \A k \in Key \ {n, x} : size'[k] = size[k]
           /\ mem' = mem \ {n} /\ IsFiniteSet(mem') /\ Done(x, G)
<1>1. /\ size' = [k \in Key |-> IF k = x THEN tsize - 1 ELSE IF k = n THEN 0 ELSE size[k]]
      /\ mem' = mem \ {n} /\ Done(x, G)
  <2>1. \A k : (CASE k = x -> tsize - 1 [] k = n -> 0 [] OTHER -> size[k])
                = IF k = x THEN tsize - 1 ELSE IF k = n THEN 0 ELSE size[k]
    OBVIOUS
  <2> QED
    BY <2>1 DEF Free
<1>2. IsFiniteSet(mem) /\ size \in [Key -> Nat]
  BY DEF SizeType
<1>3. IsFiniteSet(mem')
  BY <1>1, <1>2, FS_Subset
<1>4. /\ size' \in [Key -> Nat] /\ (x \in Key => size'[x] = tsize - 1)
      /\ \A k \in Key \ {n, x} : size'[k] = size[k]
  BY <1>1, <1>2
<1> QED
  BY <1>1, <1>3, <1>4

LEMMA DeleteNoLeftSizeInv ==
    ASSUME SplayInv, SizeInv, DeleteNoLeft
    PROVE  SizeInv'
<1>1. pc = "return" /\ op.name = "delete" /\ gone = Null /\ Free(t, child["right"][t], child)
  BY DEF DeleteNoLeft, Returning
<1>2. /\ child \in Heap /\ mem \in SUBSET Key /\ Tree(child, t, mem)
      /\ t \in Key /\ child["right"][t] \in Ptr
      /\ mem = {t} \cup mem' /\ t \notin mem' /\ Tree(child, child["right"][t], mem')
  BY DeleteNoLeftStep
<1>a. IsFiniteSet(mem) /\ tsize = Cardinality(mem)
  BY <1>1 DEF SizeInv, SizeType, DeleteSizes
<1>3. SizeType /\ size \in [Key -> Nat] /\ \A x \in mem : Sized(child, size, x)
  <2>1. Whole = mem
    BY <1>1, AtReturn
  <2> QED
    BY <1>1, <2>1 DEF SizeInv, SizePhase, SizeType
<1>4. IsFiniteSet(mem') /\ Cardinality(mem') \in Nat /\ tsize - 1 = Cardinality(mem')
  <2>1. IsFiniteSet(mem')
    BY <1>2, <1>a, FS_Subset
  <2>2. Cardinality(mem' \cup {t}) = Cardinality(mem') + 1 /\ mem' \cup {t} = mem
    BY <1>2, <2>1, FS_AddElement
  <2>3. Cardinality(mem') \in Nat
    BY <2>1, FS_CardinalityType
  <2>4. tsize = Cardinality(mem') + 1
    BY <1>a, <2>2
  <2> QED
    BY <2>1, <2>3, <2>4
<1>5. Count(size, child["right"][t]) = Cardinality(mem')
  BY <1>2, <1>3, <1>4, SizesCount
<1>6. /\ size' \in [Key -> Nat] /\ Done(child["right"][t], child)
      /\ child["right"][t] \in Key => size'[child["right"][t]] = tsize - 1
      /\ \A k \in Key \ {t, child["right"][t]} : size'[k] = size[k]
  <2>1. child["right"][t] # t
    BY <1>2, ReachClosed, SplayAssumption DEF Tree
  <2> QED
    BY <1>1, <1>3, <1>4, <2>1, FreeSizes
<1>7. \A k \in mem' : k \in Key /\ size'[k] = size[k]
  <2>1. ASSUME NEW k \in mem', k = child["right"][t]  PROVE size'[k] = size[k]
    BY <1>2, <1>4, <1>5, <1>6, <2>1, SplayAssumption DEF Count
  <2> QED
    BY <1>2, <1>6, <2>1
<1>8. \A x \in mem' : Sized(child, size', x)
  <2>1. Agree(child, child, mem') /\ \A k \in mem' : size'[k] = size[k]
    BY <1>7 DEF Agree
  <2>2. \A x \in mem' : Sized(child, size, x) => Sized(child, size', x)
    BY <1>2, <1>3, <1>6, <2>1, SizesKept
  <2> QED
    BY <1>2, <1>3, <2>2
<1> QED
  BY <1>2, <1>4, <1>6, <1>8, DoneSizes

LEMMA DeleteJoinSizeInv ==
    ASSUME SplayInv, SizeInv, DeleteJoin
    PROVE  SizeInv'
<1>1. pc = "return" /\ op.name = "delete" /\ gone # Null /\ gone \in Key
  BY SplayAssumption DEF DeleteJoin, Returning, SplayInv, PtrType, Ptr
<1>2. PICK G \in Heap, S \in SUBSET Key, A \in SUBSET Key, R \in Ptr :
         /\ child \in Heap /\ mem \in SUBSET Key /\ t \in Key /\ t \in S
         /\ R = child["right"][gone] /\ Hangs(child, G, t, R) /\ Done(t, G)
         /\ S = Whole /\ A = {k \in mem : gone < k} /\ S \cap A = {}
         /\ gone \notin S /\ gone \notin A /\ mem = {gone} \cup S \cup A /\ mem' = S \cup A
         /\ Tree(child, t, S) /\ Tree(child, R, A) /\ Tree(G, t, S \cup A)
         /\ child["right"][t] = Null
  BY DeleteJoinStep
<1>a. IsFiniteSet(mem) /\ tsize = Cardinality(mem)
  BY <1>1 DEF SizeInv, SizeType, DeleteSizes
<1>3. SizeType /\ size \in [Key -> Nat] /\ \A x \in S \cup A : Sized(child, size, x)
  BY <1>1, <1>2 DEF SizeInv, SizePhase, SizeType, DeleteSizes
<1>4. /\ IsFiniteSet(S) /\ IsFiniteSet(A) /\ tsize - 1 = Cardinality(S) + Cardinality(A)
      /\ tsize - 1 \in Nat
  <2>1. IsFiniteSet(S) /\ IsFiniteSet(A)
    <3>1. S \subseteq mem /\ A \subseteq mem
      BY <1>2
    <3> QED
      BY <1>a, <3>1, FS_Subset
  <2>2. Counted(gone, S, A) /\ mem = {gone} \cup S \cup A
    BY <1>2, <2>1, JoinCard
  <2>3. tsize = 1 + Cardinality(S) + Cardinality(A) /\ Cardinality(S) \in Nat /\ Cardinality(A) \in Nat
    BY <1>a, <2>2 DEF Counted
  <2> QED
    BY <2>1, <2>3
<1>5. PICK F : Free(gone, t, F)
  BY DEF DeleteJoin
<1>6. /\ size' \in [Key -> Nat] /\ size'[t] = tsize - 1
      /\ \A k \in Key \ {t, gone} : size'[k] = size[k]
      /\ IsFiniteSet(mem')
  BY <1>2, <1>3, <1>4, <1>5, FreeSizes
<1>7. \A x \in S \cup A : Sized(G, size', x)
  <2>1. size'[t] = Cardinality(S) + Cardinality(A)
    BY <1>4, <1>6
  <2> QED
    <3>1. \A k \in Key \ {t, gone} : size'[k] = size[k]
      BY <1>6
    <3>2. /\ child \in Heap /\ Hangs(child, G, t, R) /\ child["right"][t] = Null
          /\ Tree(child, t, S) /\ Tree(child, R, A)
          /\ S \cap A = {} /\ gone \notin S /\ gone \notin A /\ t \in Key
      BY <1>2
    <3>3. \A x \in S \cup A : Sized(child, size, x)
      BY <1>3
    <3>4. size \in [Key -> Nat] /\ size' \in [Key -> Nat] /\ IsFiniteSet(S) /\ IsFiniteSet(A)
      BY <1>3, <1>4, <1>6
    <3> QED
      BY <1>1, <2>1, <3>1, <3>2, <3>3, <3>4, JoinSizes
<1> QED
  BY <1>2, <1>6, <1>7, DoneSizes

LEMMA InitSizeInv == Init => SizeInv
<1> SUFFICES ASSUME Init  PROVE SizeInv
  OBVIOUS
<1>1. IsFiniteSet(mem)
  BY FS_EmptySet DEF Init
<1>2. SizeType
  BY <1>1 DEF Init, SizeType
<1>3. SizePhase /\ DeleteSizes
  BY DEF Init, SizePhase, DeleteSizes, Dir
<1> QED
  BY <1>2, <1>3 DEF SizeInv

LEMMA NextSizeInv == SplayInv /\ SizeInv /\ [Next]_vars => SizeInv'
<1> SUFFICES ASSUME SplayInv, SizeInv, [Next]_vars  PROVE SizeInv'
  OBVIOUS
<1>1. CASE UNCHANGED vars
  <2>1. UNCHANGED <<child, size, acc, tsize, mem, pc, op, t, tail, y, gone>>
    BY <1>1 DEF vars
  <2>2. Cut' = Cut /\ Whole' = Whole /\ Todo' = Todo
    BY <2>1 DEF Cut, Whole, Todo
  <2>3. SizeType' /\ DeleteSizes'
    BY <2>1 DEF SizeInv, SizeType, DeleteSizes
  <2>4. SizePhase'
    BY <2>1, <2>2 DEF SizeInv, SizePhase
  <2> QED
    BY <2>3, <2>4 DEF SizeInv
<1>2. ASSUME NEW o \in Ops, NEW i \in Key, Call(o, i)  PROVE SizeInv'
  BY <1>2, CallSizeInv
<1>3. CASE Rotate
  BY <1>3, RotateSizeInv
<1>4. CASE Link
  BY <1>4, LinkSizeInv
<1>5. CASE Break
  BY <1>5, BreakSizeInv
<1>6. CASE Correct
  BY <1>6, CorrectSizeInv
<1>7. CASE SecondLoop
  BY <1>7, SecondLoopSizeInv
<1>8. CASE Assemble
  BY <1>8, AssembleSizeInv
<1>9. CASE ReturnSplay \/ InsertPresent \/ DeleteAbsent
  BY <1>9, ReturnSizeInv
<1>10. CASE Insert
  BY <1>10, InsertSizeInv
<1>11. CASE DeleteNoLeft
  BY <1>11, DeleteNoLeftSizeInv
<1>12. CASE DeleteSplayLeft
  BY <1>12, DeleteSplayLeftSizeInv
<1>13. CASE DeleteJoin
  BY <1>13, DeleteJoinSizeInv
<1> QED
  BY <1>1, <1>2, <1>3, <1>4, <1>5, <1>6, <1>7, <1>8, <1>9, <1>10, <1>11, <1>12, <1>13 DEF Next

LEMMA SizeInvariant == Spec => [](SplayInv /\ SizeInv)
BY InitSplayInv, NextSplayInv, InitSizeInv, NextSizeInv, PTL DEF Spec

(* The size fields of splaytree.c: whatever was called before, and         *)
(* although a splay only corrects them along the two paths it followed,    *)
(* each is the number of nodes rooted there when an operation has returned *)
(* ("maintained to be the number of nodes rooted here").                   *)
THEOREM SplaySizesExact == Spec => []SizesExact
<1>1. SplayInv /\ SizeInv => SizesExact
  <2> SUFFICES ASSUME SplayInv, SizeInv, pc = "idle"
               PROVE  \A n \in Below(root) : size[n] = Cardinality(Below(n))
    BY DEF SizesExact
  <2>1. Tree(child, root, mem) /\ child \in Heap /\ root \in Ptr
    BY DEF SplayInv, Phase, PtrType
  <2>2. size \in [Key -> Nat] /\ IsFiniteSet(mem) /\ \A x \in mem : Sized(child, size, x)
    BY DEF SizeInv, SizeType, SizePhase
  <2>3. \A x \in mem : size[x] = Cardinality(Reach(child, x))
    BY <2>1, <2>2, SizesCount
  <2> QED
    BY <2>1, <2>3 DEF Tree, Below
<1> QED
  BY <1>1, SizeInvariant, PTL

(* splaytree.c's fields and locals: pointers are nodes or NULL, and no     *)
(* size ever becomes negative, l_size and r_size included, from which the  *)
(* correcting loops subtract.                                              *)
THEOREM SplayTypeCorrect == Spec => []TypeOK
<1>1. SplayInv /\ SizeInv => TypeOK
  <2> SUFFICES ASSUME SplayInv, SizeInv  PROVE TypeOK
    OBVIOUS
  <2>1. child \in [Dir -> [Key \cup {N} -> Key \cup {Null}]]
    BY DEF SplayInv, PtrType, Heap, Ptr
  <2>2. pc \in {"idle", "loop", "link", "return"} \cup Dir
    BY DEF SplayInv, PtrType, Dir
  <2>3. /\ mem \subseteq Key /\ keys \subseteq Key
        /\ {root, t, y, gone} \subseteq Key \cup {Null}
        /\ tail \in [Dir -> Key \cup {N}] /\ op \in [name : Ops, key : Key]
    BY DEF SplayInv, PtrType, Ptr
  <2>4. size \in [Key -> Nat] /\ acc \in [Dir -> Nat] /\ tsize \in Nat
    BY DEF SizeInv, SizeType
  <2> QED
    BY <2>1, <2>2, <2>3, <2>4 DEF TypeOK
<1> QED
  BY <1>1, SizeInvariant, PTL
=============================================================================
