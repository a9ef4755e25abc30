---------------------- MODULE ConnectedComponents_proofs ----------------------
(***************************************************************************)
(* Proofs about ConnectedComponents, for every number of nodes and edges    *)
(* and every edge list.                                                     *)
(*                                                                          *)
(* The argument never follows a path of the forest.  Two nodes are in one   *)
(* tree when no set closed under parent[] separates them.  A hook leaves    *)
(* only closed sets that were closed before, so it never separates anybody; *)
(* a halving write, stale or not, leaves the closed sets exactly as they    *)
(* were, because it points a hooked node at a smaller node of its own tree  *)
(* (HalvingKeepsTrees).  That is all a thread relies on while others run.        *)
(***************************************************************************)
EXTENDS ConnectedComponents, TLAPS

-----------------------------------------------------------------------------
(* Forests whose parents have smaller indices. *)

Forest(f) == f \in [Nodes -> Nodes] /\ \A n \in Nodes : f[n] <= n

\* A set of the nodes below y that is closed under f there is the lower part
\* of a closed set: the set of the descendants of its members.
LEMMA ClosedExtension ==
  ASSUME NEW f, Forest(f), NEW y \in Int, NEW A \in SUBSET Nodes,
         \A n \in A : n < y,
         \A n \in Nodes : n < y => (n \in A <=> f[n] \in A)
  PROVE  \E T \in SUBSET Nodes : TreeClosed(f, T) /\ \A n \in Nodes : n < y => (n \in T <=> n \in A)
<1> DEFINE Down(U) == \A n \in Nodes : f[n] \in U => n \in U
           Above(U) == A \subseteq U /\ Down(U)
           T == {n \in Nodes : \A U \in SUBSET Nodes : Above(U) => n \in U}
<1>1. A \subseteq T
  OBVIOUS
<1>2. Down(T)
  BY DEF Forest
<1>3. ASSUME NEW n \in Nodes, n < y, n \in T PROVE n \in A
  <2> DEFINE U == A \cup {m \in Nodes : m >= y}
  <2>1. Above(U)
    BY DEF Forest, Nodes
  <2>2. n \in U
    BY <2>1, <1>3
  <2> QED BY <2>2, <1>3 DEF Nodes
<1>4. ASSUME NEW n \in T PROVE f[n] \in T
  <2>1. CASE n \in A
    BY <2>1, <1>1
  <2>2. CASE n \notin A
    <3> SUFFICES ASSUME f[n] \notin T PROVE FALSE
      OBVIOUS
    <3> DEFINE U == T \ {n}
    <3>1. Above(U)
      <4>1. A \subseteq U
        BY <1>1, <2>2
      <4>2. ASSUME NEW m \in Nodes, f[m] \in U PROVE m \in U
        BY <1>2, <4>2
      <4> QED BY <4>1, <4>2
    <3>2. U \in SUBSET Nodes
      OBVIOUS
    <3> QED BY <3>1, <3>2
  <2> QED BY <2>1, <2>2
<1>5. TreeClosed(f, T)
  BY <1>2, <1>4 DEF TreeClosed
<1> QED BY <1>1, <1>3, <1>5

\* A root is the smallest node of its tree.
LEMMA RootIsSmallest ==
  ASSUME NEW f, Forest(f), NEW r \in Nodes, f[r] = r, NEW m \in Nodes,
         \A S \in SUBSET Nodes : TreeClosed(f, S) => (r \in S <=> m \in S)
  PROVE  r <= m
<1>1. \A n \in Nodes : n < r + 1 => (n \in {r} <=> f[n] \in {r})
  BY DEF Forest, Nodes
<1>a. r + 1 \in Int /\ {r} \in SUBSET Nodes /\ \A n \in {r} : n < r + 1
  BY DEF Nodes
<1>2. PICK T \in SUBSET Nodes : TreeClosed(f, T) /\ \A n \in Nodes : n < r + 1 => (n \in T <=> n \in {r})
  BY <1>1, <1>a, ClosedExtension
<1>3. m \in T
  BY <1>2 DEF Nodes
<1> QED BY <1>2, <1>3 DEF Nodes

\* Pointing a hooked node at a smaller node of its tree keeps the closed sets.
LEMMA Repointed ==
  ASSUME NEW f, Forest(f), NEW y \in Nodes, NEW q \in Nodes, f[y] # y, q < y,
         \A S \in SUBSET Nodes : TreeClosed(f, S) => (y \in S <=> q \in S),
         NEW S \in SUBSET Nodes
  PROVE  TreeClosed([f EXCEPT ![y] = q], S) <=> TreeClosed(f, S)
<1>1. ASSUME TreeClosed(f, S) PROVE TreeClosed([f EXCEPT ![y] = q], S)
  BY <1>1 DEF TreeClosed, Forest
<1>2. ASSUME TreeClosed([f EXCEPT ![y] = q], S) PROVE TreeClosed(f, S)
  <2> DEFINE A == {n \in S : n < y}
  <2>1. f[y] < y
    BY DEF Forest, Nodes
  <2>2. \A n \in Nodes : n < y => (n \in A <=> f[n] \in A)
    BY <1>2 DEF TreeClosed, Forest, Nodes
  <2>a. y \in Int
    BY DEF Nodes
  <2>b. A \in SUBSET Nodes
    OBVIOUS
  <2>c. \A n \in A : n < y
    OBVIOUS
  <2> HIDE DEF A
  <2>3. PICK T \in SUBSET Nodes : TreeClosed(f, T) /\ \A n \in Nodes : n < y => (n \in T <=> n \in A)
    BY <2>2, <2>a, <2>b, <2>c, ClosedExtension
  <2> USE DEF A
  <2>4. q \in T <=> f[y] \in T
    BY <2>3 DEF TreeClosed
  <2>5. q \in S <=> f[y] \in S
    BY <2>1, <2>3, <2>4 DEF Forest
  <2>6. y \in S <=> q \in S
    BY <1>2 DEF TreeClosed, Forest
  <2>7. \A n \in Nodes : n # y => (n \in S <=> f[n] \in S)
    BY <1>2 DEF TreeClosed, Forest
  <2> QED BY <2>5, <2>6, <2>7 DEF TreeClosed
<1> QED BY <1>1, <1>2

LEMMA SameTreeReflexive == \A f, m : SameTree(f, m, m)
BY DEF SameTree

LEMMA SameTreeSymmetric == \A f, m, n : SameTree(f, m, n) => SameTree(f, n, m)
BY DEF SameTree

LEMMA SameTreeTransitive ==
  \A f, m, n, r : SameTree(f, m, n) /\ SameTree(f, n, r) => SameTree(f, m, r)
BY DEF SameTree

LEMMA ParentSameTree ==
  ASSUME NEW f, NEW n \in Nodes
  PROVE  SameTree(f, n, f[n])
BY DEF SameTree, TreeClosed

\* What a halving write does to the trees: nothing.
LEMMA HalvingKeepsTrees ==
  ASSUME NEW f, Forest(f), NEW y \in Nodes, NEW q \in Nodes, f[y] # y, q < y,
         SameTree(f, y, q)
  PROVE  /\ Forest([f EXCEPT ![y] = q])
         /\ \A S \in SUBSET Nodes : TreeClosed(f, S) => TreeClosed([f EXCEPT ![y] = q], S)
         /\ \A m, n : SameTree(f, m, n) => SameTree([f EXCEPT ![y] = q], m, n)
         /\ \A n \in Nodes : f[n] # n <=> [f EXCEPT ![y] = q][n] # n
<1> DEFINE g == [f EXCEPT ![y] = q]
<1>1. Forest(g)
  BY DEF Forest, Nodes
<1>2. \A S \in SUBSET Nodes : TreeClosed(g, S) <=> TreeClosed(f, S)
  BY Repointed DEF SameTree
<1>3. \A m, n : SameTree(f, m, n) => SameTree(g, m, n)
  BY <1>2 DEF SameTree
<1>4. \A n \in Nodes : f[n] # n <=> g[n] # n
  BY DEF Forest, Nodes
<1> QED BY <1>1, <1>2, <1>3, <1>4

\* What a hook does to the trees: it makes one of two.
LEMMA HookMergesTrees ==
  ASSUME NEW f, Forest(f), NEW y \in Nodes, NEW q \in Nodes, f[y] = y, q < y
  PROVE  /\ Forest([f EXCEPT ![y] = q])
         /\ \A S \in SUBSET Nodes :
              TreeClosed(f, S) /\ (y \in S <=> q \in S) => TreeClosed([f EXCEPT ![y] = q], S)
         /\ \A m, n : SameTree(f, m, n) => SameTree([f EXCEPT ![y] = q], m, n)
         /\ SameTree([f EXCEPT ![y] = q], y, q)
         /\ \A n \in Nodes : f[n] # n => [f EXCEPT ![y] = q][n] # n
<1> DEFINE g == [f EXCEPT ![y] = q]
<1>1. Forest(g)
  BY DEF Forest, Nodes
<1>2. \A S \in SUBSET Nodes : TreeClosed(g, S) <=> TreeClosed(f, S) /\ (y \in S <=> q \in S)
  BY DEF TreeClosed, Forest
<1>3. \A m, n : SameTree(f, m, n) => SameTree(g, m, n)
  BY <1>2 DEF SameTree
<1>4. SameTree(g, y, q)
  BY <1>2 DEF SameTree
<1>5. \A n \in Nodes : f[n] # n => g[n] # n
  BY DEF Forest
<1> QED BY <1>1, <1>2, <1>3, <1>4, <1>5

-----------------------------------------------------------------------------
(* The threads that do not move. *)

\* What a step may do to the forest.
Gentle ==
  /\ \A m, n : SameTree(parent, m, n) => SameTree(parent', m, n)
  /\ \A n \in Nodes : parent[n] # n => parent'[n] # n
  /\ UnionsDone => \A n \in Nodes : parent[n] = n => parent'[n] = n
  /\ UnionsDone => UnionsDone'

SameLocals(u) ==
  /\ pc'[u] = pc[u] /\ side'[u] = side[u]
  /\ x'[u] = x[u] /\ p'[u] = p[u] /\ gp'[u] = gp[u]
  /\ a'[u] = a[u] /\ b'[u] = b[u]

LEMMA OthersKept ==
  ASSUME TypeOK, NEW u \in Threads, ThreadInv(u), Gentle, SameLocals(u), edge' = edge,
         u \in LabelThreads => labels'[u[2]] = labels[u[2]]
  PROVE  ThreadInv(u)'
<1>1. WalkInv(u)'
  BY DEF ThreadInv, WalkInv, Gentle, SameLocals, TypeOK
<1>2. ASSUME u \in UnionThreads PROVE EndsInv(u)'
  <2>1. NodeA(u)' = NodeA(u) /\ NodeB(u)' = NodeB(u)
    BY DEF NodeA, NodeB, Walking, SameLocals
  <2>2. FirstEnd(u)' = FirstEnd(u) /\ SecondEnd(u)' = SecondEnd(u)
    BY DEF FirstEnd, SecondEnd, Ends
  <2> QED BY <1>2, <2>1, <2>2 DEF ThreadInv, EndsInv, Gentle, SameLocals
<1>3. ASSUME u \in LabelThreads PROVE LabelInv(u)'
  <2>1. LabelInv(u)
    BY <1>3 DEF ThreadInv
  <2>2. u[2]' = u[2]
    OBVIOUS
  <2> QED BY <1>3, <2>1 DEF LabelInv, Gentle, SameLocals, TypeOK
<1> QED BY <1>1, <1>2, <1>3 DEF ThreadInv

LEMMA ThreadKinds ==
  /\ \A t \in Threads : t \in UnionThreads <=> t \notin LabelThreads
  /\ \A t \in UnionThreads : t[2] \in EdgeIds
  /\ \A t \in LabelThreads : t[2] \in Nodes
  /\ \A t, u \in LabelThreads : t # u => t[2] # u[2]
BY DEF Threads, UnionThreads, LabelThreads

\* Once the union threads are done only label threads move.
LEMMA UnionsDoneKept ==
  ASSUME UnionsDone, NEW t \in Threads, pc[t] # "done",
         \A u \in Threads : u # t => pc'[u] = pc[u]
  PROVE  UnionsDone' /\ t \in LabelThreads
BY ThreadKinds DEF UnionsDone, Threads

\* Only t moved.
OnlyMoved(t) ==
  \A u \in Threads : u # t =>
    SameLocals(u) /\ (u \in LabelThreads => labels'[u[2]] = labels[u[2]])

-----------------------------------------------------------------------------
(* The thread whose find_root returned r. *)

LocalTypes ==
  /\ labels' \in [Nodes -> Nodes \cup {-1}]
  /\ pc' \in [Threads -> {"find", "grand", "halve", "cas", "done"}]
  /\ side' \in [Threads -> {"a", "b", "label"}]
  /\ x' \in [Threads -> Nodes]
  /\ a' \in [Threads -> Nodes]
  /\ b' \in [Threads -> Nodes]

LEMMA FoundType ==
  ASSUME TypeOK, NEW t \in Threads, ThreadInv(t), NEW r \in Nodes, Found(t, r)
  PROVE  LocalTypes
<1>1. CASE FoundA(t, r)
  BY <1>1 DEF FoundA, TypeOK, LocalTypes
<1>2. CASE FoundB(t, r)
  BY <1>2 DEF FoundB, TypeOK, LocalTypes
<1>3. CASE FoundLabel(t, r)
  <2>1. t[2] \in Nodes
    BY <1>3, ThreadKinds DEF ThreadInv, EndsInv, FoundLabel
  <2> QED BY <1>3, <2>1 DEF FoundLabel, TypeOK, LocalTypes
<1> QED BY <1>1, <1>2, <1>3 DEF Found

LEMMA FoundMovesOne ==
  ASSUME TypeOK, NEW t \in Threads, ThreadInv(t), NEW r \in Nodes, Found(t, r),
         \A u \in Threads : u # t => p'[u] = p[u] /\ gp'[u] = gp[u]
  PROVE  OnlyMoved(t)
<1> SUFFICES ASSUME NEW u \in Threads, u # t
             PROVE  SameLocals(u) /\ (u \in LabelThreads => labels'[u[2]] = labels[u[2]])
  BY DEF OnlyMoved
<1>1. CASE FoundA(t, r)
  BY <1>1 DEF FoundA, TypeOK, SameLocals
<1>2. CASE FoundB(t, r)
  BY <1>2 DEF FoundB, TypeOK, SameLocals
<1>3. CASE FoundLabel(t, r)
  <2>1. t \in LabelThreads
    BY <1>3, ThreadKinds DEF ThreadInv, EndsInv, FoundLabel
  <2>2. u \in LabelThreads => labels'[u[2]] = labels[u[2]]
    BY <1>3, <2>1, ThreadKinds DEF FoundLabel, TypeOK
  <2> QED BY <1>3, <2>2 DEF FoundLabel, TypeOK, SameLocals
<1> QED BY <1>1, <1>2, <1>3 DEF Found

LEMMA FoundInv ==
  ASSUME TypeOK, NEW t \in Threads, ThreadInv(t), Walking(t), NEW r \in Nodes, Found(t, r),
         SameTree(parent, x[t], r), edge' = edge, Gentle,
         t \in LabelThreads => UnionsDone /\ parent'[r] = r
  PROVE  ThreadInv(t)'
<1> USE DEF ThreadInv
<1>1. WalkInv(t)'
  <2>1. pc'[t] \in {"find", "cas", "done"}
    BY DEF Found, FoundA, FoundB, FoundLabel, TypeOK
  <2> QED BY <2>1 DEF WalkInv
<1>2. ASSUME t \in UnionThreads PROVE EndsInv(t)'
  <2> USE <1>2
  <2>1. EndsInv(t) /\ side[t] # "label" /\ pc[t] \notin {"cas", "done"}
    BY DEF EndsInv, Walking
  <2>2. FirstEnd(t)' = FirstEnd(t) /\ SecondEnd(t)' = SecondEnd(t)
    BY DEF FirstEnd, SecondEnd, Ends
  <2> DEFINE Linked(u, v) ==
        \/ SameTree(parent, FirstEnd(t), u) /\ SameTree(parent, SecondEnd(t), v)
        \/ SameTree(parent, FirstEnd(t), v) /\ SameTree(parent, SecondEnd(t), u)
  <2>3. CASE FoundA(t, r)
    <3>1. Linked(r, b[t])
      BY <2>1, <2>3, SameTreeTransitive DEF EndsInv, FoundA, NodeA, NodeB
    <3>2. NodeA(t)' = r /\ NodeB(t)' = b[t] /\ pc'[t] = "find" /\ side'[t] = "b"
      BY <2>3 DEF FoundA, NodeA, NodeB, Walking, TypeOK
    <3> QED BY <2>2, <3>1, <3>2 DEF EndsInv, Gentle
  <2>4. CASE FoundB(t, r)
    <3>1. Linked(a[t], r)
      BY <2>1, <2>4, SameTreeTransitive DEF EndsInv, FoundB, NodeA, NodeB
    <3>2. side'[t] = side[t]
      BY <2>4 DEF FoundB
    <3>3. CASE a[t] = r
      <4>1. pc'[t] = "done"
        BY <2>4, <3>3 DEF FoundB, TypeOK
      <4>2. SameTree(parent, FirstEnd(t), SecondEnd(t))
        BY <3>1, <3>3, SameTreeTransitive, SameTreeSymmetric
      <4> QED BY <2>1, <2>2, <3>2, <4>1, <4>2 DEF EndsInv, Gentle
    <3>4. CASE a[t] # r
      <4>1. pc'[t] = "cas"
        BY <2>4, <3>4 DEF FoundB, TypeOK
      <4>2. a'[t] = (IF a[t] < r THEN r ELSE a[t]) /\ b'[t] = (IF a[t] < r THEN a[t] ELSE r)
        BY <2>4 DEF FoundB, TypeOK
      <4>3. b'[t] < a'[t]
        BY <3>4, <4>2 DEF TypeOK, Nodes
      <4>4. NodeA(t)' = a'[t] /\ NodeB(t)' = b'[t]
        BY <4>1 DEF NodeA, NodeB, Walking
      <4>5. Linked(a'[t], b'[t])
        BY <3>1, <4>2
      <4> QED BY <2>1, <2>2, <3>2, <4>1, <4>3, <4>4, <4>5 DEF EndsInv, Gentle
    <3> QED BY <3>3, <3>4
  <2> QED BY <2>1, <2>3, <2>4 DEF Found, FoundLabel
<1>3. ASSUME t \in LabelThreads PROVE LabelInv(t)'
  <2> USE <1>3
  <2>1. LabelInv(t) /\ side[t] = "label" /\ t[2] \in Nodes
    BY ThreadKinds DEF LabelInv
  <2>2. FoundLabel(t, r)
    BY <2>1 DEF Found, FoundA, FoundB
  <2>3. pc'[t] = "done" /\ side'[t] = "label" /\ labels'[t[2]] = r
    BY <2>1, <2>2 DEF FoundLabel, TypeOK
  <2>4. SameTree(parent, t[2], r)
    BY <2>1, SameTreeTransitive DEF LabelInv, Walking
  <2> QED BY <2>3, <2>4 DEF LabelInv, Gentle
<1> QED BY <1>1, <1>2, <1>3

-----------------------------------------------------------------------------
(* The invariant. *)

\* What is left to show once the moving thread, the types and the trees are done.
LEMMA InvFromParts ==
  ASSUME UnionInv, NEW t \in Threads, ThreadInv(t)', OnlyMoved(t), Gentle, edge' = edge,
         TypeOK', NeverJoinsComponents'
  PROVE  UnionInv'
<1> SUFFICES ASSUME NEW u \in Threads, u # t PROVE ThreadInv(u)'
  BY DEF UnionInv, Threads, UnionThreads, LabelThreads, EdgeIds, Nodes
<1>1. TypeOK /\ ThreadInv(u) /\ SameLocals(u)
  BY DEF UnionInv, OnlyMoved
<1>2. u \in LabelThreads => labels'[u[2]] = labels[u[2]]
  BY DEF OnlyMoved
<1> QED BY <1>1, <1>2, OthersKept

LEMMA GentleWhenUnchanged ==
  ASSUME parent' = parent, UnionsDone => UnionsDone'
  PROVE  Gentle
BY DEF Gentle

LEMMA NeverJoinsUnchanged ==
  ASSUME parent' = parent, edge' = edge, NeverJoinsComponents
  PROVE  NeverJoinsComponents'
BY DEF NeverJoinsComponents, EdgeClosed, TreeClosed

LEMMA InitInv == Init => UnionInv
<1> SUFFICES ASSUME Init PROVE UnionInv
  OBVIOUS
<1> USE DEF Init
<1>0. edge \in [EdgeIds -> Nodes \X Nodes]
  BY EdgeListsAssumption DEF EdgeIds, Nodes
<1>1. \A t \in Threads : 0 \in Nodes
  BY <1>0, SizesAssumption DEF Threads, UnionThreads, LabelThreads, Nodes
<1>2. \A t \in UnionThreads : FirstEnd(t) \in Nodes /\ SecondEnd(t) \in Nodes
  BY <1>0, ThreadKinds DEF FirstEnd, SecondEnd, Ends
<1>3. TypeOK
  <2>1. parent \in [Nodes -> Nodes] /\ \A n \in Nodes : parent[n] <= n
    BY DEF Nodes
  <2>2. x \in [Threads -> Nodes] /\ b \in [Threads -> Nodes]
    BY <1>1, <1>2, ThreadKinds
  <2> QED BY <1>0, <1>1, <2>1, <2>2 DEF TypeOK
<1>4. NeverJoinsComponents
  BY DEF NeverJoinsComponents, TreeClosed
<1>5. ASSUME NEW t \in Threads PROVE ThreadInv(t)
  <2>1. WalkInv(t)
    BY DEF WalkInv
  <2>2. ASSUME t \in UnionThreads PROVE EndsInv(t)
    BY <2>2, SameTreeReflexive DEF EndsInv, NodeA, NodeB, Walking
  <2>3. ASSUME t \in LabelThreads PROVE LabelInv(t)
    BY <2>3, SameTreeReflexive, ThreadKinds DEF LabelInv
  <2> QED BY <2>1, <2>2, <2>3 DEF ThreadInv
<1> QED BY <1>3, <1>4, <1>5 DEF UnionInv

LEMMA ReadParentInv ==
  ASSUME UnionInv, NEW t \in Threads, Launched(t), ReadParent(t)
  PROVE  UnionInv'
<1>1. TypeOK /\ ThreadInv(t) /\ NeverJoinsComponents
  BY DEF UnionInv
<1>2. x[t] \in Nodes /\ parent[x[t]] \in Nodes /\ parent[x[t]] <= x[t]
  BY <1>1 DEF TypeOK
<1>3. parent' = parent /\ edge' = edge /\ gp' = gp /\ pc[t] = "find"
  BY DEF ReadParent
<1>4. p' = [p EXCEPT ![t] = parent[x[t]]]
  BY DEF ReadParent
<1>5. NeverJoinsComponents'
  BY <1>1, <1>3, NeverJoinsUnchanged
<1>6. CASE parent[x[t]] = x[t]
  <2>1. Found(t, x[t])
    BY <1>6 DEF ReadParent
  <2>2. LocalTypes
    BY <1>1, <1>2, <2>1, FoundType
  <2>3. TypeOK'
    BY <1>1, <1>2, <1>3, <1>4, <2>2 DEF TypeOK, LocalTypes
  <2>4. OnlyMoved(t)
    BY <1>1, <1>2, <1>3, <1>4, <2>1, FoundMovesOne DEF TypeOK
  <2>5. Gentle
    BY <1>3, <2>4, UnionsDoneKept, GentleWhenUnchanged DEF OnlyMoved, SameLocals
  <2>6. ThreadInv(t)'
    BY <1>1, <1>2, <1>3, <1>6, <2>1, <2>5, FoundInv, SameTreeReflexive DEF Walking, Launched
  <2> QED BY <1>3, <1>5, <2>3, <2>4, <2>5, <2>6, InvFromParts
<1>7. CASE parent[x[t]] # x[t]
  <2>1. /\ pc' = [pc EXCEPT ![t] = "grand"]
        /\ UNCHANGED <<side, x, a, b, labels>>
    BY <1>7 DEF ReadParent
  <2>2. TypeOK'
    BY <1>1, <1>2, <1>3, <1>4, <2>1 DEF TypeOK
  <2>3. OnlyMoved(t)
    BY <1>1, <1>3, <1>4, <2>1 DEF OnlyMoved, SameLocals, TypeOK
  <2>4. UnionsDone => UnionsDone'
    BY <1>3, <2>3, UnionsDoneKept DEF OnlyMoved, SameLocals
  <2>5. Gentle
    BY <1>3, <2>4, GentleWhenUnchanged
  <2>6. ThreadInv(t)'
    <3>1. pc'[t] = "grand" /\ p'[t] = parent[x[t]] /\ x'[t] = x[t]
      BY <1>1, <1>4, <2>1 DEF TypeOK
    <3>2. WalkInv(t)'
      <4>1. p'[t] < x'[t] /\ parent'[x'[t]] # x'[t]
        BY <1>2, <1>3, <1>7, <3>1 DEF Nodes
      <4>2. SameTree(parent', x'[t], p'[t])
        BY <1>2, <1>3, <3>1, ParentSameTree
      <4> QED BY <3>1, <4>1, <4>2 DEF WalkInv
    <3>3. ASSUME t \in UnionThreads PROVE EndsInv(t)'
      <4>1. NodeA(t)' = NodeA(t) /\ NodeB(t)' = NodeB(t)
        BY <1>3, <2>1, <3>1 DEF NodeA, NodeB, Walking
      <4>2. FirstEnd(t)' = FirstEnd(t) /\ SecondEnd(t)' = SecondEnd(t)
        BY <1>3 DEF FirstEnd, SecondEnd, Ends
      <4> QED BY <1>1, <1>3, <2>1, <3>1, <3>3, <4>1, <4>2 DEF ThreadInv, EndsInv
    <3>4. ASSUME t \in LabelThreads PROVE LabelInv(t)'
      BY <1>1, <1>3, <2>1, <2>4, <3>1, <3>4 DEF ThreadInv, LabelInv, Launched
    <3> QED BY <3>2, <3>3, <3>4 DEF ThreadInv
  <2> QED BY <1>3, <1>5, <2>2, <2>3, <2>5, <2>6, InvFromParts
<1> QED BY <1>6, <1>7

LEMMA ReadGrandparentInv ==
  ASSUME UnionInv, NEW t \in Threads, Launched(t), ReadGrandparent(t)
  PROVE  UnionInv'
<1>1. TypeOK /\ ThreadInv(t) /\ NeverJoinsComponents
  BY DEF UnionInv
<1>2. p[t] \in Nodes /\ parent[p[t]] \in Nodes /\ parent[p[t]] <= p[t]
  BY <1>1 DEF TypeOK
<1>3. /\ pc[t] = "grand" /\ pc' = [pc EXCEPT ![t] = "halve"]
      /\ gp' = [gp EXCEPT ![t] = parent[p[t]]]
      /\ UNCHANGED <<edge, parent, labels, side, x, p, a, b>>
  BY DEF ReadGrandparent
<1>4. TypeOK'
  BY <1>1, <1>2, <1>3 DEF TypeOK
<1>5. OnlyMoved(t)
  BY <1>1, <1>3 DEF OnlyMoved, SameLocals, TypeOK
<1>6. UnionsDone => UnionsDone'
  BY <1>3, <1>5, UnionsDoneKept DEF OnlyMoved, SameLocals
<1>7. Gentle
  BY <1>3, <1>6, GentleWhenUnchanged
<1>8. pc'[t] = "halve" /\ gp'[t] = parent[p[t]]
  BY <1>1, <1>3 DEF TypeOK
<1>9. WalkInv(t)'
  BY <1>1, <1>2, <1>3, <1>8, ParentSameTree DEF ThreadInv, WalkInv
<1>10. ASSUME t \in UnionThreads PROVE EndsInv(t)'
  <2>1. NodeA(t)' = NodeA(t) /\ NodeB(t)' = NodeB(t)
    BY <1>3, <1>8 DEF NodeA, NodeB, Walking
  <2>2. FirstEnd(t)' = FirstEnd(t) /\ SecondEnd(t)' = SecondEnd(t)
    BY <1>3 DEF FirstEnd, SecondEnd, Ends
  <2> QED BY <1>1, <1>3, <1>8, <1>10, <2>1, <2>2 DEF ThreadInv, EndsInv
<1>11. ASSUME t \in LabelThreads PROVE LabelInv(t)'
  BY <1>1, <1>3, <1>6, <1>8, <1>11 DEF ThreadInv, LabelInv
<1>12. ThreadInv(t)'
  BY <1>9, <1>10, <1>11 DEF ThreadInv
<1> QED BY <1>1, <1>3, <1>4, <1>5, <1>7, <1>12, InvFromParts, NeverJoinsUnchanged

LEMMA HalveInv ==
  ASSUME UnionInv, NEW t \in Threads, Launched(t), Halve(t)
  PROVE  UnionInv'
<1>1. TypeOK /\ ThreadInv(t) /\ NeverJoinsComponents
  BY DEF UnionInv
<1>2. x[t] \in Nodes /\ p[t] \in Nodes /\ gp[t] \in Nodes
  BY <1>1 DEF TypeOK
<1>3. /\ pc[t] = "halve" /\ edge' = edge /\ gp' = gp
      /\ parent' = [parent EXCEPT ![x[t]] = gp[t]]
      /\ p' = [p EXCEPT ![t] = gp[t]]
  BY DEF Halve
<1>4. /\ p[t] < x[t] /\ gp[t] <= p[t] /\ parent[x[t]] # x[t]
      /\ SameTree(parent, x[t], p[t]) /\ SameTree(parent, p[t], gp[t])
  BY <1>1, <1>3 DEF ThreadInv, WalkInv
<1>5. gp[t] < x[t] /\ SameTree(parent, x[t], gp[t])
  BY <1>2, <1>4, SameTreeTransitive DEF Nodes
<1>6. Forest(parent)
  BY <1>1 DEF TypeOK, Forest
<1>7. /\ Forest(parent')
      /\ \A S \in SUBSET Nodes : TreeClosed(parent, S) => TreeClosed(parent', S)
      /\ \A m, n : SameTree(parent, m, n) => SameTree(parent', m, n)
      /\ \A n \in Nodes : parent[n] # n <=> parent'[n] # n
  <2>1. x[t] \in Nodes /\ gp[t] \in Nodes /\ parent[x[t]] # x[t] /\ gp[t] < x[t]
    BY <1>2, <1>4, <1>5
  <2>2. parent' = [parent EXCEPT ![x[t]] = gp[t]]
    BY <1>3
  <2>3. SameTree(parent, x[t], gp[t])
    BY <1>5
  <2> DEFINE y == x[t]
             q == gp[t]
             g == [parent EXCEPT ![y] = q]
  <2>4. y \in Nodes /\ q \in Nodes /\ parent[y] # y /\ q < y /\ SameTree(parent, y, q)
    BY <2>1, <2>3
  <2>6. parent' = g
    BY <2>2
  <2> HIDE DEF y, q
  <2>5. /\ Forest(g)
        /\ \A S \in SUBSET Nodes : TreeClosed(parent, S) => TreeClosed(g, S)
        /\ \A m, n : SameTree(parent, m, n) => SameTree(g, m, n)
        /\ \A n \in Nodes : parent[n] # n <=> g[n] # n
    BY <1>6, <2>4, HalvingKeepsTrees
  <2> QED BY <2>5, <2>6
<1>8. NeverJoinsComponents'
  BY <1>1, <1>3, <1>7 DEF NeverJoinsComponents, EdgeClosed
<1>9. CASE gp[t] = p[t]
  <2>1. Found(t, p[t])
    BY <1>9 DEF Halve
  <2>2. LocalTypes
    BY <1>1, <1>2, <2>1, FoundType
  <2>3. TypeOK'
    BY <1>1, <1>2, <1>3, <1>7, <2>2 DEF TypeOK, LocalTypes, Forest
  <2>4. OnlyMoved(t)
    BY <1>1, <1>2, <1>3, <2>1, FoundMovesOne DEF TypeOK
  <2>5. UnionsDone => UnionsDone'
    BY <1>3, <2>4, UnionsDoneKept DEF OnlyMoved, SameLocals
  <2>6. Gentle
    BY <1>7, <2>5 DEF Gentle
  <2>7. t \in LabelThreads => UnionsDone /\ parent'[p[t]] = p[t]
    BY <1>1, <1>2, <1>3, <1>7, <1>9 DEF ThreadInv, LabelInv
  <2>8. ThreadInv(t)'
    BY <1>1, <1>2, <1>3, <1>4, <2>1, <2>6, <2>7, FoundInv DEF Walking
  <2> QED BY <1>3, <1>8, <2>3, <2>4, <2>6, <2>8, InvFromParts
<1>10. CASE gp[t] # p[t]
  <2>1. /\ x' = [x EXCEPT ![t] = p[t]]
        /\ pc' = [pc EXCEPT ![t] = "grand"]
        /\ UNCHANGED <<side, a, b, labels>>
    BY <1>10 DEF Halve
  <2>2. TypeOK'
    BY <1>1, <1>2, <1>3, <1>7, <2>1 DEF TypeOK, Forest
  <2>3. OnlyMoved(t)
    BY <1>1, <1>3, <2>1 DEF OnlyMoved, SameLocals, TypeOK
  <2>4. UnionsDone => UnionsDone'
    BY <1>3, <2>3, UnionsDoneKept DEF OnlyMoved, SameLocals
  <2>5. Gentle
    BY <1>7, <2>4 DEF Gentle
  <2>6. pc'[t] = "grand" /\ x'[t] = p[t] /\ p'[t] = gp[t] /\ side'[t] = side[t]
    BY <1>1, <1>3, <2>1 DEF TypeOK
  <2>7. WalkInv(t)'
    <3>1. gp[t] < p[t]
      BY <1>2, <1>4, <1>10 DEF Nodes
    <3>2. parent[p[t]] # p[t]
      BY <1>1, <1>3, <1>10 DEF ThreadInv, WalkInv
    <3> QED BY <1>2, <1>4, <1>7, <2>6, <3>1, <3>2 DEF WalkInv
  <2>8. ASSUME t \in UnionThreads PROVE EndsInv(t)'
    <3> USE <2>8
    <3> DEFINE Linked(u, v) ==
          \/ SameTree(parent, FirstEnd(t), u) /\ SameTree(parent, SecondEnd(t), v)
          \/ SameTree(parent, FirstEnd(t), v) /\ SameTree(parent, SecondEnd(t), u)
    <3>1. EndsInv(t) /\ a'[t] = a[t] /\ b'[t] = b[t]
      BY <1>1, <2>1 DEF ThreadInv
    <3>2. FirstEnd(t)' = FirstEnd(t) /\ SecondEnd(t)' = SecondEnd(t)
      BY <1>3 DEF FirstEnd, SecondEnd, Ends
    <3>3. CASE side[t] = "a"
      <4>1. NodeA(t) = x[t] /\ NodeB(t) = b[t] /\ NodeA(t)' = p[t] /\ NodeB(t)' = b[t]
        BY <1>3, <2>6, <3>1, <3>3 DEF NodeA, NodeB, Walking
      <4>2. Linked(x[t], b[t])
        BY <1>3, <3>1, <4>1 DEF EndsInv
      <4>3. Linked(p[t], b[t])
        BY <1>4, <4>2, SameTreeTransitive
      <4> QED BY <1>7, <2>6, <3>1, <3>2, <4>1, <4>3 DEF EndsInv
    <3>4. CASE side[t] = "b"
      <4>1. NodeA(t) = a[t] /\ NodeB(t) = x[t] /\ NodeA(t)' = a[t] /\ NodeB(t)' = p[t]
        BY <1>3, <2>6, <3>1, <3>4 DEF NodeA, NodeB, Walking
      <4>2. Linked(a[t], x[t])
        BY <1>3, <3>1, <4>1 DEF EndsInv
      <4>3. Linked(a[t], p[t])
        BY <1>4, <4>2, SameTreeTransitive
      <4> QED BY <1>7, <2>6, <3>1, <3>2, <4>1, <4>3 DEF EndsInv
    <3> QED BY <1>1, <3>1, <3>3, <3>4 DEF TypeOK, EndsInv
  <2>9. ASSUME t \in LabelThreads PROVE LabelInv(t)'
    <3>1. LabelInv(t) /\ UnionsDone'
      BY <1>1, <1>3, <2>4, <2>9 DEF ThreadInv, LabelInv
    <3>2. SameTree(parent', t[2], p[t])
      BY <1>3, <1>4, <1>7, <3>1, SameTreeTransitive DEF LabelInv
    <3> QED BY <2>6, <3>1, <3>2 DEF LabelInv
  <2>10. ThreadInv(t)'
    BY <2>7, <2>8, <2>9 DEF ThreadInv
  <2> QED BY <1>3, <1>8, <2>2, <2>3, <2>5, <2>10, InvFromParts
<1> QED BY <1>9, <1>10

LEMMA HookInv ==
  ASSUME UnionInv, NEW t \in Threads, Launched(t), Hook(t)
  PROVE  UnionInv'
<1> DEFINE y == a[t]
           q == b[t]
           g == [parent EXCEPT ![y] = q]
<1>1. TypeOK /\ ThreadInv(t) /\ NeverJoinsComponents
  BY DEF UnionInv
<1>2. /\ pc[t] = "cas" /\ parent[y] = y /\ parent' = g
      /\ pc' = [pc EXCEPT ![t] = "done"]
      /\ UNCHANGED <<edge, labels, side, x, p, gp, a, b>>
  BY DEF Hook
<1>3. t \in UnionThreads /\ EndsInv(t)
  BY <1>1, <1>2, ThreadKinds DEF ThreadInv, LabelInv
<1>4. y \in Nodes /\ q \in Nodes /\ q < y
  BY <1>1, <1>2, <1>3 DEF TypeOK, EndsInv
<1>5. Forest(parent)
  BY <1>1 DEF TypeOK, Forest
<1>6. /\ Forest(g)
      /\ \A S \in SUBSET Nodes : TreeClosed(parent, S) /\ (y \in S <=> q \in S) => TreeClosed(g, S)
      /\ \A m, n : SameTree(parent, m, n) => SameTree(g, m, n)
      /\ SameTree(g, y, q)
      /\ \A n \in Nodes : parent[n] # n => g[n] # n
  <2> HIDE DEF y, q
  <2> QED BY <1>2, <1>4, <1>5, HookMergesTrees
<1>7. \/ SameTree(parent, FirstEnd(t), y) /\ SameTree(parent, SecondEnd(t), q)
      \/ SameTree(parent, FirstEnd(t), q) /\ SameTree(parent, SecondEnd(t), y)
  BY <1>2, <1>3 DEF EndsInv, NodeA, NodeB, Walking
<1>8. NeverJoinsComponents'
  <2> SUFFICES ASSUME NEW S \in SUBSET Nodes, EdgeClosed(S) PROVE TreeClosed(g, S)
    BY <1>2 DEF NeverJoinsComponents, EdgeClosed
  <2>1. TreeClosed(parent, S)
    BY <1>1 DEF NeverJoinsComponents
  <2>2. FirstEnd(t) \in S <=> SecondEnd(t) \in S
    BY <1>3, ThreadKinds DEF EdgeClosed, FirstEnd, SecondEnd, Ends
  <2>3. y \in S <=> q \in S
    BY <1>7, <2>1, <2>2 DEF SameTree
  <2> QED BY <1>6, <2>1, <2>3
<1>9. TypeOK'
  BY <1>1, <1>2, <1>6 DEF TypeOK, Forest
<1>10. OnlyMoved(t)
  BY <1>1, <1>2 DEF OnlyMoved, SameLocals, TypeOK
<1>11. Gentle
  <2>1. ~ UnionsDone
    BY <1>2, <1>3 DEF UnionsDone
  <2> QED BY <1>2, <1>6, <2>1 DEF Gentle
<1>12. ThreadInv(t)'
  <2>1. pc'[t] = "done"
    BY <1>1, <1>2 DEF TypeOK
  <2>2. FirstEnd(t)' = FirstEnd(t) /\ SecondEnd(t)' = SecondEnd(t)
    BY <1>2 DEF FirstEnd, SecondEnd, Ends
  <2>3. SameTree(g, FirstEnd(t), SecondEnd(t))
    BY <1>6, <1>7, SameTreeTransitive, SameTreeSymmetric
  <2>4. WalkInv(t)'
    BY <2>1 DEF WalkInv
  <2>5. EndsInv(t)'
    BY <1>2, <1>3, <2>1, <2>2, <2>3 DEF EndsInv
  <2> QED BY <1>3, <2>4, <2>5, ThreadKinds DEF ThreadInv
<1> QED BY <1>2, <1>8, <1>9, <1>10, <1>11, <1>12, InvFromParts

LEMMA RetryInv ==
  ASSUME UnionInv, NEW t \in Threads, Launched(t), Retry(t)
  PROVE  UnionInv'
<1>1. TypeOK /\ ThreadInv(t) /\ NeverJoinsComponents
  BY DEF UnionInv
<1>2. /\ pc[t] = "cas" /\ parent[a[t]] # a[t]
      /\ pc' = [pc EXCEPT ![t] = "find"]
      /\ side' = [side EXCEPT ![t] = "a"]
      /\ x' = [x EXCEPT ![t] = parent[a[t]]]
      /\ UNCHANGED <<edge, parent, labels, p, gp, a, b>>
  BY DEF Retry
<1>3. t \in UnionThreads /\ EndsInv(t)
  BY <1>1, <1>2, ThreadKinds DEF ThreadInv, LabelInv
<1>4. a[t] \in Nodes /\ parent[a[t]] \in Nodes
  BY <1>1 DEF TypeOK
<1>5. TypeOK'
  BY <1>1, <1>2, <1>4 DEF TypeOK
<1>6. OnlyMoved(t)
  BY <1>1, <1>2 DEF OnlyMoved, SameLocals, TypeOK
<1>7. Gentle
  <2>1. ~ UnionsDone
    BY <1>2, <1>3 DEF UnionsDone
  <2> QED BY <1>2, <2>1, GentleWhenUnchanged
<1>8. ThreadInv(t)'
  <2>1. pc'[t] = "find" /\ side'[t] = "a" /\ x'[t] = parent[a[t]]
    BY <1>1, <1>2 DEF TypeOK
  <2>2. FirstEnd(t)' = FirstEnd(t) /\ SecondEnd(t)' = SecondEnd(t)
    BY <1>2 DEF FirstEnd, SecondEnd, Ends
  <2>3. NodeA(t) = a[t] /\ NodeB(t) = b[t] /\ NodeA(t)' = parent[a[t]] /\ NodeB(t)' = b[t]
    BY <1>2, <2>1 DEF NodeA, NodeB, Walking
  <2>4. SameTree(parent, a[t], parent[a[t]])
    BY <1>4, ParentSameTree
  <2> DEFINE Linked(u, v) ==
        \/ SameTree(parent, FirstEnd(t), u) /\ SameTree(parent, SecondEnd(t), v)
        \/ SameTree(parent, FirstEnd(t), v) /\ SameTree(parent, SecondEnd(t), u)
  <2>5. Linked(a[t], b[t])
    BY <1>2, <1>3, <2>3 DEF EndsInv
  <2>6. Linked(parent[a[t]], b[t])
    BY <2>4, <2>5, SameTreeTransitive
  <2>7. WalkInv(t)'
    BY <2>1 DEF WalkInv
  <2>8. EndsInv(t)'
    BY <1>2, <2>1, <2>2, <2>3, <2>6 DEF EndsInv
  <2> QED BY <1>3, <2>7, <2>8, ThreadKinds DEF ThreadInv
<1> QED BY <1>1, <1>2, <1>5, <1>6, <1>7, <1>8, InvFromParts, NeverJoinsUnchanged

LEMMA NextInv == UnionInv /\ [Next]_vars => UnionInv'
<1> SUFFICES ASSUME UnionInv, [Next]_vars PROVE UnionInv'
  OBVIOUS
<1>1. CASE Next
  <2>1. PICK t \in Threads : Step(t)
    BY <1>1 DEF Next
  <2> QED BY <2>1, ReadParentInv, ReadGrandparentInv, HalveInv, HookInv, RetryInv DEF Step
<1>2. CASE UNCHANGED vars
  BY <1>2 DEF UnionInv, vars, TypeOK, NeverJoinsComponents, EdgeClosed, ThreadInv, WalkInv,
    EndsInv, NodeA, NodeB, Walking, FirstEnd, SecondEnd, Ends, LabelInv, UnionsDone
<1> QED BY <1>1, <1>2

\* Every reachable state satisfies the invariant a thread relies on while the
\* others write to the paths it walks.
THEOREM UnionInvariant == Spec => []UnionInv
<1> QED BY InitInv, NextInv, PTL DEF Spec

-----------------------------------------------------------------------------
(* The properties. *)

\* Types, and parents that have smaller indices.
THEOREM TypeCorrect == Spec => []TypeOK
<1>1. UnionInv => TypeOK
  BY DEF UnionInv
<1> QED BY <1>1, UnionInvariant, PTL

\* No hook and no racing write ever joins two components of the input.
THEOREM ComponentsKeptApart == Spec => []NeverJoinsComponents
<1>1. UnionInv => NeverJoinsComponents
  BY DEF UnionInv
<1> QED BY <1>1, UnionInvariant, PTL

\* The ends of an edge whose thread returned are in one tree from then on.
THEOREM EdgesJoined == Spec => []EdgesStayJoined
<1>1. UnionInv => EdgesStayJoined
  BY DEF UnionInv, EdgesStayJoined, ThreadInv, EndsInv, Threads
<1> QED BY <1>1, UnionInvariant, PTL

\* A hooked node is never a root again: no stale halving write undoes an atomicCAS.
THEOREM HooksAreKept == Spec => HookedForever
<1> DEFINE Kept == \A n \in Nodes : parent[n] # n => parent'[n] # n
<1>1. UnionInv /\ [Next]_vars => [Kept]_vars
  <2> SUFFICES ASSUME UnionInv, Next PROVE Kept
    OBVIOUS
  <2>1. PICK t \in Threads : Step(t)
    BY DEF Next
  <2>2. CASE ReadParent(t) \/ ReadGrandparent(t) \/ Retry(t)
    BY <2>2 DEF ReadParent, ReadGrandparent, Retry
  <2>3. TypeOK /\ ThreadInv(t)
    BY DEF UnionInv
  <2>4. CASE Halve(t)
    <3>1. gp[t] < x[t]
      BY <2>3, <2>4 DEF Halve, ThreadInv, WalkInv, TypeOK, Nodes
    <3> QED BY <2>3, <2>4, <3>1 DEF Halve, TypeOK, Nodes
  <2>5. CASE Hook(t)
    BY <2>3, <2>5 DEF Hook, TypeOK
  <2> QED BY <2>1, <2>2, <2>4, <2>5 DEF Step
<1> QED BY <1>1, UnionInvariant, PTL DEF Spec, HookedForever

\* The result of the two kernels: whatever the schedule, the label of a node is
\* the smallest index of its component.
THEOREM LabelsAreCorrect == Spec => []LabelsCorrect
<1>1. ASSUME UnionInv, AllDone, NEW n \in Nodes
      PROVE  labels[n] \in Component(n) /\ \A m \in Component(n) : labels[n] <= m
  <2> DEFINE t == <<"label", n>>
             r == labels[n]
  <2>1. t \in LabelThreads /\ t \in Threads /\ t[2] = n
    BY DEF LabelThreads, Threads
  <2>2. LabelInv(t) /\ pc[t] = "done"
    BY <1>1, <2>1 DEF UnionInv, ThreadInv, AllDone
  <2>3. r \in Nodes /\ parent[r] = r /\ SameTree(parent, n, r)
    BY <2>1, <2>2 DEF LabelInv
  <2>4. ASSUME NEW S \in SUBSET Nodes PROVE EdgeClosed(S) <=> TreeClosed(parent, S)
    <3>1. EdgeClosed(S) => TreeClosed(parent, S)
      BY <1>1 DEF UnionInv, NeverJoinsComponents
    <3>2. ASSUME TreeClosed(parent, S), NEW e \in EdgeIds PROVE edge[e][1] \in S <=> edge[e][2] \in S
      <4> DEFINE u == <<"union", e>>
      <4>1. u \in UnionThreads /\ u \in Threads /\ u[2] = e
        BY DEF UnionThreads, Threads
      <4>2. SameTree(parent, FirstEnd(u), SecondEnd(u))
        BY <1>1, <4>1 DEF UnionInv, ThreadInv, EndsInv, AllDone
      <4> QED BY <3>2, <4>1, <4>2 DEF SameTree, FirstEnd, SecondEnd, Ends
    <3> QED BY <3>1, <3>2 DEF EdgeClosed
  <2>5. r \in Component(n)
    BY <2>3, <2>4 DEF Component, SameTree
  <2>6. ASSUME NEW m \in Component(n) PROVE r <= m
    <3>1. m \in Nodes /\ \A S \in SUBSET Nodes : TreeClosed(parent, S) => (r \in S <=> m \in S)
      BY <2>3, <2>4, <2>6 DEF Component, SameTree
    <3>2. Forest(parent)
      BY <1>1 DEF UnionInv, TypeOK, Forest
    <3> HIDE DEF r
    <3> QED BY <2>3, <3>1, <3>2, RootIsSmallest
  <2> QED BY <2>5, <2>6
<1>2. UnionInv => LabelsCorrect
  BY <1>1 DEF LabelsCorrect
<1> QED BY <1>2, UnionInvariant, PTL
=============================================================================
