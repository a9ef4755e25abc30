-------------------------- MODULE ConnectedComponents --------------------------
(***************************************************************************)
(* Connected components of an edge list by lock-free union-find             *)
(* (backends/cuda/ops/connected_components.cu).  One thread per edge hooks  *)
(* the larger root under the smaller one with atomicCAS, while every        *)
(* find_root halves the paths it walks with plain, racing writes.  Then one *)
(* thread per node reads its root.  Each access to parent[] is a step; the  *)
(* kernels run one after the other on their stream.                         *)
(*                                                                          *)
(* The memory is taken to be sequentially consistent: parent[] is volatile, *)
(* and every second read of a thread is at the address its first one read.  *)
(***************************************************************************)
EXTENDS Integers

CONSTANTS N,         \* nodes
          NEdges,    \* edges
          EdgeLists  \* edge lists a call may be given

ASSUME SizesAssumption == N \in Nat /\ NEdges \in Nat
ASSUME EdgeListsAssumption ==
  EdgeLists \subseteq [1 .. NEdges -> (0 .. N - 1) \X (0 .. N - 1)]

VARIABLES
  edge,    \* the edge list
  parent,  \* the forest, shared by the threads
  labels,  \* output
  pc,      \* what a thread does next
  side,    \* what its find_root is for: "a", "b" or "label"
  x, p, gp, \* locals of find_root
  a, b      \* locals of union_kernel

locals == <<pc, side, x, p, gp, a, b>>
vars == <<edge, parent, labels, pc, side, x, p, gp, a, b>>

Nodes == 0 .. N - 1
EdgeIds == 1 .. NEdges
UnionThreads == {"union"} \X EdgeIds
LabelThreads == {"label"} \X Nodes
Threads == UnionThreads \cup LabelThreads

Ends(t) == edge[t[2]]

\* As SecondEnd, with the endpoints of edge e taken at e and e + 1
\* of the flat list instead of 2e and 2e + 1.
SecondEndOffByStride(t) ==
  IF t[2] + 1 \in EdgeIds THEN edge[t[2] + 1][1] ELSE edge[t[2]][2]

FirstEnd(t) == Ends(t)[1]
SecondEnd(t) == Ends(t)[2]

-----------------------------------------------------------------------------
(* What a thread does with the root r its find_root returned. *)

FoundA(t, r) ==
  /\ side[t] = "a"
  /\ a' = [a EXCEPT ![t] = r]
  /\ side' = [side EXCEPT ![t] = "b"]
  /\ x' = [x EXCEPT ![t] = b[t]]
  /\ pc' = [pc EXCEPT ![t] = "find"]
  /\ UNCHANGED <<b, labels>>

\* As FoundB, without the swap of line 52.
FoundBUnordered(t, r) ==
  /\ side[t] = "b"
  /\ b' = [b EXCEPT ![t] = r]
  /\ pc' = [pc EXCEPT ![t] = IF a[t] = r THEN "done" ELSE "cas"]
  /\ UNCHANGED <<side, x, a, labels>>

\* The larger root is hooked under the smaller one.
FoundB(t, r) ==
  /\ side[t] = "b"
  /\ a' = [a EXCEPT ![t] = IF @ < r THEN r ELSE @]
  /\ b' = [b EXCEPT ![t] = IF a[t] < r THEN a[t] ELSE r]
  /\ pc' = [pc EXCEPT ![t] = IF a[t] = r THEN "done" ELSE "cas"]
  /\ UNCHANGED <<side, x, labels>>

FoundLabel(t, r) ==
  /\ side[t] = "label"
  /\ labels' = [labels EXCEPT ![t[2]] = r]
  /\ pc' = [pc EXCEPT ![t] = "done"]
  /\ UNCHANGED <<side, x, a, b>>

Found(t, r) == FoundA(t, r) \/ FoundB(t, r) \/ FoundLabel(t, r)

-----------------------------------------------------------------------------
(* find_root *)

ReadParent(t) ==
  /\ pc[t] = "find"
  /\ p' = [p EXCEPT ![t] = parent[x[t]]]
  /\ IF parent[x[t]] = x[t]
     THEN Found(t, x[t])
     ELSE /\ pc' = [pc EXCEPT ![t] = "grand"]
          /\ UNCHANGED <<side, x, a, b, labels>>
  /\ UNCHANGED <<edge, parent, gp>>

ReadGrandparent(t) ==
  /\ pc[t] = "grand"
  /\ gp' = [gp EXCEPT ![t] = parent[p[t]]]
  /\ pc' = [pc EXCEPT ![t] = "halve"]
  /\ UNCHANGED <<edge, parent, labels, side, x, p, a, b>>

\* As Halve, with the grandparent written one node too far up.
HalveAtParent(t) ==
  /\ pc[t] = "halve"
  /\ parent' = [parent EXCEPT ![p[t]] = gp[t]]
  /\ p' = [p EXCEPT ![t] = gp[t]]
  /\ IF gp[t] = p[t]
     THEN Found(t, p[t])
     ELSE /\ x' = [x EXCEPT ![t] = p[t]]
          /\ pc' = [pc EXCEPT ![t] = "grand"]
          /\ UNCHANGED <<side, a, b, labels>>
  /\ UNCHANGED <<edge, gp>>

\* The plain write of line 38 and the end of the loop body.
Halve(t) ==
  /\ pc[t] = "halve"
  /\ parent' = [parent EXCEPT ![x[t]] = gp[t]]
  /\ p' = [p EXCEPT ![t] = gp[t]]
  /\ IF gp[t] = p[t]
     THEN Found(t, p[t])
     ELSE /\ x' = [x EXCEPT ![t] = p[t]]
          /\ pc' = [pc EXCEPT ![t] = "grand"]
          /\ UNCHANGED <<side, a, b, labels>>
  /\ UNCHANGED <<edge, gp>>

-----------------------------------------------------------------------------
(* The atomicCAS of union_kernel. *)

\* As Hook, with a plain store in place of the atomicCAS.
HookByStore(t) ==
  /\ pc[t] = "cas"
  /\ parent' = [parent EXCEPT ![a[t]] = b[t]]
  /\ pc' = [pc EXCEPT ![t] = "done"]
  /\ UNCHANGED <<edge, labels, side, x, p, gp, a, b>>

Hook(t) ==
  /\ pc[t] = "cas"
  /\ parent[a[t]] = a[t]
  /\ parent' = [parent EXCEPT ![a[t]] = b[t]]
  /\ pc' = [pc EXCEPT ![t] = "done"]
  /\ UNCHANGED <<edge, labels, side, x, p, gp, a, b>>

\* As Retry, with the same node compared again.
RetrySameNode(t) ==
  /\ pc[t] = "cas"
  /\ parent[a[t]] # a[t]
  /\ UNCHANGED vars

\* Another thread hooked the root meanwhile: search again from where it went.
Retry(t) ==
  /\ pc[t] = "cas"
  /\ parent[a[t]] # a[t]
  /\ x' = [x EXCEPT ![t] = parent[a[t]]]
  /\ side' = [side EXCEPT ![t] = "a"]
  /\ pc' = [pc EXCEPT ![t] = "find"]
  /\ UNCHANGED <<edge, parent, labels, p, gp, a, b>>

-----------------------------------------------------------------------------

UnionsDone == \A u \in UnionThreads : pc[u] = "done"
AllDone == \A t \in Threads : pc[t] = "done"

\* As Launched, with label_kernel on a stream of its own.
LaunchedAtOnce(t) == t \in Threads

\* label_kernel is launched on the same stream after union_kernel.
Launched(t) == t \in LabelThreads => UnionsDone

Step(t) ==
  /\ Launched(t)
  /\ ReadParent(t) \/ ReadGrandparent(t) \/ Halve(t) \/ Hook(t) \/ Retry(t)

Init ==
  /\ edge \in EdgeLists
  /\ parent = [n \in Nodes |-> n]
  /\ labels = [n \in Nodes |-> -1]
  /\ pc = [t \in Threads |-> "find"]
  /\ side = [t \in Threads |-> IF t \in UnionThreads THEN "a" ELSE "label"]
  /\ x = [t \in Threads |-> IF t \in UnionThreads THEN FirstEnd(t) ELSE t[2]]
  /\ b = [t \in Threads |-> IF t \in UnionThreads THEN SecondEnd(t) ELSE 0]
  /\ p = [t \in Threads |-> 0]
  /\ gp = [t \in Threads |-> 0]
  /\ a = [t \in Threads |-> 0]

Next == \E t \in Threads : Step(t)

Spec == Init /\ [][Next]_vars

\* No thread is promised its turn, only that the device runs some thread.
FairSpec == Spec /\ WF_vars(Next)

-----------------------------------------------------------------------------
(* Properties.  Connectivity is stated through closed sets of nodes: two    *)
(* nodes are connected when no closed set separates them.                   *)

EdgeClosed(S) == \A e \in EdgeIds : edge[e][1] \in S <=> edge[e][2] \in S
TreeClosed(f, S) == \A n \in Nodes : n \in S <=> f[n] \in S

\* Two nodes of one tree of the forest f.
SameTree(f, m, n) ==
  \A S \in SUBSET Nodes : TreeClosed(f, S) => (m \in S <=> n \in S)

\* The component of a node in the input graph.
Component(n) ==
  {m \in Nodes : \A S \in SUBSET Nodes : EdgeClosed(S) => (m \in S <=> n \in S)}

\* Every variable has its type, and parents have smaller indices
\* (connected_components.cu:19-20).
TypeOK ==
  /\ edge \in [EdgeIds -> Nodes \X Nodes]
  /\ parent \in [Nodes -> Nodes]
  /\ \A n \in Nodes : parent[n] <= n
  /\ labels \in [Nodes -> Nodes \cup {-1}]
  /\ pc \in [Threads -> {"find", "grand", "halve", "cas", "done"}]
  /\ side \in [Threads -> {"a", "b", "label"}]
  /\ x \in [Threads -> Nodes]
  /\ p \in [Threads -> Nodes]
  /\ gp \in [Threads -> Nodes]
  /\ a \in [Threads -> Nodes]
  /\ b \in [Threads -> Nodes]

\* No hook and no racing halving write ever joins two components of the input.
NeverJoinsComponents == \A S \in SUBSET Nodes : EdgeClosed(S) => TreeClosed(parent, S)

\* The ends of an edge whose thread returned stay in one tree, whatever the
\* threads still running write over the paths it walked.
EdgesStayJoined ==
  \A u \in UnionThreads :
     pc[u] = "done" => SameTree(parent, FirstEnd(u), SecondEnd(u))

\* A stale halving write never turns a hooked node back into a root.
HookedForever == [][\A n \in Nodes : parent[n] # n => parent'[n] # n]_vars

\* The result: the label of a node is the smallest index of its component
\* (comfy_kitchen/__init__.py:1293-1295).
LabelsCorrect ==
  AllDone => \A n \in Nodes : /\ labels[n] \in Component(n)
                              /\ \A m \in Component(n) : labels[n] <= m

\* What a thread knows of the forest while the others write to it: the node it
\* stands on was hooked, and what it read of the path is in the same tree.
WalkInv(t) ==
  /\ pc[t] \in {"grand", "halve"} =>
       p[t] < x[t] /\ parent[x[t]] # x[t] /\ SameTree(parent, x[t], p[t])
  /\ pc[t] = "halve" => /\ gp[t] <= p[t] /\ SameTree(parent, p[t], gp[t])
                        /\ gp[t] # p[t] => parent[p[t]] # p[t]

\* The two nodes a union thread has reached are in the trees of its two ends.
Walking(t) == pc[t] \in {"find", "grand", "halve"}
NodeA(t) == IF Walking(t) /\ side[t] = "a" THEN x[t] ELSE a[t]
NodeB(t) == IF Walking(t) /\ side[t] = "b" THEN x[t] ELSE b[t]

EndsInv(t) ==
  /\ side[t] # "label"
  /\ pc[t] = "cas" => b[t] < a[t]
  /\ pc[t] = "done" => SameTree(parent, FirstEnd(t), SecondEnd(t))
  /\ pc[t] # "done" =>
       \/ SameTree(parent, FirstEnd(t), NodeA(t)) /\ SameTree(parent, SecondEnd(t), NodeB(t))
       \/ SameTree(parent, FirstEnd(t), NodeB(t)) /\ SameTree(parent, SecondEnd(t), NodeA(t))

\* No hook happens once a label thread has moved, so a root it read stays one.
LabelInv(t) ==
  /\ side[t] = "label" /\ pc[t] # "cas"
  /\ pc[t] # "find" => UnionsDone
  /\ pc[t] = "halve" /\ gp[t] = p[t] => parent[p[t]] = p[t]
  /\ pc[t] # "done" => SameTree(parent, t[2], x[t])
  /\ pc[t] = "done" => /\ labels[t[2]] \in Nodes
                       /\ parent[labels[t[2]]] = labels[t[2]]
                       /\ SameTree(parent, t[2], labels[t[2]])

ThreadInv(t) ==
  /\ WalkInv(t)
  /\ t \in UnionThreads => EndsInv(t)
  /\ t \in LabelThreads => LabelInv(t)

\* Inductive: the invariants above follow from it.
UnionInv == TypeOK /\ NeverJoinsComponents /\ \A t \in Threads : ThreadInv(t)

\* Every schedule of the threads terminates: no fairness between them is needed
\* for the retry loop to end.
Terminates == <>AllDone

\* "Since pointers only decrease" (connected_components.cu:21).
PointersOnlyDecrease == [][\A n \in Nodes : parent'[n] <= parent[n]]_vars
=============================================================================
