------------------------------- MODULE MeshBVH -------------------------------
(***************************************************************************)
(* The build of the mesh BVH (mesh_bvh.cu): a radix tree over the sorted     *)
(* Morton codes of the triangles, and their boxes, fitted bottom up.  One    *)
(* thread starts at every leaf and climbs.  The first of two siblings to     *)
(* arrive at their parent stops there; the second unites the two boxes.      *)
(*                                                                          *)
(* Data abstraction.  A code has CodeBits bits instead of 63 and an index    *)
(* IndexBits instead of 31.  A box is the set of the leaves it encloses.  A  *)
(* plain store is visible to other threads some time later, or once the      *)
(* thread has passed a fence.                                                *)
(***************************************************************************)
EXTENDS Integers, Sequences, FiniteSets, FiniteSetsExt

CONSTANTS CodeBits, IndexBits,
          MaxLeaves \* bound on the triangles

VARIABLES
  n,      \* leaves: nodes 0 .. n - 2 are inner, n - 1 .. 2n - 2 leaves
  child,  \* [inner node -> <<left, right>>]
  box,    \* [node -> leaves enclosed, as other threads see it]
  stored, \* [thread -> boxes stored and not yet visible, by node]
  visits, \* [inner node -> arrivals]
  node,   \* [thread -> where it is]
  pc      \* [thread -> what it does next]

vars == <<n, child, box, stored, visits, node, pc>>

-----------------------------------------------------------------------------
(* bvh_hierarchy_kernel *)

\* Leading bits that two words of w bits share.
SharedBits(w, a, b) == Max({z \in 0 .. w : a \div 2 ^ (w - z) = b \div 2 ^ (w - z)})

\* `codes` is indexed from 0; outside it the prefix is -1.
common_prefix(codes, i, j) ==
  IF j \notin DOMAIN codes THEN -1
  ELSE IF codes[i] = codes[j] THEN CodeBits + SharedBits(IndexBits, i, j)
  ELSE SharedBits(CodeBits, codes[i], codes[j])

\* How far from i, towards d, a prefix of more than p bits is shared, by a search with
\* strides t.
Farthest(codes, i, d, p, t) ==
  LET at[q \in 0 .. Len(t)] ==
        IF q = 0 THEN 0
        ELSE IF common_prefix(codes, i, i + (at[q - 1] + t[q]) * d) > p THEN at[q - 1] + t[q]
        ELSE at[q - 1]
  IN  at[Len(t)]

\* Strides lmax/2, ..., 2, 1, where lmax is the first power of 2 that is too far.
Halvings(codes, i, d, p) ==
  LET lmax == Min({q \in 1 .. Cardinality(DOMAIN codes) : ~(common_prefix(codes, i, i + 2 ^ q * d) > p)})
  IN  [q \in 1 .. lmax |-> 2 ^ (lmax - q)]

\* Strides l/2, l/4, ..., 1, rounded up.
Shares(codes, l) ==
  LET share(q) == (l + 2 ^ q - 1) \div 2 ^ q
  IN  [q \in 1 .. Min({q \in 1 .. Cardinality(DOMAIN codes) : share(q) <= 1}) |-> share(q)]

\* The children of inner node i: the other end j of its range, then the split gamma.
Split(codes, i) ==
  LET leaves == Cardinality(DOMAIN codes)
      d == IF common_prefix(codes, i, i + 1) > common_prefix(codes, i, i - 1) THEN 1 ELSE -1
      dmin == common_prefix(codes, i, i - d)
      l == Farthest(codes, i, d, dmin, Halvings(codes, i, d, dmin))
      j == i + l * d
      s == Farthest(codes, i, d, common_prefix(codes, i, j), Shares(codes, l))
      gamma == i + s * d + (IF d = 1 THEN 0 ELSE -1)
  IN  <<IF Min({i, j}) = gamma THEN leaves - 1 + gamma ELSE gamma,
        IF Max({i, j}) = gamma + 1 THEN leaves + gamma ELSE gamma + 1>>

SortedCodes(k) ==
  {c \in [0 .. k - 1 -> 0 .. 2 ^ CodeBits - 1] : \A i \in 1 .. k - 1 : c[i - 1] <= c[i]}

-----------------------------------------------------------------------------
(* bvh_boxes_kernel *)

Inner == 0 .. n - 2
Leaves == n - 1 .. 2 * n - 2
Nodes == Inner \cup Leaves
Root == 0
Children(i) == {child[i][1], child[i][2]}
Parent(m) == CHOOSE i \in Inner : m \in Children(i)

Goto(t, l) == pc' = [pc EXCEPT ![t] = l]
StoreBox(t, m, b) == stored' = [stored EXCEPT ![t] = @ \cup {[node |-> m, box |-> b]}]

StoreLeaf(t) ==
  /\ pc[t] = "leaf"
  /\ StoreBox(t, t, {t})
  /\ Goto(t, IF t = Root THEN "done" ELSE "fence")
  /\ UNCHANGED <<n, child, box, visits, node>>

Visible(t, s) ==
  /\ s \in stored[t]
  /\ box' = [box EXCEPT ![s.node] = s.box]
  /\ stored' = [stored EXCEPT ![t] = @ \ {s}]
  /\ UNCHANGED <<n, child, visits, node, pc>>

\* As Fence, without waiting.
FenceAtOnce(t) ==
  /\ pc[t] = "fence"
  /\ Goto(t, "climb")
  /\ UNCHANGED <<n, child, box, stored, visits, node>>

Fence(t) ==
  /\ pc[t] = "fence"
  /\ stored[t] = {}
  /\ Goto(t, "climb")
  /\ UNCHANGED <<n, child, box, stored, visits, node>>

\* The atomicAdd: the first to arrive leaves the node to its sibling's thread.
Climb(t) ==
  /\ pc[t] = "climb"
  /\ LET p == Parent(node[t])
     IN  /\ node' = [node EXCEPT ![t] = p]
         /\ visits' = [visits EXCEPT ![p] = @ + 1]
         /\ Goto(t, IF visits[p] = 0 THEN "done" ELSE "unite")
  /\ UNCHANGED <<n, child, box, stored>>

Unite(t) ==
  /\ pc[t] = "unite"
  /\ StoreBox(t, node[t], UNION {box[c] : c \in Children(node[t])})
  /\ Goto(t, IF node[t] = Root THEN "done" ELSE "fence")
  /\ UNCHANGED <<n, child, box, visits, node>>

Init ==
  /\ n \in 1 .. MaxLeaves
  /\ \E codes \in SortedCodes(n) : child = [i \in Inner |-> Split(codes, i)]
  /\ box = [m \in Nodes |-> {}]
  /\ stored = [t \in Leaves |-> {}]
  /\ visits = [m \in Inner |-> 0]
  /\ node = [t \in Leaves |-> t]
  /\ pc = [t \in Leaves |-> "leaf"]

Step(t) ==
  \/ StoreLeaf(t) \/ Fence(t) \/ Climb(t) \/ Unite(t)
  \/ \E s \in stored[t] : Visible(t, s)

Next == \E t \in Leaves : Step(t)

-----------------------------------------------------------------------------
TypeOK ==
  /\ n \in 1 .. MaxLeaves
  /\ child \in [Inner -> (Nodes \ {Root}) \X (Nodes \ {Root})]
  /\ box \in [Nodes -> SUBSET Leaves]
  /\ \A t \in Leaves : stored[t] \subseteq [node : Nodes, box : SUBSET Leaves]
  /\ visits \in [Inner -> 0 .. 2]
  /\ node \in [Leaves -> Nodes]
  /\ pc \in [Leaves -> {"leaf", "fence", "climb", "unite", "done"}]

KernelOver == \A t \in Leaves : pc[t] = "done" /\ stored[t] = {}

\* Whatever the codes and the order of arrival, in the end the boxes of two
\* siblings share no leaf and make up the box of their parent, and the root's
\* encloses the mesh: a thread that read the box of its sibling too early would
\* store a smaller one (mesh_bvh.cu:21-23, 91-92).
BoxesEnclose ==
  KernelOver =>
    /\ box[Root] = Leaves
    /\ \A i \in Inner :
         /\ box[i] = box[child[i][1]] \cup box[child[i][2]]
         /\ box[child[i][1]] \cap box[child[i][2]] = {}
    /\ \A t \in Leaves : box[t] = {t}
=============================================================================
