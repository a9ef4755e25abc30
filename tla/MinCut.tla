-------------------------------- MODULE MinCut --------------------------------
(***************************************************************************)
(* The parallel minimum cut (min_cut.cu, and its driver min_cut in           *)
(* backends/cuda/__init__.py).  A push-relabel whose iteration is three       *)
(* kernels: the active nodes push at once, the nodes they reached gather      *)
(* what arrived and choose new heights, the heights are committed.  Heights   *)
(* are recomputed now and then by a search from the sink.                     *)
(*                                                                          *)
(* Data abstraction.  Amounts are naturals and tol is 0.  A slot towards a    *)
(* neighbour is the pair of nodes, as a node lists a neighbour once.  The     *)
(* work lists are sets.  A push reads both residuals of the edge in one step  *)
(* and writes them in another.  The threads of the other kernels write only   *)
(* entries of their own node that no other thread of the kernel reads, so     *)
(* such a kernel is one step.                                                *)
(***************************************************************************)
EXTENDS Sums, Sequences, FiniteSets, FiniteSetsExt

CONSTANTS N,         \* nodes 0 .. N - 1
          Neighbours, \* [node -> its neighbours, in slot order]
          EdgeCaps,  \* capacities of an edge
          TermCaps,  \* pairs of a source and a sink capacity
          relabel_every

VARIABLES
  term,   \* [node -> its capacities from the source and to the sink]
  cap,    \* [edge -> capacity], symmetric
  r,      \* [edge -> residual capacity]
  e,      \* [node -> excess]
  rt,     \* [node -> residual to the sink]
  h,      \* [node -> height]
  inc,    \* [edge i j -> pushed from i in this iteration, not gathered by j]
  list,   \* the list the iteration pushes from
  queued, \* the nodes in list_out, each once
  slot,   \* [node -> next slot of its push thread, 0 before the sink]
  seen,   \* [node -> residuals the push thread has read, or <<>>]
  it,     \* iterations, modulo relabel_every
  pc      \* the kernel that runs next

vars == <<term, cap, r, e, rt, h, inc, list, queued, slot, seen, it, pc>>

Nodes == 0 .. N - 1
Edges == {ij \in Nodes \X Nodes : \E k \in DOMAIN Neighbours[ij[1]] : Neighbours[ij[1]][k] = ij[2]}
Big == N + 2
Slots(i) == Len(Neighbours[i])

-----------------------------------------------------------------------------
(* global_relabel and rebuild_active *)

\* Distance to the sink over residual edges, Big if there is none: level d + 1 is
\* searched from level d.
global_relabel ==
  LET level[d \in 0 .. N] ==
        IF d = 0 THEN [i \in Nodes |-> IF rt[i] > 0 THEN 1 ELSE Big]
        ELSE [i \in Nodes |->
                IF /\ level[d - 1][i] = Big
                   /\ \E j \in Nodes : <<i, j>> \in Edges /\ level[d - 1][j] = d /\ r[<<i, j>>] > 0
                THEN d + 1 ELSE level[d - 1][i]]
  IN  level[N]

Top ==
  /\ pc = "top"
  /\ IF it = 0
     THEN /\ h' = global_relabel
          /\ list' = {i \in Nodes : e[i] > 0 /\ h'[i] < Big}
          /\ pc' = IF list' = {} THEN "last" ELSE "push"
     ELSE /\ pc' = "push"
          /\ UNCHANGED <<h, list>>
  /\ queued' = {}
  /\ slot' = [i \in Nodes |-> 0]
  /\ UNCHANGED <<term, cap, r, e, rt, inc, seen, it>>

-----------------------------------------------------------------------------
(* push_kernel, with a thread for every node of the list *)

At(i) == <<i, Neighbours[i][slot[i]]>>
Back(ij) == <<ij[2], ij[1]>>

Pushing(i) == pc = "push" /\ i \in list /\ slot[i] <= Slots(i) /\ seen[i] = <<>>

\* As PushToSink, from the height of the sink itself.
PushToSinkOnLevel(i) ==
  /\ Pushing(i) /\ slot[i] = 0
  /\ LET amt == IF h[i] = 0 THEN Min({e[i], rt[i]}) ELSE 0
     IN  /\ rt' = [rt EXCEPT ![i] = @ - amt]
         /\ e' = [e EXCEPT ![i] = @ - amt]
  /\ slot' = [slot EXCEPT ![i] = IF h[i] >= Big THEN Slots(i) + 1 ELSE 1]
  /\ UNCHANGED <<term, cap, r, h, inc, list, queued, seen, it, pc>>

\* A node without excess, or that cannot reach the sink, pushes nothing.
PushToSink(i) ==
  /\ Pushing(i) /\ slot[i] = 0
  /\ LET amt == IF h[i] = 1 THEN Min({e[i], rt[i]}) ELSE 0
     IN  /\ rt' = [rt EXCEPT ![i] = @ - amt]
         /\ e' = [e EXCEPT ![i] = @ - amt]
  /\ slot' = [slot EXCEPT ![i] = IF h[i] >= Big THEN Slots(i) + 1 ELSE 1]
  /\ UNCHANGED <<term, cap, r, h, inc, list, queued, seen, it, pc>>

Admissible(ij) == h[ij[1]] = h[ij[2]] + 1

ReadSlot(i) ==
  /\ Pushing(i) /\ slot[i] > 0
  /\ IF e[i] > 0 /\ r[At(i)] > 0 /\ Admissible(At(i))
     THEN seen' = [seen EXCEPT ![i] = <<r[At(i)], r[Back(At(i))]>>] /\ UNCHANGED slot
     ELSE slot' = [slot EXCEPT ![i] = @ + 1] /\ UNCHANGED seen
  /\ UNCHANGED <<term, cap, r, e, rt, h, inc, list, queued, it, pc>>

\* As WriteSlot, with more than the edge holds.
WriteSlotAllExcess(i) ==
  /\ seen[i] # <<>>
  /\ LET ij == At(i)
         amt == e[i]
     IN  /\ r' = [r EXCEPT ![ij] = seen[i][1] - amt, ![Back(ij)] = seen[i][2] + amt]
         /\ inc' = [inc EXCEPT ![ij] = amt]
         /\ e' = [e EXCEPT ![i] = @ - amt]
         /\ queued' = queued \cup {ij[2]}
  /\ seen' = [seen EXCEPT ![i] = <<>>]
  /\ slot' = [slot EXCEPT ![i] = @ + 1]
  /\ UNCHANGED <<term, cap, rt, h, list, it, pc>>

WriteSlot(i) ==
  /\ seen[i] # <<>>
  /\ LET ij == At(i)
         amt == Min({e[i], seen[i][1]})
     IN  /\ r' = [r EXCEPT ![ij] = seen[i][1] - amt, ![Back(ij)] = seen[i][2] + amt]
         /\ inc' = [inc EXCEPT ![ij] = amt]
         /\ e' = [e EXCEPT ![i] = @ - amt]
         /\ queued' = queued \cup {ij[2]}
  /\ seen' = [seen EXCEPT ![i] = <<>>]
  /\ slot' = [slot EXCEPT ![i] = @ + 1]
  /\ UNCHANGED <<term, cap, rt, h, list, it, pc>>

\* A node that still has excess queues itself.
PushOver ==
  /\ pc = "push"
  /\ \A i \in list : slot[i] > Slots(i)
  /\ queued' = queued \cup {i \in list : e[i] > 0 /\ h[i] < Big}
  /\ pc' = "relabel"
  /\ UNCHANGED <<term, cap, r, e, rt, h, inc, list, slot, seen, it>>

-----------------------------------------------------------------------------
(* relabel_kernel and commit_kernel, with a thread for every queued node *)

Gathered(i) == e[i] + Total(Slots(i), [s \in 1 .. Slots(i) |-> inc[<<Neighbours[i][s], i>>]])

\* As NewHeight, one above the highest instead of the lowest.
NewHeightOverHighest(i) ==
  LET below == {h[j] : j \in {j \in Nodes : <<i, j>> \in Edges /\ r[<<i, j>>] > 0}}
                 \cup (IF rt[i] > 0 THEN {0} ELSE {Big})
      high == Max({x \in below : x < Big \/ below = {Big}})
  IN  IF Gathered(i) > 0 /\ h[i] < Big THEN Max({h[i], Min({high + 1, Big})}) ELSE h[i]

NewHeight(i) ==
  LET below == {h[j] : j \in {j \in Nodes : <<i, j>> \in Edges /\ r[<<i, j>>] > 0}}
                 \cup (IF rt[i] > 0 THEN {0} ELSE {Big})
  IN  IF Gathered(i) > 0 /\ h[i] < Big THEN Max({h[i], Min({Min(below) + 1, Big})}) ELSE h[i]

\* Nodes of which `active` counts whether there are any.
Active(g, nh) == {i \in queued : g[i] > 0 /\ nh[i] < Big}

Relabel ==
  /\ pc = "relabel"
  /\ e' = [i \in Nodes |-> IF i \in queued THEN Gathered(i) ELSE e[i]]
  /\ inc' = [ij \in Edges |-> IF ij[2] \in queued THEN 0 ELSE inc[ij]]
  /\ h' = [i \in Nodes |-> IF i \in queued THEN NewHeight(i) ELSE h[i]]
  /\ list' = queued
  /\ it' = (it + 1) % relabel_every
  /\ pc' = IF Active(e', h') = {} THEN "last" ELSE "top"
  /\ UNCHANGED <<term, cap, r, rt, queued, slot, seen>>

LastRelabel ==
  /\ pc = "last"
  /\ h' = global_relabel
  /\ pc' = "done"
  /\ UNCHANGED <<term, cap, r, e, rt, inc, list, queued, slot, seen, it>>

Init ==
  /\ term \in [Nodes -> TermCaps]
  /\ cap \in {c \in [Edges -> EdgeCaps] : \A ij \in Edges : c[ij] = c[Back(ij)]}
  /\ r = cap
  /\ e = [i \in Nodes |-> term[i][1]]
  /\ rt = [i \in Nodes |-> term[i][2]]
  /\ h = [i \in Nodes |-> 0]
  /\ inc = [ij \in Edges |-> 0]
  /\ list = {}
  /\ queued = {}
  /\ slot = [i \in Nodes |-> 0]
  /\ seen = [i \in Nodes |-> <<>>]
  /\ it = 0
  /\ pc = "top"

Next ==
  \/ Top \/ PushOver \/ Relabel \/ LastRelabel
  \/ \E i \in Nodes : PushToSink(i) \/ ReadSlot(i) \/ WriteSlot(i)

-----------------------------------------------------------------------------
TypeOK ==
  /\ r \in [Edges -> Nat]
  /\ e \in [Nodes -> Nat]
  /\ rt \in [Nodes -> Nat]
  /\ h \in [Nodes -> 0 .. Big]
  /\ inc \in [Edges -> Nat]
  /\ list \subseteq Nodes /\ queued \subseteq Nodes
  /\ seen \in [Nodes -> {<<>>} \cup Nat \X Nat]
  /\ it \in 0 .. relabel_every - 1
  /\ pc \in {"top", "push", "relabel", "last", "done"}

\* What the edges from i out of S carry.
Leaving(amount, i, S) ==
  Total(Slots(i), [s \in 1 .. Slots(i) |->
        IF Neighbours[i][s] \in S THEN 0 ELSE amount[<<i, Neighbours[i][s]>>]])

CutValue(S) ==
  Total(N, [s \in 1 .. N |-> IF s - 1 \in S THEN term[s - 1][2] + Leaving(cap, s - 1, S)
                            ELSE term[s - 1][1]])

\* The result is a minimum cut, and "the largest source side among the minimum
\* cuts" (comfy_kitchen/__init__.py:1331), whatever the order of the threads.
CutIsMinimum ==
  pc = "done" =>
    LET side == {i \in Nodes : h[i] >= Big}
    IN  \A S \in SUBSET Nodes :
          \/ CutValue(S) > CutValue(side)
          \/ CutValue(S) = CutValue(side) /\ S \subseteq side
=============================================================================
