----------------------------- MODULE MCReductions -----------------------------
(***************************************************************************)
(* The kernels whose threads meet: the end of the split-K GEMM, the refit of  *)
(* the mesh BVH, the parallel minimum cut and the rotary embedding in place.   *)
(* They share no memory, so a behaviour runs one of them, named by `kernel`;  *)
(* the variables of the others keep their initial values.                     *)
(*                                                                          *)
(* Fairness: a grid that has threads left to run keeps running.              *)
(***************************************************************************)
EXTENDS SplitReduction, TLC

CONSTANTS CodeBits, IndexBits, MaxLeaves,
          N, Neighbours, EdgeCaps, TermCaps, relabel_every,
          RopeCalls, MaxExtent

\* Bits for the index of every triangle, which is an int (mesh_bvh.cu:44).
ASSUME MeshAssumption ==
  CodeBits \in Nat /\ IndexBits \in Nat /\ MaxLeaves \in Nat /\ MaxLeaves <= 2 ^ IndexBits

\* Neighbour lists are symmetric (comfy_kitchen/__init__.py:1328).  One names a node
\* once: the slot back is the first that names the node (min_cut.cu:49-52).
ASSUME CutAssumption ==
  /\ N \in Nat /\ relabel_every \in Nat \ {0}
  /\ EdgeCaps \subseteq Nat /\ TermCaps \subseteq Nat \X Nat
  /\ Neighbours \in [0 .. N - 1 -> Seq(0 .. N - 1)]
  /\ \A i \in 0 .. N - 1 : \A s, t \in DOMAIN Neighbours[i] :
       Neighbours[i][s] = Neighbours[i][t] => s = t
  /\ \A i \in 0 .. N - 1 : \A s \in DOMAIN Neighbours[i] :
       \E t \in DOMAIN Neighbours[Neighbours[i][s]] : Neighbours[Neighbours[i][s]][t] = i

\* The tensors of a call: out of place, results are storages of their own.
RopeView(v) ==
  /\ v.store \notin {"out_q", "out_k"} /\ v.offset \in Nat
  /\ v.sh \in Seq(0 .. MaxExtent) /\ v.sh # <<>>
  /\ v.st \in Seq(Nat) /\ Len(v.st) = Len(v.sh)

\* Query and key have one head dimension, of which an even part is rotated
\* (_rope_utils.py:65-88).
ASSUME RopeAssumption ==
  /\ MaxExtent \in Nat
  /\ \A c \in RopeCalls :
       /\ c.backend \in {"eager", "ascend", "cuda", "hip", "triton", "xpu"}
       /\ {c.two, c.rms, c.split, c.inplace} \subseteq BOOLEAN
       /\ RopeView(c.q) /\ RopeView(c.k) /\ c.q.sh[Len(c.q.sh)] = c.k.sh[Len(c.k.sh)]
       /\ \A source \in {c.freqs, c.scale} : RopeView(source) /\ source.sh = <<1>>
       /\ c.rot \in 0 .. c.q.sh[Len(c.q.sh)] /\ c.rot % 2 = 0

VARIABLES
  kernel,
  n, child, box, stored, visits, node, leaf_pc,
  term, cap, r, e, rt, h, inc, list, queued, slot, seen, it, host_pc,
  call, memory, launches, lane, read, outcome

Mesh == INSTANCE MeshBVH WITH pc <- leaf_pc
Cut == INSTANCE MinCut WITH pc <- host_pc
Rope == INSTANCE RopeInPlace

mesh_vars == <<n, child, box, stored, visits, node, leaf_pc>>
cut_vars == <<term, cap, r, e, rt, h, inc, list, queued, slot, seen, it, host_pc>>
rope_vars == <<call, memory, launches, lane, read, outcome>>
reductions_vars == <<kernel, vars, mesh_vars, cut_vars, rope_vars>>

\* Three nodes, each beside the two others.
Triangle == [i \in 0 .. 2 |-> <<(i + 1) % 3, (i + 2) % 3>>]

\* No terminal, a source, a sink, both.
TerminalPairs == {<<0, 0>>, <<2, 0>>, <<0, 1>>, <<1, 2>>}

View(store, offset, sh, st) == [store |-> store, offset |-> offset, sh |-> sh, st |-> st]

\* Views of one storage: the query at its start and the key at every small offset and
\* stride; packed projections, three dimensions deep; rows for the RMS norm.
Flat(offsets) == {View("a", o, <<2, 2>>, <<s, u>>) : o \in offsets, s \in 0 .. 4, u \in 1 .. 2}
Deep(offsets) ==
  {View("a", o, <<2, 2, 2>>, <<s, t, 1>>) : o \in offsets, s \in {2, 4, 8}, t \in {2, 4}}
Row(o, rows) == View("a", o, <<rows, 4>>, <<4, 1>>)
Own(store) == View(store, 0, <<1>>, <<1>>)
Shared(o) == View("a", o, <<1>>, <<1>>)
Base(backend, q, k) ==
  [backend |-> backend, two |-> TRUE, rms |-> FALSE, split |-> FALSE, inplace |-> TRUE,
   q |-> q, k |-> k, freqs |-> Own("f"), scale |-> Own("s"), rot |-> q.sh[Len(q.sh)]]
Backends == {"eager", "ascend", "cuda", "hip", "triton", "xpu"}
Calls ==
  {Base(b, q, k) : b \in {"eager", "hip", "triton"}, q \in Flat({0}), k \in Flat(0 .. 4)}
    \cup {Base("cuda", q, k) : q \in Deep({0}), k \in Deep(0 .. 3)}
    \cup {[Base(b, q, q) EXCEPT !.two = FALSE, !.freqs = Shared(o)] :
             b \in {"cuda", "triton"}, q \in Flat({0}), o \in 0 .. 6}
    \cup {[Base(b, Row(0, 1), k) EXCEPT !.rms = TRUE, !.scale = Shared(12), !.split = (rot = 2),
                                       !.inplace = into, !.rot = rot] :
             b \in Backends, k \in {Row(2, 1), Row(4, 1), Row(4, 2)}, into \in BOOLEAN, rot \in {2, 4}}

NoRope == call = 0 /\ memory = 0 /\ launches = 0 /\ lane = 0 /\ read = 0 /\ outcome = ""
NoMesh ==
  n = 0 /\ child = 0 /\ box = 0 /\ stored = 0 /\ visits = 0 /\ node = 0 /\ leaf_pc = 0

NoCut ==
  /\ term = 0 /\ cap = 0 /\ r = 0 /\ e = 0 /\ rt = 0 /\ h = 0 /\ inc = 0
  /\ list = 0 /\ queued = 0 /\ slot = 0 /\ seen = 0 /\ it = 0 /\ host_pc = 0

ReductionsInit ==
  \/ kernel = "split" /\ Init /\ NoMesh /\ NoCut /\ NoRope
  \/ kernel = "mesh" /\ Mesh!Init /\ Init /\ NoCut /\ NoRope
  \/ kernel = "cut" /\ Cut!Init /\ Init /\ NoMesh /\ NoRope
  \/ kernel = "rope" /\ Rope!Init /\ Init /\ NoMesh /\ NoCut

ReductionsNext ==
  \/ kernel = "split" /\ Next /\ UNCHANGED <<kernel, mesh_vars, cut_vars, rope_vars>>
  \/ kernel = "mesh" /\ Mesh!Next /\ UNCHANGED <<kernel, vars, cut_vars, rope_vars>>
  \/ kernel = "cut" /\ Cut!Next /\ UNCHANGED <<kernel, vars, mesh_vars, rope_vars>>
  \/ kernel = "rope" /\ Rope!Next /\ UNCHANGED <<kernel, vars, mesh_vars, cut_vars>>

ReductionsSpec == ReductionsInit /\ [][ReductionsNext]_reductions_vars /\ WF_reductions_vars(ReductionsNext)

-----------------------------------------------------------------------------
\* Every variable of the kernel that runs has its type.
ReductionsTypeOK ==
  /\ TypeOK
  /\ kernel = "mesh" => Mesh!TypeOK
  /\ kernel = "cut" => Cut!TypeOK
  /\ kernel = "rope" => Rope!TypeOK

\* Every box of the refitted BVH encloses its leaves (mesh_bvh.cu:21-23).
BoxesEnclose == kernel = "mesh" => Mesh!BoxesEnclose

\* The minimum cut is minimum, with the largest source side
\* (comfy_kitchen/__init__.py:1331).
CutIsMinimum == kernel = "cut" => Cut!CutIsMinimum

\* A rotary embedding that is not refused rotates each element once and writes nothing
\* else (_rope_utils.py:91-121).
RotatedOnce == kernel = "rope" => Rope!RotatedOnce

\* Every schedule ends: each launch over its workspace has a warp that finishes
\* it, one thread climbs to the root, the loop of the cut stops, and a rotary
\* embedding is answered.
Finishes ==
  <>(\/ kernel = "split" /\ AllDone /\ launch = MaxLaunches
     \/ kernel = "mesh" /\ Mesh!KernelOver
     \/ kernel = "cut" /\ host_pc = "done"
     \/ kernel = "rope" /\ outcome \in {"raised", "done"})
=============================================================================
