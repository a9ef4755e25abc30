# TLA+ models of comfy-kitchen

comfy-kitchen is a library of quantization, attention and decode kernels behind
one dispatching Python package. Most of its lines are arithmetic. This directory
models what is not: which bytes a kernel reads and who wrote them last, which
buffer a decode step commits from, which thread finishes a reduction, which
backend a call reaches and whether that backend can serve it, in what form a
weight is stored and what is left of it after a copy, and what is counted when a
route fails. TLC checks the modules on small instances; for twelve of the
components the main results are proved with TLAPS for every value of the
constants.

All paths below are relative to the repository; `comfy_kitchen/` is the package.

## 1. Inventory

| Component | State it keeps | Operations | Modelled by |
|---|---|---|---|
| Deferred-commit DeltaNet decode (`gated_delta.py`, `backends/cuda/ops/gated_delta.cu`) | committed conv window, recurrent state, four side buffers double-buffered over the step parity, a control vector | the conv call, the decode call; the caller proposes, verifies, reruns | `VerifyLoop`, `DeferredDecode` |
| Connected components (`backends/cuda/ops/connected_components.cu`) | `parent[]`, shared by all threads | `find_root` with racing halving, hooking by `atomicCAS`, labelling | `ConnectedComponents` |
| Growing INT8 decode cache (`int8_decode.py`, `backends/cuda/sage_attention/*`) | quantized pages and their scales; a BF16 source that may be a ring | `update(initialize=...)`, `attend` | `Int8DecodeCache` |
| Backend registry (`registry.py`, `constraints.py`) | backends, capabilities, constraints, disabled set, priority, thread-local override | register, enable, disable, set_priority, use_backend, get_implementation | `BackendRegistry` |
| XPU routes (`backends/xpu/gguf.py`, `backends/xpu/svdquant_w4a16.py`, `gguf.py`) | quarantined keys, route counters, fallback counters | a call and its fallback, snapshot with reset, quarantine reset | `RouteQuarantine` |
| W4A16 preparation (`svdquant_w4a16.py`) | packed bytes, a mark on the tensor object | prepare, restore, linear | `PreparedWeight` |
| Python-side caches (`backends/cuda/__init__.py`, `backends/hip/__init__.py`) | reusable SVDQuant workspaces per stream, the packed rope table under `id()` | look up, fill, clear | `DeviceCaches` |
| Split-K W4A8 GEMM (`backends/cuda/ops/w4a8_gemm.cu`) | partial sums, arrival counters, both reused by the next launch | add, fence, arrive, finish | `SplitReduction` |
| Mesh BVH (`backends/cuda/ops/mesh_bvh.cu`) | Morton codes, radix tree, boxes, visit counters | build, bottom-up refit | `MeshBVH` |
| Parallel min-cut (`backends/cuda/ops/min_cut.cu`, its driver in `backends/cuda/__init__.py`) | residuals, excess, heights, incoming amounts, work lists | push, gather and relabel, commit, global relabel | `MinCut` |
| Rotary embedding in place (`_rope_utils.py`, `backends/*/rope*`) | views of storage the caller shares | overlap test, pair and split kernels, RMS variants | `RopeInPlace` |
| Quantized tensors (`tensor/`) | codes, scales, logical shape, flags for the form of the codes | views, copies, moves, in-place conversion, products, state dicts, in eight layouts | `QuantizedTensors` |
| Numeric backends, host side (`backends/{eager,triton,cuda,hip,xpu,ascend}`) | constraint tables; none that outlives a call | checks, allocation and results of the FP8, NVFP4, MXFP8 and INT8 operators; the layouts' linears with their fallbacks | `Operands`, `OperatorTables`, `AcceleratorTables`, `Fp8Fp4Operators`, `Int8Operators`, `OperatorCalls` |
| Delaunay and edge collapse (`ops/delaunay3d.cu`, `ops/edge_collapse.cu`) | geometry | floating-point predicates | no |
| Attention helpers, build scripts | none that outlives a call | arithmetic, bindings | no |

How they interact. A public operator asks the registry for an implementation and
calls it; the registry looks at the constraint tables of the backends in their
order. A `QuantizedTensor` intercepts torch operations and calls public
operators on its codes and scales; when a kernel refuses, the layout starts over
from dequantized operands. An XPU implementation may fail and fall back to the
eager one, which is counted. `int8_decode.py` registers the CUDA backend late,
while other threads may be dispatching. The decode of a model layer is a pair of
calls that share buffers with the pair of the step before. Kernels of one stream
run one after the other; inside a kernel, threads meet only through global
memory. Nothing is persisted by the library: nothing survives a process, so
there is no crash recovery to model. What a state dict saves, in which form, is
modelled.

What is hard to test, in short (line by line under `hazards` in `PROJECT.json`):

- *Deferred decode*: the two calls of a step commit different things at
  different times, from a buffer the step before last wrote; trees, partial
  acceptance, rows that are never accepted, a step issued twice.
- *Kernels*: stale writes of the halving race with hooks; the warp that arrives
  last must see every sum, and leave the scratch as the next launch needs it; the
  second of two siblings must see the first one's box; pushes of a sweep meet on
  an edge; two in-place rotations may touch one storage.
- *State between calls*: only the last two pages are refreshed, from a ring that
  wraps, under rows written speculatively and then discarded; a workspace is
  returned itself and reused; an `id()` is given out again; an XOR is its own
  inverse and the mark that remembers it is kept elsewhere than the bytes;
  threads fail at once while counters are collected and reset.
- *Dispatch*: it takes no lock and asks several questions in sequence; the table
  by which a backend is chosen is written apart from the function it chooses.
- *Quantized tensors*: views share codes but clone scales; flags travel with some
  copies and not with others; blocks are padded and results cut back.

## 2. Modules

A component has a module of its own. `MCProcessState` and `MCReductions` put
components that share no memory side by side, so that a behaviour drives one of
them (`part`, `kernel`) and one run serves all. The other `MC` modules hold the
constants of an instance. Proofs are in `*_proofs`.

### VerifyLoop: what a speculative decode loop promises

No buffers, no parities. `committed` is a sequence of tokens, `tree` a forest of
proposed rows, `outputs` what each row was scored from. A row is scored from the
committed tokens and its own ancestors only; the verifier keeps one root path,
possibly empty. Its steps are `AnyPropose`, `Score`, `Accept`.

### DeferredDecode: how the code keeps that promise

| TLA+ | code |
|---|---|
| `conv_state`, `state` | the two committed tensors |
| `proj_buf`, `qkv_buf`, `gates_buf`, `sumsq_buf` | the side buffers, `[parity][slot]` |
| `ctl` | the control vector: pending, parity, accepted slots, parents, program |
| `ConvStep` | the conv call: roll the window over the pending rows, convolve, store projections and conv outputs |
| `DecodeStep` | the decode call: replay the pending rows into the state, store it, run the program over the rows, store gates and norms |
| `Propose`, `Verify`, `Rerun` | the caller, as `tests/test_gated_delta_fused.py` drives it |
| `Paths` | TRUE: the torch path, which zero-pads a slab; FALSE: the kernels, which leave slots past the step as they were |

A token is `<<step, row>>`, a conv output is the tuple of tokens under its taps,
a recurrent state is the sequence of entries folded into it. The recurrence is
kept free: two histories give the same state exactly when they fold the same
entries, so a model that agrees here agrees for whatever function the kernels
compute. What it leaves out is the arithmetic and its rounding.

The caller is more general than the tests: it proposes any program in which each
row runs once and on top of its parent (`Programs`), accepts any root path, and
may repeat a step that has nothing pending. `Iteration` has lemmas on functions
defined by iteration over `0 .. n`, which `Ancestor`, `Running` and the sums and
products of `Sums` are.

### ConnectedComponents

One thread per edge and one per node; each read and each write of `parent[]` is
a step, the branch that follows a read is taken with it because it touches
locals only. `pc` names the next access: `find`, `grand` (the second read of
the loop), `halve` (the plain write), `cas`. `label_kernel` follows
`union_kernel` on the stream (`Launched`).

Assumed: memory is sequentially consistent. `parent` is `volatile`, so the
compiler keeps each access, and the result of one thread's two successive reads
can only be reordered between different addresses, of which the second is the
value the first returned. No claim is made for hardware that would let such
dependent reads be reordered.

### SplitReduction, MeshBVH, MinCut

`SplitReduction` is the end of the split-K GEMM for one tile. An `atomicAdd`
whose result is unused is in `flight` until its addition lands (`Reach`); a
fence waits for it; the warp whose `Arrive` finds all others counted reads the
sums back, writes the output and zeroes scratch and counter. `Launch` is the
next launch over the same scratch. A sum is the sequence of contributions added.

`MeshBVH` builds the radix tree over every sorted list of codes (`Split`, ties
broken by the index bits as in the code; its two searches are `Farthest` with the
strides `Halvings` and `Shares`) and climbs it from every leaf. A plain
store is in `stored` until it becomes visible or its thread passes a fence. A
box is the set of leaves it encloses.

`MinCut` keeps the three kernels of an iteration apart. A push reads both
residuals of an edge in one step and writes them in another, so two threads can
meet on an edge; the other kernels write only entries of their own node and are
one step. The driver's loop, its periodic global relabel and its stop condition
are in the model, with `relabel_every` = 2 so that a sweep is seen both with and
without one. Amounts are naturals and the tolerance is 0. What arrives at a node is
added in slot order, as the kernel adds it (`Total`, in `Sums`), and the search from the sink is
rounds of labels, as the driver launches them. Neighbour lists are symmetric and name
a node once (`CutAssumption`): the slot back is the first that names the node.

### RopeInPlace

A view is a storage, an offset, a shape and strides. `InPlaceAllowed` is the
code's overlap test: storage bounds, and the disjointness of views that
interleave. `Plan` is the sequence of kernels and copies a backend runs for a
call, a thread of a kernel is a list of reads and writes (`ThreadOps`), and
threads run in any order. An element remembers what it was computed from and how
often it was rotated. Where an element lies is a sum over the dimensions (`Offset`,
with `Total` of `Sums`). The code sorts the strides before it compares them;
`InternalOverlap` compares any two, which is the same. `RopeAssumption` says what a
call has: views with natural offsets and strides, none of them the storage of a
result out of place, and an even rotated part of the one head dimension
(`_rope_utils.py:65-88`).

### Int8DecodeCache

`rows` is the sequence the caller means, `source` the rows actually in memory;
each row carries the version that wrote it. A page of the cache is the tuple of
rows it was quantized from, so a stale row, a row too many and a scale taken
over other rows are all visible. `Initialize` quantizes every live page from
the full prefix; `Update` the last two from `source` at `(q * PageSize) %
sourceRows`. The caller (`Begin`, `Grow`) is the loop of
`tests/test_int8_attention.py`: it keeps a prefix, possibly shorter than what
was committed, overwrites the rows behind it including speculative ones past the
length, and then updates. The contract of `update` bounds it: growth of at most
a page past the kept rows, and a ring with room for both refreshed pages
(`Reach`).

### BackendRegistry

Writers hold the lock, one dictionary write per step, so a dispatch sees every
intermediate state. A dispatch holds none: `check` counts the questions it asks
of a candidate (available, has the function; then, when keyword arguments are
validated, available, has the function, constraints), each its own step.
`order` is the list found when the priority was read: `set_priority` replaces
the list rather than changing it. `whole`, `down` and `up` are history
variables: which backends were fully registered at the start of the call, and
which were disabled or enabled at some moment of it. `use_backend` contexts are
a stack per thread.

Backends are only ever added, so the two reads inside `is_available` are
modelled as one at the second. A constraint check is an outcome per backend
(`accepts`); every combination is tried. The constraints themselves are in
`Operands` and the tables.

### RouteQuarantine

Both adapters (`gguf.py`, `svdquant_w4a16.py`) have the same steps: look at the
quarantine under its lock, try the native route, on a failure quarantine it
under the lock and be told whether this was the first, warn if so, record the
fallback, compute it. Direct eager calls are computed first and recorded then.
Snapshots and both resets run at any time. The history variables count what
really happened: calls returned, fallbacks that raised, warnings, and what
resetting snapshots handed out.

### PreparedWeight

A storage is `signed` or `unsigned` and an XOR turns one into the other. A mark
is on a tensor object; `StorageOf` says which objects share bytes. A preparation
has two steps so that an allocation can fail between the check and the
conversion. Copies, in-place conversions, restores through any prepared object
and validated linear calls are all actions.

### DeviceCaches

`workspaces` maps a stream and a shape to a workspace; `Quantize` issues a write of it
and hands it out, each `ScaledMM` of the layers that share the activation issues
a read, and a stream runs what was issued in order, some time later (`queue`).
The model keeps to one forward at a time on a stream: the buffers of a stream are
not protected, and two threads that share one do overwrite each other (hazard at
`backends/cuda/__init__.py:4238`). For the rope table, `live` says which tensor
has an id now: a tensor may die and its id be given out again between the steps
of a lookup, a miss builds outside any lock, and entries are dropped when the
cache is full.

### QuantizedTensors

An object points at a slot of `codes` and a slot of `scales` and has the
parameters of its layout: logical shape, transpose flag, form of the codes.
Codes and scales say which matrix they encode, so reading one with the other of
something else is `Garbage`, and an operation that the code refuses is `Raise`.
The actions are what `tensor/base.py` and the layouts register: views,
`detach`, `clone`, `copy_`, `.to`, in-place preparation and restore, products,
`state_dict`. Padding rounds up to `Granule`. The dimensions of a product are
computed as the handlers do, including the cut back to the logical shape.

### Operands, OperatorTables, AcceleratorTables, Fp8Fp4Operators, Int8Operators, OperatorCalls

A tensor is a dtype, a shape and whether it is contiguous. `Operands` has the
constraint rules, `OperatorTables` and `AcceleratorTables` the tables of the six
backends as functions of what the device offers (compute capability, cuBLASLt,
WMMA, features of the XPU companion, torch_npu operators). `Fp8Fp4Operators` and
`Int8Operators` are the host functions: what each checks, which shapes and
dtypes it returns, and whether it reads a strided operand by its strides.
`Over` (`f ++ g`) joins tables as the dictionaries of `_build_constraints` are
joined, with a definition to prove from. `OperatorCalls` takes the platforms as a
constant (`Profiles`: the family of the device and what it offers) and builds
their tables (`Tables`; Triton registers on CUDA, ROCm and XPU devices). It
runs a linear of two matrices through a layout: it quantizes,
multiplies, and falls back as the handlers do. Which of the backends that accept
a call takes it is left open: priority, overrides and disabled backends choose
(`BackendRegistry`), so what holds does so for every order.

A host function that completes in Python may still raise in what it launches, and
the modules follow it there: CUDA's block quantizers are built for the half dtypes
(`cuda/ops/quantize_nvfp4.cu:367`), and a Triton kernel raises when its compiler has
no conversion for a format on the device. Which formats those are is not the
repository's to say: `compiles` is a field of a platform, and the instance takes it
from what the PTX of the kernels and Triton's compiler ask for (E2M1 from SM 10.0,
E4M3 from SM 8.9 and on XPU, E5M2 everywhere). The theorems hold for any choice of it.

`Untabled` collects the reasons for which a backend raises at a call its table
accepted: f32 blocks on CUDA, formats Triton does not compile, INT8 widths and
rotation groups HIP does not have, norm and residual kernels a companion lacks. The
two properties of the run allow a call to be refused, and a linear to be given up,
for these reasons and no other; each is necessary (without it TLC finds
`AgreesWithReference` violated). `PartBlock` and `PartTile` are two more for direct
calls, which no layout makes: unpadded rows that fill no block, and bytes that fill
no tile.

## 3. What is checked

Every passing run is exhaustive over its instance. Each property of each passing
run has a mutant, a plausible mistake in one definition (written beside it, "As
..."), under which TLC finds that property violated.

| Run | Question and result |
|---|---|
| `deferred` | Do the two calls of a step, on the torch path and on the kernels, do what `VerifyLoop` promises? `ImplementsVerifyLoop` is the refinement; `WindowMatchesState`, `CommitMatchesPlainRun` and `OutputsMatchPlainRun` say that window, state and outputs are those of a loop that recomputes everything; `NoSpeculativeCommit` that nothing of a step is committed in it; `PendingSurvives` that neither call disturbs what is to be replayed. Three steps of one or three rows: the shortest behaviour in which a slab is reused (step 3 writes the slab of step 1), with branching trees and a window shorter than a step, and stale slots on the kernels' path. |
| `components_safety` | Every list of three edges over three nodes, every interleaving: components are neither joined (`NeverJoinsComponents`) nor split (`EdgesStayJoined`), no hook is undone (`HookedForever`), every label is the smallest node of its component (`LabelsCorrect`), and every schedule ends (`Terminates`). Three edges let two threads contend for one root while a third halves over it; duplicates and self-loops are among the lists. |
| `components_pointers` | *Violation.* A halving write can raise a pointer again (section 5). |
| `registry_dispatch` | Three backends, two functions, one backend registering late, one dispatching thread, all writers interleaved, contexts nested two deep: a dispatch never passes over a backend able to run the call throughout, runs only what was enabled at some moment of it, validates the arguments of anything that was registered when it began, and the override is always that of the innermost context. |
| `registry_late_constraints` | *Violation.* A backend met between two of its dictionary writes runs unvalidated (section 5). |
| `process_state` | State kept between calls, one component to a behaviour. *Quarantine*: three threads, two keys, four calls: every call is counted once or collected once, one warning per route and reset; four calls are one more than the threads, so a repeated warning would be seen. *Weights*: two, each known by one tensor object, four preparations: validated calls multiply converted bytes, unmarked tensors hold checkpoint bytes. *Workspaces and rope table*: three threads, two streams, three forwards of up to two layers, ids reused by up to three tables: products read their own activation, a call rotates with the table of its own tensor. *INT8 cache*: pages of two rows, nine positions, rings of three and four pages and a full source, four rounds: every wrap, a partial last page, rollbacks over more than a page, a speculative row past the length: every page attended equals a fresh initialization, the rows to refresh are still in the source, pages further back never change. |
| `prepared_alias` | *Violation.* A second tensor object on the same storage reverts its bytes (section 5). |
| `reductions` | One kernel to a behaviour, and `Finishes`: every schedule ends. *Split-K*: three warps, two elements, two launches over one scratch (`SumsWholeAndScratchClean`). *BVH*: every sorted list of one to four 3-bit codes, duplicates included (`BoxesEnclose`, which a wrong tree breaks as well). *Min-cut*: a triangle, all capacities of 0 to 2 and four terminal pairs: the result is a minimum cut with the largest source side, against all node sets (`CutIsMinimum`). *Rotary embedding*: a query with a key at every small offset and stride of one storage, packed projections, frequencies and scales that share it, over six backends: an accepted call rotates each element once and writes nothing else (`RotatedOnce`). |
| `quantized` | Every chain of operations on up to three tensors of each of eight layouts: `DequantizesToItsValue` compares what an object reads with what a plain tensor would hold after the same operations, `ProductsAgree` linear, mm and addmm with those of the plain matrices, `SavedInStandardForm` what a state dict holds. Two 3 by 5 matrices and a square one, for W4A8 a 3 by 5 and a 5 by 3 one (packed records hide their shape), padding to a multiple of 4, moves between two devices where a form belongs to one. |
| `quantized_effective_weight` | *Violation.* A prepared SVDQuant weight does not dequantize to what its kernel multiplies by (section 5). |
| `operators` | Eleven platforms (three CUDA generations with and without a scaled matmul in torch, two RDNA, three XPU companions, an NPU, a CPU). Linears of four layouts, with widths and row counts on both sides of every block and group, and every backend that accepts a call answering it: `AgreesWithReference` compares acceptance and result with the eager backend and the declared shapes, `LinearCompletes` says that whatever is refused on the way the linear ends with the shape and dtype of the plain one. Where a backend raises at a call its table accepted, the reason is one that `Untabled` lists. Blocks are also quantized and unpacked by themselves, unpadded. Other operators (rotary, attention, packed four-bit, spatial) are dispatched through their tables. |
| `operators_rank_three` | *Violation.* Quantizing a rank-3 activation by rows raises on Triton (section 5). |

Bounds. `MaxSteps`, `MaxRounds`, `MaxCalls`, `MaxNesting`, `MaxPrepared`,
`MaxForwards`, `MaxTables`, `MaxLaunches` and `MaxObjects` cut a behaviour off in
the guard of the action that begins something new; nothing under way is cut.
Those runs end in states without successors and say `CHECK_DEADLOCK FALSE`. For
the kernels the end is real: all threads return; `Finishes` and `Terminates` say
that they do. One dispatching thread is enough for the registry because
dispatching threads write nothing and share only what the writers write;
overrides are thread-local. Threads of `process_state`, and matrices of one
shape in `quantized`, are interchangeable and reduced by symmetry; `quantized`
has no temporal property, and the action property of `process_state`,
`SealedPagesKept`, mentions no thread. In `quantized` the layouts with the most
states (INT8, SVDQuant, W4A8) do without the square matrix. In the kernels, three
warps are needed for one to be between the other two; four leaves are the
smallest tree with two inner children; three nodes are the smallest graph with a
detour.

Left out of `operators`: strided operands in direct calls (CUDA's FP8 and Triton's
INT8 read them in storage order, section 5), matrices without rows, matrices whose
widths differ by less than a block (padding hides it), activations of rank 3 held by
rows (the violation run), and a torch without a float4 dtype, where
`tensor/nvfp4.py:258` does not catch the `AttributeError`. Section 5 says which of
these are worth a look.

Fairness. Two modules have liveness properties, both about kernels.
`ConnectedComponents` assumes `WF_vars(Next)` and `MCReductions`
`WF_reductions_vars(ReductionsNext)`: the device runs *some* thread as long as
one can move. Nothing is assumed between threads, so no schedule, however unfair,
lets a retry loop spin for ever. The kernels are launched with every thread
runnable, and none waits for a particular other one: a fence waits for stores of
its own thread. The loop of the min-cut driver is host code that runs kernels to
their end. No other module claims that anything happens eventually: their callers
may stop at any time.

## 4. What is proved

Seven proof modules and `Iteration`, a library of lemmas. The assumptions are the
named ones on the constants, which say that sizes are sizes and sets are sets,
and those stated below. `theorems` in `PROJECT.json` lists the results.

**DeferredDecode** (`TypeCorrect`, `NothingCommittedEarly`, `PendingRowsSurvive`,
`WindowFollowsState`, `CommitsPlainRun`, `OutputsPlainRun`,
`DeferredImplementsLoop`), for every slot count, window, set of step sizes, number
of steps and both paths. `TypeOK` alone is not inductive: the replay reads slots,
and that they were written is a fact about the *other* slab, one or two calls
earlier. `SlotInv` adds it: the accepted slots of the previous step hold its rows
in the slab of the other parity (`PendingWritten`), the rows of this step are in
its own slab as far as its calls have run (`RowsWritten`), and a program runs
every row (`ProgramComplete`). `WindowFollowsState` needs in addition that the
pending projections and gates are those of the same tokens.

That what is committed is a plain run needs `PlainRunInv`: the conv outputs of
the rows were taken over the committed window (`RowsConvolved`) and a row's
parent is what its program entry finds on top of the running state
(`ParentsFollowProgram`, from the program being one-to-one on rows). The lemma
behind both theorems is `PathInContext`: rows run along a root path on top of
entries of a plain run are entries of a plain run, because the taps of the i-th
row are i path tokens and then the window, which `WindowMatchesState` says is the
tail of the same history. The verifier applies it to the accepted path, the
decode call to the path down to each row (`RunningOfPath`, by induction over the
program). The refinement of `VerifyLoop` adds `ForestInv` (a step has rows, each
after its parent, all scored before verification): `Propose` is `AnyPropose`,
`DecodeStep` is `Score`, `Verify` is `Accept`, the conv call and a rerun stutter.

**ConnectedComponents** (`UnionInvariant`, and from it `TypeCorrect`,
`ComponentsKeptApart`, `EdgesJoined`, `HooksAreKept`, `LabelsAreCorrect`), for
every number of nodes and edges and every interleaving. Two nodes are connected
when no closed set of nodes separates them: a form without recursion, which is
what lets the prover handle it. The heart of the argument is that a set closed
under the forest after a halving or hooking write is closed before it and
conversely, given what `WalkInv` says a thread may believe of nodes it read some
steps ago. A halving write is stale; it is harmless because the node written was
already hooked, its old grandparent is in the same tree, and its index is below
the node's. `EndsInv` says that the two nodes a thread stands on are in the trees
of the ends of its edge, which makes the retry sound. `LabelInv` holds because
roots no longer change once the union threads are done.

**Kernels** (`Reductions_proofs`), as behaviours of `ReductionsSpec`, which runs one
of them and leaves the variables of the others alone. `ReductionsTypeCorrect` is
the type invariant of all four. It follows from the four inductive invariants
below and not from the steps alone: that the counter stays within the warps needs
that it counts those that arrived, that a cap never goes negative needs that a
push takes what its thread saw, and that a thread has an operation left needs the
plan of the call.
*Split-K GEMM* (`EverySplitSummedOnce`), for every finite non-empty set of
warps, any elements and any number of launches. While a launch runs, the counter
is the number of warps that arrived, each sum holds each landed addition once
and nothing else, and a warp at `finish` is alone and the last. A warp that
arrived has passed its fence, so all have landed when the counter is full.
*Mesh BVH* (`BoxesOfTree`), for every number of bits, every number of leaves that
their index bits can tell apart (`MeshAssumption`), any sorted codes with any
duplicates, and any order of arrival. First, what the hierarchy kernel computes is
a tree (`TreeBuilt`). Of the prefixes that keys share only three facts matter:
for three keys in order the outer two share no more than either neighbouring pair,
one neighbouring pair shares no more than they do, and the two pairs differ
(`ThreeKeys`, from the bits by `PrefixOfThree`: this is where equal codes need the
index bits). The halving searches find the last key that shares
(`SearchFindsLast`: the strides never shrink to less than half and end with 1), so
`Split` cuts the range of a node where its parts share least (`SplitOfRange`, with
the direction of a tie settled in `RangeDown`). A range belongs to one node and a
node to one range (`BlockOfNode`); a range other than the whole is part of the
smallest range around it, and of that only (`HasParent`, `PartOfOneBlock`).
Then the climb (`MeshNextInv`): a node counts as left behind when its thread
stopped or went on; the visits of its parent are the children left behind
(`VisitsCounted`), one thread at most is at a node (`OneAtANode`), and a node left
behind has its whole box visible, because its thread passed the fence before it
was counted (`LeftBehindBox`). No schedule is assumed.

*Rotary embedding* (`RotatesOnce`), for any calls (`RopeAssumption`): any number of
dimensions, any sizes, offsets and strides, views that share storage in any way,
six backends, with and without the norm, in place or not, and any order of the
threads. First geometry. An operand the test accepts has strides that nest: each
exceeds the place of every index into the smaller ones (`BelowFits`, by a least
stride), so the widest dimension in which two indices differ decides which place is
larger (`WidestDecides`) and an element has a cell of its own (`PlacesDiffer`). Two
operands the test accepts are in storages or ranges apart, or interleave: a place is
a number of whole periods and a remainder inside the block (`PlaceSplits`), and
offsets that differ by a block or more, and end before the period, give no common
place (`InterleavedApart`). So no operand's result is in another's cell or in one
that is only read (`RopeGeometry`). Then what is launched: the plan of every backend
is one kernel, one for each operand, or the functional result and copies back, the
copies last (`PlanOrdered`); a thread sums, reads and writes each operand in turn
(`RotateInTurn`); and the threads of a launch share out the elements, each to one
(`ThreadsDealt`). The invariant (`RopeInv`) says that memory holds the elements
whose thread is past its last operation on them, each rotated once, and nothing else
(`Written`), and that no thread of a row goes on to read before all have summed
(`SummedFirst`). What a thread reads therefore has its first value (`ReadsFirst`):
it has not been written by that thread, and not by another of the row while the
norm is being summed.

*Minimum cut* (`CutsAreMinimum`, `HeightsOnlyRise`), for every
graph with symmetric lists (`CutAssumption`), any natural capacities, any interval
between searches and any interleaving of the push threads. It is the theorem of
max-flow and min-cut for a flow that many threads change at once. The invariant
(`CutInv`): heights are valid, that is, no residual edge leads down by more than one
(`Legal`); a thread between its read and its write finds the edge as it read it,
because a push goes down by one and its reverse would go up (`PushesApart`); what was
pushed is still to be gathered, by a queued node (`PushedQueued`); a node with excess
and a height below `Big` is on the list of the kernel that will see to it
(`WaitingListed`); and every cut has lost the same capacity to the flow, where what a
cut has left counts the residuals that leave it, and the excess and the amounts on
their way on its other side (`FlowCrossesAll`). `SinkTakes`, `EdgeTakes` (a push is a
departure and an arrival, `Departs` and `Arrives`) and `GatheringKeeps` say how a step
changes what a cut has left: by the same for all cuts. The search from the sink gives
valid heights (`SearchedHeights`), and the highest there are (`SearchedHighest`), which
is why heights never fall. It may stop after N rounds because labels leave no gap and
there are N nodes (`LabelsUpToN`). When the loop has stopped nothing waits, so nothing
is left of the cut by the last search, and what is left of any cut is not negative
(`CutDone`).

**BackendRegistry** (`CapableNeverPassedOver`, `EnabledImplementationRuns`,
`RegisteredIsValidated`, `OverrideIsInnermost`, `TypeCorrect`), for any backends,
functions, priority lists and any number of dispatching threads. `Settled` says
of a dispatch under way what no writer takes back: a registered backend stays
registered, `down` and `up` contain all that is disabled or enabled now, the
override is asked first, and a candidate at its n-th question has passed the ones
before (`Passed`). `Unmoved` shows that steps of writers and of other threads
keep it. The type invariant is proved on its own, with the order in which a
registration fills its dictionaries.

**What outlives a call** (`ProcessState_proofs`): each component by itself, and
then together. *Quarantine* (`CallsCountedOnce`, `RoutesWarnedOnce`), for any
finite set of threads, any keys and any number of calls. The properties are
themselves inductive, as they weigh counters against the number of threads at a
label; `MoveCounts` and `MoveOwed` say how one step changes such a number. That
no counter exceeds the calls begun needs `CallsBound`: the counts and the calls
that await theirs.
*Weights* (`ConvertedBytesMultiplied`, `CheckpointBytesKept`,
`PreparationsAreOneShot`), for any tensors, when each has a storage of its own
(`OwnStorage`; `prepared_alias` shows that the assumption is needed). A mark then
is the form of the bytes (`MarkIsForm`), the tensor of a pending preparation is
unmarked, and copies are converted.
*Workspaces* (`ActivationMultiplied`), for any threads, streams, shapes and
numbers of forwards and layers, under the one condition the model has, that
forwards of one stream follow each other. A buffer is never in use on two streams
(`OneStreamPerBuffer`: its key, its queued kernels and the forward that holds it
agree on one), so the queue of that stream orders everything that touches it; and
before each queued matmul the last write is its forward's own (`QueuedMatmuls`),
which is also what a forward under way will find when it issues the next one
(`ForwardsUnderWay`).
*Rope table* (`GivenTableRotates`), for any threads and ids: an entry holds the
table of the tensor its weak reference names, from the moment a call begins to
build it, however lookups, clears and stores without a lock interleave.
*Together* (`ProcessTypeCorrect`, `ProcessSafe`): a step of one component leaves
the variables of the others alone, so their invariants hold side by side.

**QuantizedTensors** (`InvHolds`, and from it `TypeCorrect`, `ReadsItsValue`,
`StandardFormSaved`, `ProductsOfPlainMatrices`), for the eight layouts and any
values, granule, devices, dtypes and number of objects. Objects share codes and
scales, so the invariant says of each object what it finds in the slots it names:
that codes, scale, flags and shape were built for each other (`Built`), and that
they hold the value the object stands for unless somebody wrote behind its back
(`Reads`). The four properties are not inductive, alone or together: that a
conversion of shared codes leaves every alias readable needs that objects with
one scale have one set of codes (`ScalesGoWithCodes`), and a `copy_` into an alias
needs that the flags of the two objects stand to each other as their values do
(`Follows`). Every operation ends by renaming the slots still in use (`Keep`);
`KeepInv` disposes of that once. The products follow from what an object reads
(`StoredPlain`, `OperandFacts`) layout by layout, with the arithmetic of padding
in `PaddedLinear` and `PaddedMM`.

The attempt found an error of the model: `copy_` between packed W4A8 tensors of
equal packed size and different logical shape was taken to succeed, and the
destination then to read a matrix of another shape. In the code the copy of
`s_channel`, of one entry per row, raises (`tensor/base.py:76-88`). The model now
raises there (`CopyInto`), and the instance has two such matrices.

**Int8DecodeCache** (in `ProcessState_proofs`: `AttendsFreshPages`, `RefreshedRowsAreThere`,
`SealedPagesAreKept`), for every page size, capacity, source size the assumptions
admit, bound on rollback and number of speculative rows. An update trusts what it
does not look at: all pages but the last two are fresh already (`FreshPages`),
the source holds every row that is not too far back to have been overwritten
(`SourceHolds`, `Retained`), and the length is never further below the highest
one than `Reach` (`RollbackBounded`). That two rows of a ring in reach of each
other have different slots, and that a page does not wrap inside, are lemmas on
division. `TypeOK` is proved too, as part of `ProcessTypeCorrect`: rows written in a
round are positions below the capacity, and a refreshed page holds such rows.

**OperatorCalls** (`LinearsComplete`, `LinearsAgree`), for any platforms, matrices,
fused activations and rotations, and any choice among the backends that accept a
call. The invariant is `CallsInvariant`: what is held of a matrix has the form its
layout gives one (`QuantizedForm`: codes of padded or plain sizes, scales, blocked
scales, a rotation that divides the width), a fallback holds the activation or a
form of it, and the last call agrees with the reference. From the forms follow the
arguments of the calls to come. The other half is about single calls. `Offered`: the
eager table accepts the call, so a capable backend exists, and each backend that
accepts it returns the declared tensors, or raises as eager does; `Served`: each
returns the declared tensors, or raises for what its table does not state
(`Untabled`). Each call of a layout is one or the other, by lemmas that build its
arguments from the dtype and the sizes of the matrices (`QuantizesFp8` to
`MultipliesInt8`): this is where constraints of six tables meet the checks of the
functions behind them. So a linear ends as the plain one does, or is given up at such a
call (`Excused`). The only hypothesis beside the form of the matrices and the families
of the platforms is `HeldRanks \subseteq {2}`: activations are held as matrices of two
dimensions (`operators_rank_three` shows what happens otherwise). What a platform
offers, its companion and its compiler, is any. `LinearsAgree` is about the calls
of a linear; the calls of other operators (`OtherCalls`) are checked on the instance.

Only model-checked: `Terminates` and `Finishes` (liveness is outside what the
prover does), and `AgreesWithReference` for the calls of `OtherCalls`, which are
finitely many. Also outside the prover's reach is induction
over data, that is, what a recursive definition computes for every input, and
`RECURSIVE` operators, which no module here uses. A function defined by iteration
over `0 .. n`, a sum or a product among them, is within reach, by the lemmas of `Iteration`.

## 5. What the models say of the code

Five statements of the repository are contradicted by what the code does; each
is a run of its own whose counterexample shows it.

1. `connected_components.cu:21`, "pointers only decrease". A thread that read a
   grandparent and was overtaken by one that halved the same node further writes
   the older, larger value back (line 38). The result does not depend on it: the
   pointer stays in its tree and below its node, and that is what is proved.
2. `README.md:659`, the constraints are validated before the backend is called.
   `register` fills `capabilities` before `constraints` (`registry.py:56-58`)
   and a missing entry validates as fine (`registry.py:174-176`), so a dispatch
   that overlaps a late registration can run it on arguments it rejects. A
   backend registered before the call began is always validated.
3. `svdquant_w4a16.py:152`, "one-shot". The mark is on the tensor object; a
   second object on the same storage (`param.data`) is prepared again, which
   turns the bytes back while both look prepared.
4. `tensor/svdquant_w4a4.py:462`, `dequantize` reproduces the kernel's weight.
   It multiplies the stored tensors whatever form they are in: for a weight
   prepared for a native kernel, or a transposed one, the result is another
   matrix.
5. `backends/eager/quantization.py:892`, activations of any rank are quantized by
   rows. `triton/quantization.py:823` unpacks two dimensions after its table
   accepted the call, and Triton is ahead of eager in the default order.

Read on the way, without a run of their own (what the passing runs allow for by name,
what no statement contradicts, or inputs outside the instance):

- `comfy_kitchen/gguf.py:65` says `routes` counts completed implementations; the
  adapter counts its eager fallback before running it (`backends/xpu/gguf.py:99`),
  and one that raises is counted for good. Everything else is exact
  (`EveryCallCountedOnce`, which has that term).
- `README.md:638` describes the priority as hip, cuda, triton, eager, which the
  code sets only where the HIP backend registers; its default is xpu, triton,
  eager (`registry.py:25`). A CUDA backend is then reached by name, by
  `use_backend` or through a list the program sets. The models leave the list
  open.
- `Int8DecodeCache.update` allows the committed length to advance "by at most one
  page per call"; after a rollback this has to be measured from the kept prefix,
  as the model does, because the rows behind it are new.
- Disabling a backend stops calls that have not asked yet; one already past its
  last question still runs it.
- `cuda/dlpack_bindings.cpp:555` names float32, float16 and bfloat16 as inputs of FP4
  quantization (631 for MXFP8). The table and the binding accept float32, the
  launchers throw on it (`quantize_nvfp4.cu:367`, `quantize_mxfp8.cu:179`,
  `dtype_dispatch.cuh:132-150`), where eager would have completed. In the run, under
  `Untabled`: a linear of f32 matrices whose NVFP4 or MXFP8 quantization reaches CUDA
  is given up.
- Triton's entry for `quantize_nvfp4` states no minimum architecture
  (`triton/__init__.py:180`) and its kernel is PTX of SM 10.0
  (`triton/quantization.py:309-324`), where `README.md:657` gives NVFP4 as the example
  of a minimum. Its dequantizer asks for 10.0, which an AMD architecture such as 11.0
  passes as well, and is PTX too. The FP8 and MXFP8 kernels have no minimum either.
  In the run, under `Untabled`: a call accepted there raises, and a linear that makes
  it is given up.
- The mask of the last tile of Triton's NVFP4 dequantizer (`triton/quantization.py:459`,
  "bounds checking") compares a column modulo the row length with the row length and
  is always true, so codes that are not a multiple of 128 bytes are read and unpacked
  past their end. In the run, under `PartTile`; the layouts pad to whole blocks of 16
  by 16, which are 128 bytes.
- Tables and functions that disagree: the HIP table asks that the INT8 linear's raw
  input be a multiple of 16 wide, its function that the gated half be
  (`hip/__init__.py:931`), and only the function knows the rotations it has
  (`hip/__init__.py:935`), both of them in the run, under `Untabled`; the CUDA
  quantizers assert contiguity and whole blocks their table does not ask for; CUDA dequantizes a strided FP8 tensor
  in storage order (`cuda/__init__.py:634`); an older XPU companion multiplies and
  then raises at a residual (`xpu/__init__.py:601`, in the run) or at a W4A8 linear of
  up to eight rows (`xpu/w4a8_int8.py:49`); eager raises on an INT8 linear of no rows
  (`eager/quantization.py:1102`); Triton's INT8 linear reads a strided activation
  in storage order (`triton/quantization.py:1020`).
- Quantized tensors: `empty_like` on another device followed by `copy_` puts a
  device's form where it is not understood (`tensor/base.py:515`); `copy_` writes
  codes before scales that may not fit (`tensor/base.py:509`); AWQ scales keep
  their dtype under `.to(dtype)` (`tensor/awq_w4a16.py:113`); padding hides widths
  that differ (`tensor/nvfp4.py:236`); the SVDQuant linear reaches CUDA past the
  registry (`tensor/svdquant_w4a4.py:64`).
- Two threads that issue on one stream share its SVDQuant workspace: the second
  quantization may be issued before the first product
  (`cuda/__init__.py:4238`).

## 6. Not modelled

Arithmetic, rounding and the layout of tiles; the block-level work inside the
decode, GEMM and attention kernels; the closest-point traversal of the BVH. The
one-call and multi-step decode entry points beside the deferred one.
`list_backends` and the reasons of `mark_unavailable`, which only report. The
path of the W4A16 linear that bypasses the registry (it chooses an
implementation, not the bytes). The host side of the packed four-bit, attention
and spatial operators: their tables are modelled, not their functions. Of the
quantized tensors, embedding lookups, the grouped and fused SVDQuant linears and
the fused modulated norm of INT8. The NVFP4 tables of the eager backend: they hold
constants, and only when their memory is reused could something go wrong, which
the allocator decides. Delaunay and edge collapse decide by floating-point
predicates; attention helpers and build scripts keep no state.

## 7. What is left

1. The other decode entry points next to `DeferredDecode`, as refinements of
   `VerifyLoop` too.
2. The host side of the packed four-bit operators (`OperatorCalls` has their
   calls and tables already).
3. Two forwards on one stream in `DeviceCaches`, once the code says what callers
   may do.

Every module keeps its parameters as constants, has one action per operation and
no `RECURSIVE` operator. To run: `tlc -config X.cfg M` and `tlapm M.tla`, in this
directory; which module goes with which configuration is in `PROJECT.json`.
