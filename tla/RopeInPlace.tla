------------------------------ MODULE RopeInPlace ------------------------------
(***************************************************************************)
(* Rotary embedding, into fresh tensors or in place, of one tensor or of a     *)
(* query and key pair, with or without the RMS norm.  Views share storage; the  *)
(* threads of a kernel run in any order; kernels and copies of one call run     *)
(* one after the other, as on one stream.                                      *)
(*                                                                          *)
(* Data abstraction.  A view has its storage, offset, shape and strides, in      *)
(* elements of one size.  An element holds which element of which operand it     *)
(* was computed from and how many rotations are in it.  Batch, head and          *)
(* sequence are the outer dimensions.  The frequencies and the scales are one     *)
(* element each, read with every pair.                                           *)
(***************************************************************************)
EXTENDS Sums, Sequences, FiniteSets, SequencesExt, FiniteSetsExt

CONSTANTS RopeCalls, \* the calls a behaviour starts from
          MaxExtent  \* bound on a dimension

VARIABLES
  call,     \* the call, a record of RopeCalls
  memory,   \* [cell written so far -> what it holds]
  launches, \* kernels and copies still to start
  lane,     \* [thread of the running kernel -> operations it has done]
  read,     \* [thread -> [operand -> most rotations in what it read]]
  outcome   \* "called", "running", "raised" or "done"

vars == <<call, memory, launches, lane, read, outcome>>

View(store, offset, sh, st) == [store |-> store, offset |-> offset, sh |-> sh, st |-> st]

Indices(sh) == {i \in [1 .. Len(sh) -> 0 .. MaxExtent - 1] : \A d \in DOMAIN sh : i[d] < sh[d]}
Offset(v, i) == v.offset + Total(Len(v.sh), [d \in DOMAIN v.sh |-> i[d] * v.st[d]])
Cell(v, i) == <<v.store, Offset(v, i)>>

\* The size of the last dims dimensions.
Block(sh, dims) ==
  LET size[j \in 0 .. Len(sh)] == IF j = 0 THEN 1 ELSE size[j - 1] * sh[Len(sh) - j + 1]
  IN  size[dims]
Contiguous(store, sh) == View(store, 0, sh, [d \in DOMAIN sh |-> Block(sh, Len(sh) - d)])

-----------------------------------------------------------------------------
(* _rope_utils *)

StorageBounds(v) ==
  [lo |-> v.offset, hi |-> Offset(v, [d \in DOMAIN v.sh |-> v.sh[d] - 1])]

\* The trailing dimensions that fill a block without holes.
Packed(v) ==
  Max({m \in 0 .. Len(v.sh) : \A j \in 0 .. m - 1 : v.st[Len(v.sh) - j] = Block(v.sh, j)})

\* As InterleavedDisjoint, with the end of the block left unchecked.
InterleavedByStart(x, y) ==
  /\ x.sh = y.sh /\ x.st = y.st /\ Last(x.st) = 1
  /\ LET outer == {x.st[d] : d \in {d \in 1 .. Len(x.sh) - Packed(x) : x.sh[d] > 1}}
         period == Min(outer)
         delta == IF x.offset > y.offset THEN x.offset - y.offset ELSE y.offset - x.offset
     IN  /\ outer # {}
         /\ period > 0 /\ \A s \in outer : s % period = 0
         /\ delta >= Block(x.sh, Packed(x)) /\ delta < period

InterleavedDisjoint(x, y) ==
  /\ x.sh = y.sh /\ x.st = y.st /\ Last(x.st) = 1
  /\ LET outer == {x.st[d] : d \in {d \in 1 .. Len(x.sh) - Packed(x) : x.sh[d] > 1}}
         extent == Block(x.sh, Packed(x))
         period == Min(outer)
         delta == IF x.offset > y.offset THEN x.offset - y.offset ELSE y.offset - x.offset
     IN  /\ outer # {}
         /\ period > 0 /\ \A s \in outer : s % period = 0
         /\ delta >= extent /\ delta + extent <= period

TensorsOverlap(x, y) ==
  /\ Indices(x.sh) # {} /\ Indices(y.sh) # {}
  /\ x.store = y.store
  /\ Max({StorageBounds(x).lo, StorageBounds(y).lo}) <= Min({StorageBounds(x).hi, StorageBounds(y).hi})
  /\ ~InterleavedDisjoint(x, y)

\* The code sorts the strides and compares each with the span of the one before it; as
\* spans then only grow, that is a comparison of any two.
InternalOverlap(v) ==
  LET sized == {d \in DOMAIN v.sh : v.sh[d] > 1}
      span(d) == v.st[d] * v.sh[d]
  IN  \/ \E d \in sized : v.st[d] < 1
      \/ \E d, o \in sized : d # o /\ span(d) > v.st[o] /\ span(o) > v.st[d]

\* check_rope_inplace passes
InPlaceAllowed(xs, readonly) ==
  /\ \A j \in DOMAIN xs : ~InternalOverlap(xs[j])
  /\ Len(xs) = 2 => ~TensorsOverlap(xs[1], xs[2])
  /\ \A j \in DOMAIN xs, source \in readonly : ~TensorsOverlap(xs[j], source)

-----------------------------------------------------------------------------
(* What a backend launches: [rotate, names, into] or a copy of one operand. *)

Operands(c) == IF c.two THEN <<"q", "k">> ELSE <<"q">>
Readonly(c) == {c.freqs} \cup (IF c.rms THEN {c.scale} ELSE {})
Fresh(c, name) == Contiguous(IF name = "q" THEN "out_q" ELSE "out_k", c[name].sh)
Partial(c) == c.rot # Last(c.q.sh)

Rotate(names, fresh) == [kind |-> "rotate", names |-> names, fresh |-> fresh]
Copy(name) == [kind |-> "copy", names |-> <<name>>, fresh |-> TRUE]
Joint(c) == <<Rotate(Operands(c), ~c.inplace)>>
ApartInto(c, fresh) == [j \in DOMAIN Operands(c) |-> Rotate(<<Operands(c)[j]>>, fresh)]
Apart(c) == ApartInto(c, ~c.inplace)
EffectiveStrides(v) == SelectSeq([d \in DOMAIN v.sh |-> <<v.st[d], v.sh[d]>>], LAMBDA d : d[2] # 1)

\* The functional result, then copy_ over each operand.
EagerRope(c) ==
  ApartInto(c, TRUE)
    \o (IF c.inplace THEN [j \in DOMAIN Operands(c) |-> Copy(Operands(c)[j])] ELSE <<>>)
EagerRmsRope(c) == EagerRope(c)
AscendRope(c) == EagerRope(c)
AscendRmsRope(c) == EagerRope(c)

CudaRope(c) == IF c.two /\ c.q.sh # c.k.sh THEN Apart(c) ELSE Joint(c)
CudaRmsRope(c) ==
  IF c.two /\ c.q.sh # c.k.sh THEN IF Partial(c) THEN EagerRope(c) ELSE Apart(c) ELSE Joint(c)

HipRope(c) ==
  IF c.two /\ (\/ c.q.sh # c.k.sh
               \/ c.inplace /\ EffectiveStrides(c.q) # EffectiveStrides(c.k))
  THEN Apart(c) ELSE Joint(c)
HipRmsRope(c) == HipRope(c)

TritonRope(c) == IF c.two /\ (c.q.sh # c.k.sh \/ c.q.st # c.k.st) THEN Apart(c) ELSE Joint(c)
TritonRmsRope(c) == IF Partial(c) THEN EagerRope(c) ELSE Apart(c)

XpuRope(c) == IF c.two /\ c.q.sh # c.k.sh THEN Apart(c) ELSE Joint(c)
XpuRmsRope(c) == XpuRope(c)

Plan(c) ==
  CASE c.backend = "eager" -> IF c.rms THEN EagerRmsRope(c) ELSE EagerRope(c)
    [] c.backend = "ascend" -> IF c.rms THEN AscendRmsRope(c) ELSE AscendRope(c)
    [] c.backend = "cuda" -> IF c.rms THEN CudaRmsRope(c) ELSE CudaRope(c)
    [] c.backend = "hip" -> IF c.rms THEN HipRmsRope(c) ELSE HipRope(c)
    [] c.backend = "triton" -> IF c.rms THEN TritonRmsRope(c) ELSE TritonRope(c)
    [] c.backend = "xpu" -> IF c.rms THEN XpuRmsRope(c) ELSE XpuRope(c)

-----------------------------------------------------------------------------
(* Threads: one to a pair of a row, or to an element past the rotated part. *)

Pairs(c) ==
  {IF c.split THEN {j, j + c.rot \div 2} ELSE {2 * j, 2 * j + 1} : j \in 0 .. c.rot \div 2 - 1}
Parts(c) == Pairs(c) \cup {{d} : d \in c.rot .. Last(c.q.sh) - 1}
Threads(c, launch) ==
  {[row |-> row, part |-> part] : row \in Indices(Front(c[launch.names[1]].sh)),
                                  part \in IF launch.kind = "copy" THEN {0 .. Last(c.q.sh) - 1} ELSE Parts(c)}

\* The norm of a row is summed by all of its threads before one goes on.  The
\* kernels read both operands before they write; Triton's finishes the query first.
ThreadOps(c, launch) ==
  LET each(do) == [j \in DOMAIN launch.names |-> <<do, launch.names[j]>>]
      turn(j) == <<<<"read", launch.names[j]>>, <<"write", launch.names[j]>>>>
  IN  IF launch.kind = "copy" THEN each("copy")
      ELSE (IF c.rms THEN each("sum") ELSE <<>>)
             \o (IF c.backend # "triton" THEN each("read") \o each("write")
                 ELSE IF Len(launch.names) = 1 THEN turn(1) ELSE turn(1) \o turn(2))

At(t, d) == Append(t.row, d)
Untouched == [of |-> <<"", <<>>>>, turns |-> 0]
Holds(cell) == IF cell \in DOMAIN memory THEN memory[cell] ELSE Untouched
Most(cells) == Max({Holds(cell).turns : cell \in cells})
Written(f) ==
  [cell \in DOMAIN f \cup DOMAIN memory |-> IF cell \in DOMAIN f THEN f[cell] ELSE memory[cell]]

Perform(t, launch, op) ==
  LET name == op[2]
      view == call[name]
      into == IF launch.fresh THEN Fresh(call, name) ELSE view
      reads(ds) == read' = [read EXCEPT ![t][name] = Max({@, Most({Cell(view, At(t, d)) : d \in ds}
                              \cup {Cell(source, <<0>>) : source \in Readonly(call)})})]
  IN  \/ op[1] = "sum" /\ reads(0 .. Last(view.sh) - 1) /\ UNCHANGED memory
      \/ op[1] = "read" /\ reads(t.part) /\ UNCHANGED memory
      \/ /\ op[1] = "write"
         /\ memory' = Written([cell \in {Cell(into, At(t, d)) : d \in t.part} |->
                        [of |-> <<name, At(t, CHOOSE d \in t.part : Cell(into, At(t, d)) = cell)>>,
                         turns |-> read[t][name] + 1]])
         /\ UNCHANGED read
      \/ /\ op[1] = "copy"
         /\ memory' = Written([cell \in {Cell(view, At(t, d)) : d \in t.part} |->
                        Holds(Cell(into, At(t, CHOOSE d \in t.part : Cell(view, At(t, d)) = cell)))])
         /\ UNCHANGED read

Idle == \A t \in DOMAIN lane : lane[t] = Len(ThreadOps(call, Head(launches)))

Step(t) ==
  /\ outcome = "running" /\ ~Idle
  /\ LET ops == ThreadOps(call, Head(launches))
     IN  /\ lane[t] < Len(ops)
         /\ ops[lane[t] + 1][1] # "sum" =>
              \A u \in DOMAIN lane : u.row = t.row =>
                lane[u] >= Cardinality({j \in DOMAIN ops : ops[j][1] = "sum"})
         /\ Perform(t, Head(launches), ops[lane[t] + 1])
  /\ lane' = [lane EXCEPT ![t] = @ + 1]
  /\ UNCHANGED <<call, launches, outcome>>

Starts(plan) ==
  /\ launches' = plan
  /\ lane' = [t \in IF plan = <<>> THEN {} ELSE Threads(call, Head(plan)) |-> 0]
  /\ read' = [t \in DOMAIN lane' |-> [q |-> 0, k |-> 0]]
  /\ outcome' = IF plan = <<>> THEN "done" ELSE "running"

CallInPlace ==
  /\ outcome = "called" /\ call.inplace
  /\ IF InPlaceAllowed([j \in DOMAIN Operands(call) |-> call[Operands(call)[j]]], Readonly(call))
     THEN Starts(Plan(call))
     ELSE outcome' = "raised" /\ UNCHANGED <<launches, lane, read>>
  /\ UNCHANGED <<call, memory>>

CallFunctional ==
  /\ outcome = "called" /\ ~call.inplace
  /\ Starts(Plan(call))
  /\ UNCHANGED <<call, memory>>

NextLaunch ==
  /\ outcome = "running" /\ Idle
  /\ Starts(Tail(launches))
  /\ UNCHANGED <<call, memory>>

Init ==
  /\ call \in RopeCalls
  /\ memory = <<>>
  /\ launches = <<>>
  /\ lane = <<>>
  /\ read = <<>>
  /\ outcome = "called"

Next == CallInPlace \/ CallFunctional \/ NextLaunch \/ \E t \in DOMAIN lane : Step(t)

-----------------------------------------------------------------------------
TypeOK ==
  /\ outcome \in {"called", "running", "raised", "done"}
  /\ outcome = "called" => call \in RopeCalls
  /\ DOMAIN read = DOMAIN lane
  /\ \A t \in DOMAIN lane : lane[t] \in 0 .. Len(ThreadOps(call, Head(launches)))
  /\ \A cell \in DOMAIN memory : memory[cell].turns \in Nat

\* Whatever the order of the threads and however the operands share storage, a
\* call that is not refused leaves in each operand, or in the fresh results, every
\* element rotated once from the values the call began with, and writes nothing else
\* (_rope_utils.py:91-121; the in-place operators are the functional ones,
\* eager/rope.py:155-198).
RotatedOnce ==
  outcome = "done" =>
    LET dest(name) == IF call.inplace THEN call[name] ELSE Fresh(call, name)
        names == {Operands(call)[j] : j \in DOMAIN Operands(call)}
        targets == UNION {{Cell(dest(name), i) : i \in Indices(call[name].sh)} : name \in names}
        scratch == IF Plan(call) = EagerRope(call) THEN {"out_q", "out_k"} ELSE {}
    IN  /\ \A name \in names : \A i \in Indices(call[name].sh) :
             Holds(Cell(dest(name), i)) = [of |-> <<name, i>>, turns |-> 1]
        /\ \A cell \in DOMAIN memory : cell \in targets \/ cell[1] \in scratch
=============================================================================
