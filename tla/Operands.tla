------------------------------- MODULE Operands -------------------------------
(***************************************************************************)
(* Operands of a dispatched call as its checks see them, and the constraints  *)
(* a backend declares for a function (constraints.py).                        *)
(*                                                                          *)
(* Data abstraction.  A tensor is its dtype, its shape and whether it is       *)
(* contiguous.  A dtype argument, and a Python scalar where a tensor may        *)
(* stand, is a tensor without a shape under its own name.  The operands of a     *)
(* call are on one device.  Integers, booleans and strings that a table only     *)
(* asks to be integers, booleans and strings are left out of the tables.         *)
(***************************************************************************)
EXTENDS Integers, Sequences, FiniteSets, SequencesExt, TLC, Sums

Tensor(dt, sh) == [dt |-> dt, sh |-> sh, contiguous |-> TRUE]
None == Tensor("none", <<>>)
Dtype(dt) == Tensor(dt, <<>>)
Scalar == <<>>

Rank(t) == Len(t.sh)
\* shape[i] with an index from the front, from 0, or from the back, from -1
Dim(t, i) == t.sh[IF i < 0 THEN Len(t.sh) + 1 + i ELSE i + 1]
LastDim(t) == t.sh[Len(t.sh)]
Numel(t) == ProductOf(Len(t.sh), t.sh)
WithLast(sh, n) == Front(sh) \o <<n>>
RoundUp(n, to) == ((n + to - 1) \div to) * to
Rows(t) == IF LastDim(t) = 0 THEN 0 ELSE Numel(t) \div LastDim(t)

Halves == {"f16", "bf16"}
Floats == {"f32"} \cup Halves
Fp8s == {"e4m3", "e5m2"}

-----------------------------------------------------------------------------
\* Shape rules.
DivisibleBy(dim, factor) == [rule |-> "divisible", dim |-> dim, n |-> factor]
MinDims(n) == [rule |-> "min", dim |-> 0, n |-> n]
ExactDims(n) == [rule |-> "exact", dim |-> 0, n |-> n]

Obeys(t, rule) ==
  CASE rule.rule = "divisible" -> Rank(t) > rule.dim /\ Dim(t, rule.dim) % rule.n = 0
    [] rule.rule = "min" -> Rank(t) >= rule.n
    [] rule.rule = "exact" -> Rank(t) = rule.n

\* ParamConstraint: dtypes and shape rules of one parameter.
Param(dtypes, rules) == [dtypes |-> dtypes, rules |-> rules]
Of(dtypes) == Param(dtypes, {})
OfRank(dtypes, n) == Param(dtypes, {ExactDims(n)})

\* As ValidParam, with the shape rules not looked at.
ValidDtype(value, constraint) == value = None \/ value.dt \in constraint.dtypes
\* validate_param: None passes.
ValidParam(value, constraint) ==
  \/ value = None
  \/ value.dt \in constraint.dtypes /\ \A rule \in constraint.rules : Obeys(value, rule)

\* As f @@ g of TLC, with a definition to prove from: f where both have an entry.
Over(f, g) == [key \in DOMAIN f \cup DOMAIN g |-> IF key \in DOMAIN f THEN f[key] ELSE g[key]]
f ++ g == Over(f, g)

\* FunctionConstraints: an entry of a backend's table.  cc is the least compute
\* capability, 10 * major + minor, or 0.  A call rule is named, its meaning is that
\* of CallRule in OperatorTables.
Entry(params) == [params |-> params, cc |-> 0, rules |-> {}]
From(cc, entry) == [entry EXCEPT !.cc = cc]
Ruled(rule, entry) == [entry EXCEPT !.rules = @ \cup {rule}]
Entries(ops, entry) == [op \in ops |-> entry]

\* kwargs.get(name)
Get(call, name) == IF name \in DOMAIN call THEN call[name] ELSE None

-----------------------------------------------------------------------------
\* What an implementation does with a call: it raises, it takes a strided operand's
\* storage for its elements or leaves a part of the result unwritten, it writes past
\* its result, or it returns tensors.
Raise == <<>>
Misread == <<Tensor("unspecified", Scalar)>>
Overrun == <<Tensor("overrun", Scalar)>>
Returns(ok, result) == IF ok THEN result ELSE Raise
Reads(operands, result) == IF \A t \in operands : t.contiguous THEN result ELSE Misread

Num(args, name, default) == IF name \in DOMAIN args THEN args[name] ELSE default
Has(args, name) == Get(args, name) # None

\* with_out_param
WithOutParam(entry) == [entry EXCEPT !.params = @ ++ [out |-> OfRank(@["x"].dtypes, 5)]]

\* with_w4a8_packed_storage
WithPackedStorage(entry) ==
  [entry EXCEPT !.params = [name \in DOMAIN @ |->
     IF name \in {"qdata", "s_rel"} THEN OfRank(@[name].dtypes, 1) ELSE @[name]]]
=============================================================================
