-------------------------- MODULE OperatorCalls_proofs --------------------------
(***************************************************************************)
(* Proofs about OperatorCalls: the linears of the quantized layouts, for any   *)
(* platforms, any matrices, activations and rotations the assumptions admit,   *)
(* and any choice among the backends that accept a call.                      *)
(*                                                                          *)
(* First the tables: in which of them an operator is and under which          *)
(* constraints.  A call is Offered when eager accepts it, so that some backend *)
(* does, and each that accepts it returns what the custom op declares, or      *)
(* raises as eager does; it is Served when each that accepts it returns what   *)
(* the custom op declares, or raises for what its table does not state.  Each  *)
(* call a layout makes is one or the other, with arguments that are made here   *)
(* from the dtype and the sizes of the matrices: the quantizers, dequantizers   *)
(* and the INT8 linear are served, the FP8 and block-scaled products are        *)
(* offered and may raise, which their handlers answer with the plain linear.    *)
(*                                                                          *)
(* The invariant (CallsInvariant) says that what is held has the form the      *)
(* layout gives a matrix (QuantizedForm): from it follow the arguments of the  *)
(* calls to come, and that a fallback dequantizes to the shape it began with.  *)
(***************************************************************************)
EXTENDS OperatorCalls, Iteration, SequenceTheorems, TLAPS

-----------------------------------------------------------------------------
(* What the tables of a platform say of the modelled operators. *)

LEMMA OverDomain == ASSUME NEW f, NEW g, NEW k PROVE k \in DOMAIN Over(f, g) <=> k \in DOMAIN f \/ k \in DOMAIN g
BY DEF Over
LEMMA OverFirst == ASSUME NEW f, NEW g, NEW k \in DOMAIN f PROVE Over(f, g)[k] = f[k]
BY DEF Over
LEMMA OverSecond == ASSUME NEW f, NEW g, NEW k, k \in DOMAIN g, k \notin DOMAIN f PROVE Over(f, g)[k] = g[k]
BY DEF Over
LEMMA EntriesDomain == ASSUME NEW ops, NEW entry PROVE DOMAIN Entries(ops, entry) = ops
BY DEF Entries

RopeOps == RopeOne \cup RopeTwo \cup RmsRopeOne \cup RmsRopeTwo
LEMMA RopeDomains ==
  ASSUME NEW op, NEW x0
  PROVE  /\ op \in DOMAIN EagerRope <=> op \in RopeOps
         /\ op \in DOMAIN TritonRope <=> op \in RopeOps
         /\ op \in DOMAIN NativeRope(x0) => op \in RopeOps
         /\ op \in DOMAIN NativeRmsRope(x0) => op \in RopeOps
         /\ op \in DOMAIN CudaRope => op \in RopeOps
BY OverDomain, EntriesDomain DEF EagerRope, TritonRope, NativeRope, NativeRmsRope, CudaRope, ++, RopeOps
LEMMA SpatialDomains ==
  ASSUME NEW op
  PROVE  /\ op \in DOMAIN EagerSpatial <=> op \in {"adaln", "rms_adaln", "fp16_conv3d", "group_norm_silu_pad3d", "group_norm_stats3d"}
         /\ op \in DOMAIN Spatial16 <=> op \in {"adaln", "rms_adaln", "fp16_conv3d", "group_norm_silu_pad3d", "group_norm_stats3d"}
BY OverDomain, EntriesDomain DEF EagerSpatial, Spatial16, ++

LEMMA NotRope == ASSUME NEW op \in Modelled PROVE op \notin RopeOps
BY DEF RopeOps, RopeOne, RopeTwo, RmsRopeOne, RmsRopeTwo, Modelled, Fp8Fp4Ops, Int8Ops

\* The eager table has the entries of its sections.
EagerOwn ==
  EagerSpatial ++ EagerFp8 ++ EagerNvfp4 ++ EagerRope ++ EagerSVDQuant ++ EagerConvRot ++ EagerW4A8
  ++ EagerAWQ ++ EagerGguf ++ EagerSVDQuantW4A16 ++ EagerInt8 ++ EagerLinear ++ EagerMxfp8 ++ EagerAttention
LEMMA EagerKeeps == ASSUME NEW op \in DOMAIN EagerOwn PROVE op \in DOMAIN EagerTable /\ EagerTable[op] = EagerOwn[op]
BY OverDomain, OverFirst DEF EagerTable, WithDerived, ++, EagerOwn
LEMMA EagerFp8Entry == ASSUME NEW op \in DOMAIN EagerFp8 PROVE op \in DOMAIN EagerTable /\ EagerTable[op] = EagerFp8[op]
<1>1. op \notin DOMAIN EagerSpatial
  BY SpatialDomains DEF EagerFp8
<1>2. op \in DOMAIN EagerOwn /\ EagerOwn[op] = EagerFp8[op]
  BY <1>1, OverDomain, OverFirst, OverSecond DEF ++, EagerOwn
<1> QED BY <1>2, EagerKeeps
LEMMA EagerNvfp4Entry == ASSUME NEW op \in DOMAIN EagerNvfp4 PROVE op \in DOMAIN EagerTable /\ EagerTable[op] = EagerNvfp4[op]
<1>1. op \notin DOMAIN EagerSpatial /\ op \notin DOMAIN EagerFp8
  BY SpatialDomains DEF EagerFp8, EagerNvfp4
<1>2. op \in DOMAIN EagerOwn /\ EagerOwn[op] = EagerNvfp4[op]
  BY <1>1, OverDomain, OverFirst, OverSecond DEF ++, EagerOwn
<1> QED BY <1>2, EagerKeeps
LEMMA EagerInt8Entry == ASSUME NEW op \in DOMAIN EagerInt8, op \in Int8Ops PROVE op \in DOMAIN EagerTable /\ EagerTable[op] = EagerInt8[op]
<1>1. /\ op \notin DOMAIN EagerSpatial /\ op \notin DOMAIN EagerFp8 /\ op \notin DOMAIN EagerNvfp4 /\ op \notin DOMAIN EagerRope
      /\ op \notin DOMAIN EagerSVDQuant /\ op \notin DOMAIN EagerConvRot /\ op \notin DOMAIN EagerW4A8
      /\ op \notin DOMAIN EagerAWQ /\ op \notin DOMAIN EagerGguf /\ op \notin DOMAIN EagerSVDQuantW4A16
  BY SpatialDomains, RopeDomains, NotRope
  DEF EagerFp8, EagerNvfp4, EagerSVDQuant, EagerConvRot, EagerW4A8, EagerAWQ, EagerGguf, EagerSVDQuantW4A16, EagerInt8, Modelled, Int8Ops
<1>2. op \in DOMAIN EagerOwn /\ EagerOwn[op] = EagerInt8[op]
  BY <1>1, OverDomain, OverFirst, OverSecond DEF ++, EagerOwn
<1> QED BY <1>2, EagerKeeps
LEMMA EagerLinearEntry == "int8_linear" \in DOMAIN EagerTable /\ EagerTable["int8_linear"] = EagerLinear["int8_linear"]
<1> DEFINE op == "int8_linear"
<1>1. /\ op \notin DOMAIN EagerSpatial /\ op \notin DOMAIN EagerFp8 /\ op \notin DOMAIN EagerNvfp4 /\ op \notin DOMAIN EagerRope
      /\ op \notin DOMAIN EagerSVDQuant /\ op \notin DOMAIN EagerConvRot /\ op \notin DOMAIN EagerW4A8
      /\ op \notin DOMAIN EagerAWQ /\ op \notin DOMAIN EagerGguf /\ op \notin DOMAIN EagerSVDQuantW4A16 /\ op \notin DOMAIN EagerInt8
  BY SpatialDomains, RopeDomains, NotRope
  DEF EagerFp8, EagerNvfp4, EagerSVDQuant, EagerConvRot, EagerW4A8, EagerAWQ, EagerGguf, EagerSVDQuantW4A16, EagerInt8, Modelled, Int8Ops
<1>2. op \in DOMAIN EagerLinear
  BY DEF EagerLinear
<1>3. op \in DOMAIN EagerOwn /\ EagerOwn[op] = EagerLinear[op]
  BY <1>1, <1>2, OverDomain, OverFirst, OverSecond DEF ++, EagerOwn
<1> QED BY <1>3, EagerKeeps
LEMMA EagerMxfp8Entry == ASSUME NEW op \in DOMAIN EagerMxfp8 PROVE op \in DOMAIN EagerTable /\ EagerTable[op] = EagerMxfp8[op]
<1>1. /\ op \notin DOMAIN EagerSpatial /\ op \notin DOMAIN EagerFp8 /\ op \notin DOMAIN EagerNvfp4 /\ op \notin DOMAIN EagerRope
      /\ op \notin DOMAIN EagerSVDQuant /\ op \notin DOMAIN EagerConvRot /\ op \notin DOMAIN EagerW4A8
      /\ op \notin DOMAIN EagerAWQ /\ op \notin DOMAIN EagerGguf /\ op \notin DOMAIN EagerSVDQuantW4A16 /\ op \notin DOMAIN EagerInt8
      /\ op \notin DOMAIN EagerLinear
  BY SpatialDomains, RopeDomains, NotRope
  DEF EagerFp8, EagerNvfp4, EagerSVDQuant, EagerConvRot, EagerW4A8, EagerAWQ, EagerGguf, EagerSVDQuantW4A16, EagerInt8, EagerLinear,
      EagerMxfp8, Modelled, Fp8Fp4Ops
<1>2. op \in DOMAIN EagerOwn /\ EagerOwn[op] = EagerMxfp8[op]
  BY <1>1, OverDomain, OverFirst, OverSecond DEF ++, EagerOwn
<1> QED BY <1>2, EagerKeeps

\* The backends that implement an FP8 or FP4 operator.
Implementers(op) ==
  CASE op \in {"quantize_per_tensor_fp8", "dequantize_per_tensor_fp8"} -> {"eager", "cuda", "hip", "triton", "xpu"}
    [] op = "stochastic_rounding_fp8" -> {"eager", "cuda", "hip", "xpu"}
    [] op \in {"quantize_nvfp4", "dequantize_nvfp4", "quantize_mxfp8"} -> {"eager", "cuda", "triton"}
    [] op = "scaled_mm_nvfp4" -> {"eager", "cuda"}
    [] op \in {"dequantize_mxfp8", "scaled_mm_mxfp8"} -> {"eager"}

LEMMA TritonImplements == ASSUME NEW op \in Fp8Fp4Ops, op \in DOMAIN TritonTable PROVE "triton" \in Implementers(op)
<1>1. op \notin DOMAIN TritonRope
  BY RopeDomains, NotRope DEF Modelled
<1> QED BY <1>1, OverDomain, EntriesDomain DEF TritonTable, TritonFp8, TritonFp4, TritonInt8, TritonNa3d, ++, Implementers, Fp8Fp4Ops

LEMMA WithOut == ASSUME NEW table, NEW op, op \in DOMAIN WithOutEntries(table)
                 PROVE op \in DOMAIN table \/ op \in {"fp16_conv3d_out", "group_norm_silu_pad3d_out"}
BY OverDomain DEF WithOutEntries, ++

LEMMA CudaImplements == ASSUME NEW c, NEW op \in Fp8Fp4Ops, op \in DOMAIN CudaTable(c) PROVE "cuda" \in Implementers(op)
<1>1. op \notin DOMAIN CudaRope /\ op \notin DOMAIN Spatial16
  BY RopeDomains, SpatialDomains, NotRope DEF Modelled, Fp8Fp4Ops
<1>2. \/ op \in DOMAIN CudaAttention \/ op \in DOMAIN CudaMesh \/ op \in DOMAIN NativeFp8 \/ op \in DOMAIN CudaFp4
      \/ op \in DOMAIN CudaInt8 \/ op \in DOMAIN CudaW4A8 \/ op \in DOMAIN CudaInt4 \/ op \in {"fp16_linear"}
      \/ op \in DOMAIN (IF c THEN CudaCublasLt ELSE <<>>)
      \/ op \in {"fp16_conv3d_out", "group_norm_silu_pad3d_out"}
  BY <1>1, OverDomain, WithOut DEF CudaTable, ++
<1>3. op \in DOMAIN (IF c THEN CudaCublasLt ELSE <<>>) => op \in DOMAIN CudaCublasLt
  BY DEF Fp8Fp4Ops
<1> QED BY <1>2, <1>3
    DEF CudaAttention, CudaMesh, NativeFp8, CudaFp4, CudaInt8, CudaW4A8, CudaInt4, CudaCublasLt, Implementers, Fp8Fp4Ops

LEMMA HipSections ==
  ASSUME NEW wmma, NEW op \in Modelled, op \in DOMAIN HipTable(wmma)
  PROVE  op \in DOMAIN NativeFp8 \/ op \in DOMAIN HipInt8
<1> DEFINE own == HipAttention ++ NativeFp8 ++ HipInt8 ++ HipInt4 ++ Spatial16
                  ++ [fp16_linear |-> Fp16Linear] ++ NativeRope(F4) ++ NativeRmsRope(F4)
<1>1. op \in DOMAIN WithOutEntries(own)
  BY DEF HipTable, Without
<1>2. op \notin {"fp16_conv3d_out", "group_norm_silu_pad3d_out", "fp16_linear"}
  BY DEF Modelled, Fp8Fp4Ops, Int8Ops
<1>3. op \in DOMAIN own
  <2> HIDE DEF own
  <2> QED BY <1>1, <1>2, WithOut
<1>4. /\ op \notin DOMAIN NativeRope(F4) /\ op \notin DOMAIN NativeRmsRope(F4) /\ op \notin DOMAIN Spatial16
      /\ op \notin DOMAIN HipAttention /\ op \notin DOMAIN HipInt4
  BY RopeDomains, SpatialDomains, NotRope DEF Modelled, Fp8Fp4Ops, Int8Ops, HipAttention, HipInt4
<1> QED BY <1>2, <1>3, <1>4, OverDomain DEF ++

LEMMA HipImplements == ASSUME NEW wmma, NEW op \in Fp8Fp4Ops, op \in DOMAIN HipTable(wmma) PROVE "hip" \in Implementers(op)
<1>1. op \notin DOMAIN HipInt8
  BY OverDomain, EntriesDomain DEF HipInt8, ++, Fp8Fp4Ops
<1>2. op \in DOMAIN NativeFp8
  BY <1>1, HipSections DEF Modelled
<1> QED BY <1>2 DEF NativeFp8, Implementers

LEMMA XpuImplements == ASSUME NEW has, NEW op \in Fp8Fp4Ops, op \in DOMAIN XpuTable(has) PROVE "xpu" \in Implementers(op)
<1>1. op \notin DOMAIN NativeRope(F4) /\ op \notin DOMAIN NativeRmsRope(F4)
  BY RopeDomains, NotRope DEF Modelled
<1>2. op \notin DOMAIN XpuSpatial(has)
  <2>1. DOMAIN XpuSpatial(has) \subseteq
          {"adaln", "rms_adaln", "group_norm_stats3d", "group_norm_silu_pad3d", "group_norm_silu_pad3d_out",
           "fp16_linear", "fp16_conv3d", "fp16_conv3d_out"}
    BY DEF XpuSpatial
  <2> QED BY <2>1 DEF Fp8Fp4Ops
<1>3. /\ op \notin DOMAIN XpuW4A8 /\ op \notin DOMAIN XpuSVDQuant /\ op \notin DOMAIN XpuSVDQuantW4A16
      /\ op \notin DOMAIN XpuAWQ /\ op \notin DOMAIN XpuConvRot
      /\ op \notin {"dequantize_gguf", "sol_attn"} /\ op \notin DOMAIN <<>>
  BY DEF Fp8Fp4Ops, XpuW4A8, XpuSVDQuant, XpuSVDQuantW4A16, XpuAWQ, XpuConvRot
<1>4. op \in DOMAIN NativeFp8 \/ op \in DOMAIN XpuInt8(has)
  BY <1>1, <1>2, <1>3, OverDomain DEF XpuTable, ++
<1>5. op \notin DOMAIN XpuInt8(has)
  BY <1>3, OverDomain DEF XpuInt8, ++, Fp8Fp4Ops
<1>6. op \in DOMAIN NativeFp8 => "xpu" \in Implementers(op)
  BY DEF NativeFp8, Implementers
<1> QED BY <1>4, <1>5, <1>6

LEMMA AscendImplements == ASSUME NEW has, NEW op \in Fp8Fp4Ops PROVE op \notin DOMAIN AscendTable(has)
<1>1. op \notin DOMAIN AscendRope(has)
  BY RopeDomains, NotRope, OverDomain DEF AscendRope, ++, Modelled
<1>2. op \notin DOMAIN AscendInt8(has)
  BY OverDomain DEF AscendInt8, ++, Fp8Fp4Ops
<1> QED BY <1>1, <1>2, OverDomain DEF AscendTable, ++, Fp8Fp4Ops

\* What the proofs use of a platform's tables.
Platform(on) ==
  /\ "eager" \in DOMAIN on.tables /\ on.tables["eager"] = EagerTable
  /\ \A b \in DOMAIN on.tables, op \in Fp8Fp4Ops : op \in DOMAIN on.tables[b] => b \in Implementers(op)

LEMMA EagerImplements == ASSUME NEW op \in Fp8Fp4Ops PROVE "eager" \in Implementers(op)
BY DEF Implementers, Fp8Fp4Ops

\* What Triton registers for a family is from its table.
LEMMA TablesOfBackends ==
  ASSUME NEW p, p.family \in {"cuda", "hip", "xpu", "ascend", "none"}
  PROVE  /\ "eager" \in DOMAIN Tables(p) /\ Tables(p)["eager"] = EagerTable
         /\ "cuda" \in DOMAIN Tables(p) => Tables(p)["cuda"] = CudaTable(p.option)
         /\ "hip" \in DOMAIN Tables(p) => Tables(p)["hip"] = HipTable(p.option)
         /\ "xpu" \in DOMAIN Tables(p) => Tables(p)["xpu"] = XpuTable(p.has)
         /\ "ascend" \in DOMAIN Tables(p) => Tables(p)["ascend"] = AscendTable(p.has)
         /\ "triton" \in DOMAIN Tables(p) =>
              \A op : op \in DOMAIN Tables(p)["triton"] => op \in DOMAIN TritonTable
         /\ DOMAIN Tables(p) \subseteq {"eager", "triton", "cuda", "hip", "xpu", "ascend"}
<1> DEFINE tr == [triton |-> Without(TritonTable, IF p.family = "xpu" THEN TritonCudaOnly ELSE {})]
           second == IF p.family \in {"cuda", "hip", "xpu"} THEN tr ELSE <<>>
           third == CASE p.family = "cuda" -> [cuda |-> CudaTable(p.option)]
                      [] p.family = "hip" -> [hip |-> HipTable(p.option)]
                      [] p.family = "xpu" -> [xpu |-> XpuTable(p.has)]
                      [] p.family = "ascend" -> [ascend |-> AscendTable(p.has)]
                      [] OTHER -> <<>>
           first == [eager |-> EagerTable]
<1>1. Tables(p) = Over(Over(first, second), third)
  BY DEF Tables, ++
<1>2. DOMAIN first = {"eager"} /\ first["eager"] = EagerTable
  OBVIOUS
<1>3. /\ DOMAIN second \subseteq {"triton"}
      /\ "triton" \in DOMAIN second => \A op : op \in DOMAIN second["triton"] => op \in DOMAIN TritonTable
  BY DEF Without
<1>4. /\ DOMAIN third \subseteq {"cuda", "hip", "xpu", "ascend"}
      /\ "cuda" \in DOMAIN third => third["cuda"] = CudaTable(p.option)
      /\ "hip" \in DOMAIN third => third["hip"] = HipTable(p.option)
      /\ "xpu" \in DOMAIN third => third["xpu"] = XpuTable(p.has)
      /\ "ascend" \in DOMAIN third => third["ascend"] = AscendTable(p.has)
  <2>1. CASE p.family = "cuda"
    BY <2>1
  <2>2. CASE p.family = "hip"
    BY <2>2
  <2>3. CASE p.family = "xpu"
    BY <2>3
  <2>4. CASE p.family = "ascend"
    BY <2>4
  <2>5. CASE p.family = "none"
    BY <2>5
  <2> QED BY <2>1, <2>2, <2>3, <2>4, <2>5
<1> HIDE DEF first, second, third
<1>5. \A b : b \in DOMAIN Tables(p) <=> b \in DOMAIN first \/ b \in DOMAIN second \/ b \in DOMAIN third
  BY <1>1, OverDomain
<1>6. "eager" \in DOMAIN Tables(p) /\ Tables(p)["eager"] = EagerTable
  BY <1>1, <1>2, OverDomain, OverFirst
<1>7. "triton" \in DOMAIN Tables(p) => "triton" \in DOMAIN second /\ Tables(p)["triton"] = second["triton"]
  BY <1>1, <1>2, <1>4, <1>5, OverDomain, OverFirst, OverSecond
<1>8. \A b \in DOMAIN third : b \notin DOMAIN Over(first, second) /\ Tables(p)[b] = third[b]
  BY <1>1, <1>2, <1>3, <1>4, OverDomain, OverSecond
<1>9. \A b \in {"cuda", "hip", "xpu", "ascend"} : b \in DOMAIN Tables(p) => b \in DOMAIN third
  BY <1>2, <1>3, <1>5
<1> QED BY <1>2, <1>3, <1>4, <1>5, <1>6, <1>7, <1>8, <1>9

LEMMA Platforms == ASSUME NEW name \in DOMAIN Profiles PROVE Platform(Devices[name])
<1> DEFINE p == Profiles[name]
           on == Devices[name]
<1>1. on.tables = Tables(p)
  BY DEF Devices
<1>2. p.family \in {"cuda", "hip", "xpu", "ascend", "none"}
  BY ProfilesAssumption
<1> HIDE DEF p, on
<1>3. ASSUME NEW b \in DOMAIN on.tables, NEW op \in Fp8Fp4Ops, op \in DOMAIN on.tables[b] PROVE b \in Implementers(op)
  <2>1. b \in {"eager", "triton", "cuda", "hip", "xpu", "ascend"}
    BY <1>1, <1>2, <1>3, TablesOfBackends
  <2>2. CASE b = "eager"
    BY <2>2, EagerImplements
  <2>3. CASE b = "triton"
    BY <1>1, <1>2, <1>3, <2>3, TablesOfBackends, TritonImplements
  <2>4. CASE b = "cuda"
    BY <1>1, <1>2, <1>3, <2>4, TablesOfBackends, CudaImplements
  <2>5. CASE b = "hip"
    BY <1>1, <1>2, <1>3, <2>5, TablesOfBackends, HipImplements
  <2>6. CASE b = "xpu"
    BY <1>1, <1>2, <1>3, <2>6, TablesOfBackends, XpuImplements
  <2>7. CASE b = "ascend"
    BY <1>1, <1>2, <1>3, <2>7, TablesOfBackends, AscendImplements
  <2> QED BY <2>1, <2>2, <2>3, <2>4, <2>5, <2>6, <2>7
<1> QED BY <1>1, <1>2, <1>3, TablesOfBackends DEF Platform, on

-----------------------------------------------------------------------------
(* Sizes. *)

LEMMA ScalarSize == ASSUME NEW dt PROVE Numel(Tensor(dt, Scalar)) = 1
BY SmallProducts DEF Numel, Tensor, Scalar

LEMMA MatrixSize == ASSUME NEW dt, NEW a \in Nat, NEW b \in Nat PROVE Numel(Tensor(dt, <<a, b>>)) = a * b
<1>1. Len(<<a, b>>) = 2 /\ <<a, b>>[1] = a /\ <<a, b>>[2] = b
  OBVIOUS
<1> QED BY <1>1, SmallProducts DEF Numel, Tensor

LEMMA LastOfPair ==
  ASSUME NEW sh, sh \in Seq(Nat), Len(sh) = 2, NEW n \in Nat
  PROVE  WithLast(sh, n) = <<sh[1], n>>
<1>1. PICK a \in Nat : a = sh[1]
  <2>1. 1 \in 1 .. Len(sh)
    OBVIOUS
  <2>2. sh[1] \in Nat
    BY <2>1, ElementOfSeq
  <2> QED BY <2>2
<1>2. PICK z : z = SubSeq(sh, 1, 1)
  OBVIOUS
<1>3. z \in Seq(Nat) /\ Len(z) = 1 /\ z[1] = a
  <2>1. \A i \in 1 .. 1 : sh[i] \in Nat
    BY <1>1
  <2> QED BY <1>1, <1>2, <2>1, SubSeqProperties
<1>4. Front(sh) = z
  BY <1>2 DEF Front
<1>5. PICK one : one = <<n>>
  OBVIOUS
<1>6. PICK q : q = z \o one
  OBVIOUS
<1>7. q \in Seq(Nat) /\ Len(q) = 2 /\ q[1] = a /\ q[2] = n
  <2>1. one \in Seq(Nat) /\ Len(one) = 1 /\ one[1] = n
    BY <1>5
  <2>2. /\ q \in Seq(Nat) /\ Len(q) = Len(z) + Len(one)
        /\ \A i \in 1 .. Len(z) + Len(one) : q[i] = IF i <= Len(z) THEN z[i] ELSE one[i - Len(z)]
    BY <1>3, <1>6, <2>1, ConcatProperties, Zenon
  <2> QED BY ONLY <1>3, <2>1, <2>2
<1>8. q = <<a, n>>
  BY <1>7
<1> QED BY <1>1, <1>4, <1>5, <1>6, <1>8 DEF WithLast

\* A tensor with no empty dimension has rows.
LEMMA HasRows ==
  ASSUME NEW t, t.sh \in Seq(Nat \ {0}), Len(t.sh) >= 1
  PROVE  Rows(t) > 0 /\ LastDim(t) \in Nat \ {0}
<1> DEFINE m == Len(t.sh)
<1>1. m \in Nat /\ m # 0 /\ \A s \in 1 .. m : t.sh[s] \in Nat \ {0}
  OBVIOUS
<1>2. PICK k \in Nat \ {0} : ProductOf(m, t.sh) = k * t.sh[m]
  BY <1>1, ProductPositive
<1>3. t.sh[m] \in Nat \ {0}
  BY <1>1
<1>4. (k * t.sh[m]) \div t.sh[m] = k
  BY <1>3
<1> QED BY <1>2, <1>3, <1>4 DEF Rows, LastDim, Numel

LEMMA RoundsUp == ASSUME NEW n \in Nat, NEW to \in {4, 128} PROVE RoundUp(n, to) \in Nat
<1>1. CASE to = 4
  BY <1>1 DEF RoundUp
<1>2. CASE to = 128
  BY <1>2 DEF RoundUp
<1> QED BY <1>1, <1>2

-----------------------------------------------------------------------------
(* What a dispatched call returns. *)

LEMMA Params == ASSUME NEW params PROVE Entry(params).params = params /\ Entry(params).cc = 0 /\ Entry(params).rules = {}
BY DEF Entry

LEMMA EagerTakes ==
  ASSUME NEW on, Platform(on), NEW op, NEW params, NEW args,
         op \in DOMAIN EagerTable, EagerTable[op] = Entry(params),
         \A name \in DOMAIN params : ValidParam(Get(args, name), params[name])
  PROVE  Accepts(on, "eager", op, args)
BY Params DEF Accepts, Validates, Platform

LEMMA IsOf == ASSUME NEW t, NEW dtypes, t.dt \in dtypes PROVE ValidParam(t, Of(dtypes))
BY DEF ValidParam, Of, Param
LEMMA IsOfRank == ASSUME NEW t, NEW dtypes, NEW r, t.dt \in dtypes, Rank(t) = r PROVE ValidParam(t, OfRank(dtypes, r))
<1>1. PICK rule : rule = ExactDims(r)
  OBVIOUS
<1>2. rule.rule = "exact" /\ rule.n = r
  BY <1>1 DEF ExactDims
<1>3. Obeys(t, rule)
  BY <1>2 DEF Obeys
<1>4. OfRank(dtypes, r).dtypes = dtypes /\ OfRank(dtypes, r).rules = {rule}
  BY <1>1 DEF OfRank, Param
<1> QED BY <1>3, <1>4 DEF ValidParam
LEMMA IsNone == ASSUME NEW constraint PROVE ValidParam(None, constraint)
BY DEF ValidParam

\* The reference would take the call, and every backend that takes it returns the tensors
\* declared, or raises where the reference may raise.
Offered(on, op, args) ==
  /\ Accepts(on, "eager", op, args)
  /\ \A b \in Capable(on, op, args) :
       /\ Run(on, b, op, args) \in {Raise, Declared(op, args)}
       /\ Run(on, "eager", op, args) # Raise => Run(on, b, op, args) = Declared(op, args)
\* Every backend that takes it returns the tensors declared, or raises for what its table
\* does not state.
Answers(on, b, op, args) ==
  \/ Run(on, b, op, args) = Declared(op, args)
  \/ Run(on, b, op, args) = Raise /\ Untabled(on, b, op, args)
Served(on, op, args) ==
  /\ Accepts(on, "eager", op, args)
  /\ \A b \in Capable(on, op, args) : Answers(on, b, op, args)

\* A call that raised for what no table states.
GivenUp(on, made) == made.result = Raise /\ Untabled(on, made.backend, made.op, made.args)
\* AgreesWithReference of a call made on a platform, of whole blocks and tiles.
Agrees(on, made) ==
  made.backend # "none" /\ made.op \in DOMAIN on.tables["eager"] =>
    /\ Accepts(on, "eager", made.op, made.args)
    /\ made.op \in Modelled /\ Run(on, "eager", made.op, made.args) # Raise =>
         made.result = Declared(made.op, made.args) \/ GivenUp(on, made)

LEMMA Dispatch ==
  ASSUME NEW on, Platform(on), NEW op \in Modelled, NEW args, Accepts(on, "eager", op, args),
         NEW made \in DispatchedOn(on, op, args)
  PROVE  /\ made.op = op /\ made.args = args
         /\ made.backend \in Capable(on, op, args)
         /\ made.result = Run(on, made.backend, op, args)
<1>1. "eager" \in Capable(on, op, args)
  BY DEF Capable, Platform
<1>2. PICK b \in Capable(on, op, args) : made = [op |-> op, args |-> args, backend |-> b, result |-> Run(on, b, op, args)]
  BY <1>1 DEF DispatchedOn
<1> QED BY <1>2

LEMMA OfferedAgrees ==
  ASSUME NEW on, Platform(on), NEW op \in Modelled, NEW args, Offered(on, op, args), NEW made \in DispatchedOn(on, op, args)
  PROVE  /\ Agrees(on, made) /\ made.op = op /\ made.args = args
         /\ made.result \in {Raise, Declared(op, args)}
<1>1. Accepts(on, "eager", op, args)
  BY DEF Offered
<1>2. /\ made.op = op /\ made.args = args /\ made.backend \in Capable(on, op, args)
      /\ made.result = Run(on, made.backend, op, args)
  BY <1>1, Dispatch
<1>3. /\ made.result \in {Raise, Declared(op, args)}
      /\ Run(on, "eager", op, args) # Raise => made.result = Declared(op, args)
  BY <1>2 DEF Offered
<1>4. Agrees(on, made)
  BY <1>1, <1>2, <1>3 DEF Agrees
<1> QED BY <1>2, <1>3, <1>4

LEMMA ServedReturns ==
  ASSUME NEW on, Platform(on), NEW op \in Modelled, NEW args, Served(on, op, args), NEW made \in DispatchedOn(on, op, args)
  PROVE  /\ Agrees(on, made) /\ made.op = op /\ made.args = args
         /\ made.result = Declared(op, args) \/ GivenUp(on, made)
<1>1. Accepts(on, "eager", op, args)
  BY DEF Served
<1>2. /\ made.op = op /\ made.args = args /\ made.backend \in Capable(on, op, args)
      /\ made.result = Run(on, made.backend, op, args)
  BY <1>1, Dispatch
<1>3. made.result = Declared(op, args) \/ GivenUp(on, made)
  BY <1>2 DEF Served, Answers, GivenUp
<1> QED BY <1>1, <1>2, <1>3 DEF Agrees

\* A backend that takes an FP8 or FP4 call implements it.
LEMMA CapableImplements ==
  ASSUME NEW on, Platform(on), NEW op \in Fp8Fp4Ops, NEW args, NEW b \in Capable(on, op, args)
  PROVE  b \in Implementers(op)
BY DEF Platform, Capable, Accepts

-----------------------------------------------------------------------------
(* The calls of the layouts. *)

LEMMA TensorFields == ASSUME NEW dt, NEW sh PROVE Tensor(dt, sh).dt = dt /\ Tensor(dt, sh).sh = sh /\ Tensor(dt, sh).contiguous
BY DEF Tensor

\* A call that meets its table and that every implementation answers as declared, or raises
\* at for what no table states, is served.
LEMMA ServedFp8Fp4 ==
  ASSUME NEW on, Platform(on), NEW op \in Fp8Fp4Ops, op \notin {"scaled_mm_nvfp4", "scaled_mm_mxfp8"},
         NEW params, NEW args, op \in DOMAIN EagerTable, EagerTable[op] = Entry(params),
         \A name \in DOMAIN params : ValidParam(Get(args, name), params[name]),
         \A b \in Implementers(op) :
           \/ RunFp8Fp4(b, on.compiles, op, args) = DeclaredFp8Fp4(op, args)
           \/ RunFp8Fp4(b, on.compiles, op, args) = Raise /\ Untabled(on, b, op, args)
  PROVE  Served(on, op, args)
<1>1. op \in Modelled /\ op \notin Int8Ops
  BY DEF Fp8Fp4Ops, Modelled, Int8Ops
<1>2. Accepts(on, "eager", op, args)
  BY EagerTakes
<1>3. ASSUME NEW b \in Capable(on, op, args) PROVE Answers(on, b, op, args)
  <2>1. Run(on, b, op, args) = RunFp8Fp4(b, on.compiles, op, args)
    BY <1>1 DEF Run
  <2>2. Declared(op, args) = DeclaredFp8Fp4(op, args)
    BY <1>1 DEF Declared
  <2> QED BY <2>1, <2>2, CapableImplements DEF Answers
<1> QED BY <1>2, <1>3 DEF Served

LEMMA ServedInt8 ==
  ASSUME NEW on, Platform(on), NEW op \in Int8Ops,
         NEW params, NEW args, op \in DOMAIN EagerTable, EagerTable[op] = Entry(params),
         \A name \in DOMAIN params : ValidParam(Get(args, name), params[name]),
         \A b \in Capable(on, op, args) :
           \/ RunInt8(b, on.has, op, args) = DeclaredInt8(op, args)
           \/ RunInt8(b, on.has, op, args) = Raise /\ Untabled(on, b, op, args)
  PROVE  Served(on, op, args)
<1>1. Accepts(on, "eager", op, args)
  BY EagerTakes
<1>2. op \notin Fp8Fp4Ops /\ op \notin {"scaled_mm_nvfp4", "scaled_mm_mxfp8"}
  BY DEF Int8Ops, Fp8Fp4Ops
<1>3. ASSUME NEW b \in Capable(on, op, args) PROVE Answers(on, b, op, args)
  <2>1. Run(on, b, op, args) = RunInt8(b, on.has, op, args)
    BY <1>2 DEF Run
  <2>2. Declared(op, args) = DeclaredInt8(op, args)
    BY DEF Declared
  <2> QED BY <2>1, <2>2 DEF Answers
<1> QED BY <1>1, <1>3 DEF Served

\* Two of the reasons.
LEMMA HalvesOnly == ASSUME NEW on, NEW op \in BlockQuantizers, NEW args, args.x.dt \notin Halves PROVE Untabled(on, "cuda", op, args)
BY DEF Untabled
LEMMA NotCompiled == ASSUME NEW on, NEW op, NEW args, ~(Formats(op, args) \subseteq on.compiles) PROVE Untabled(on, "triton", op, args)
BY DEF Untabled

LEMMA QuantizesFp8 ==
  ASSUME NEW on, Platform(on), NEW dt \in Floats, NEW sh, NEW args,
         args = [x |-> Tensor(dt, sh), scale |-> F32Scalar, output_type |-> Dtype("e4m3")]
  PROVE  /\ Served(on, "quantize_per_tensor_fp8", args)
         /\ Declared("quantize_per_tensor_fp8", args) = <<Tensor("e4m3", sh)>>
<1> DEFINE op == "quantize_per_tensor_fp8"
           params == [x |-> F, scale |-> S, output_type |-> Of(Fp8s)]
<1>1. op \in DOMAIN EagerTable /\ EagerTable[op] = Entry(params)
  BY EagerFp8Entry DEF EagerFp8
<1>2. op \in Fp8Fp4Ops /\ op \notin Int8Ops
  BY DEF Fp8Fp4Ops, Int8Ops
<1>3. /\ ValidParam(Get(args, "x"), F) /\ ValidParam(Get(args, "scale"), S)
      /\ ValidParam(Get(args, "output_type"), Of(Fp8s))
  BY TensorFields, IsOf DEF Get, F, S, F32Scalar, Dtype, Fp8s
<1>4. \A name \in DOMAIN params : ValidParam(Get(args, name), params[name])
  BY ONLY <1>3
<1>5. args.x = Tensor(dt, sh) /\ Numel(args.scale) = 1 /\ args.output_type.dt = "e4m3"
  BY ScalarSize, TensorFields DEF F32Scalar, Dtype
<1> HIDE DEF params
<1>6. Cast(args) = <<Tensor("e4m3", sh)>>
  BY <1>5, TensorFields DEF Cast
<1>7. ASSUME NEW b \in Implementers(op)
      PROVE  \/ RunFp8Fp4(b, on.compiles, op, args) = Cast(args)
             \/ RunFp8Fp4(b, on.compiles, op, args) = Raise /\ Untabled(on, b, op, args)
  <2>1. CASE b = "triton"
    <3>1. Formats(op, args) = {"e4m3"}
      BY <1>5 DEF Formats
    <3>2. RunFp8Fp4(b, on.compiles, op, args) = Returns("e4m3" \in Fp8s \cap on.compiles, Cast(args))
      BY <1>5, <2>1 DEF RunFp8Fp4, TritonQuantizeFp8
    <3> QED BY <2>1, <3>1, <3>2, NotCompiled DEF Returns, Fp8s
  <2>2. CASE b # "triton"
    BY <1>5, <1>7, <2>2
    DEF RunFp8Fp4, EagerQuantizeFp8, CudaQuantizeFp8, HipQuantizeFp8, XpuFp8, SingleScale, Returns, Fp8s, Implementers
  <2> QED BY <2>1, <2>2
<1>8. DeclaredFp8Fp4(op, args) = Cast(args) /\ Declared(op, args) = Cast(args)
  BY <1>2 DEF Declared, DeclaredFp8Fp4, DeclaredFp8
<1> QED BY <1>1, <1>2, <1>4, <1>6, <1>7, <1>8, ServedFp8Fp4

LEMMA DequantizesFp8 ==
  ASSUME NEW on, Platform(on), NEW dt \in Floats, NEW sh, NEW args,
         args = [x |-> Tensor("e4m3", sh), scale |-> F32Scalar, output_type |-> Dtype(dt)]
  PROVE  /\ Served(on, "dequantize_per_tensor_fp8", args)
         /\ Declared("dequantize_per_tensor_fp8", args) = <<Tensor(dt, sh)>>
<1> DEFINE op == "dequantize_per_tensor_fp8"
           params == [x |-> Of(Fp8s), scale |-> F, output_type |-> F]
<1>1. op \in DOMAIN EagerTable /\ EagerTable[op] = Entry(params)
  BY EagerFp8Entry DEF EagerFp8
<1>2. op \in Fp8Fp4Ops /\ op \notin Int8Ops
  BY DEF Fp8Fp4Ops, Int8Ops
<1>3. /\ ValidParam(Get(args, "x"), Of(Fp8s)) /\ ValidParam(Get(args, "scale"), F)
      /\ ValidParam(Get(args, "output_type"), F)
  BY TensorFields, IsOf DEF Get, F, Floats, F32Scalar, Dtype, Fp8s
<1>4. \A name \in DOMAIN params : ValidParam(Get(args, name), params[name])
  BY ONLY <1>3
<1>5. /\ args.x = Tensor("e4m3", sh) /\ args.x.contiguous
      /\ Numel(args.scale) = 1 /\ args.output_type.dt = dt
  BY ScalarSize, TensorFields DEF F32Scalar, Dtype
<1> HIDE DEF params
<1>6. Cast(args) = <<Tensor(dt, sh)>>
  BY <1>5, TensorFields DEF Cast
<1>7. ASSUME NEW b \in Implementers(op)
      PROVE  \/ RunFp8Fp4(b, on.compiles, op, args) = Cast(args)
             \/ RunFp8Fp4(b, on.compiles, op, args) = Raise /\ Untabled(on, b, op, args)
  <2>1. CASE b = "triton"
    <3>1. args.x.dt = "e4m3"
      BY <1>5, TensorFields
    <3>2. Formats(op, args) = {"e4m3"}
      BY <3>1 DEF Formats
    <3>3. RunFp8Fp4(b, on.compiles, op, args) = Returns("e4m3" \in on.compiles, Cast(args))
      BY <2>1, <3>1 DEF RunFp8Fp4, TritonDequantizeFp8
    <3> QED BY <2>1, <3>2, <3>3, NotCompiled DEF Returns
  <2>2. CASE b # "triton"
    BY <1>5, <1>7, <2>2
    DEF RunFp8Fp4, EagerDequantizeFp8, CudaDequantizeFp8, HipDequantizeFp8, XpuFp8, SingleScale, Returns, Reads, Implementers
  <2> QED BY <2>1, <2>2
<1>8. DeclaredFp8Fp4(op, args) = Cast(args) /\ Declared(op, args) = Cast(args)
  BY <1>2 DEF Declared, DeclaredFp8Fp4, DeclaredFp8
<1> QED BY <1>1, <1>2, <1>4, <1>6, <1>7, <1>8, ServedFp8Fp4

LEMMA RoundsFp8 ==
  ASSUME NEW on, Platform(on), NEW dt \in Floats, NEW to \in Fp8s, NEW sh, NEW args,
         args = [x |-> Tensor(dt, sh), rng |-> Tensor("u8", sh), output_type |-> Dtype(to)]
  PROVE  /\ Served(on, "stochastic_rounding_fp8", args)
         /\ Declared("stochastic_rounding_fp8", args) = <<Tensor(to, sh)>>
<1> DEFINE op == "stochastic_rounding_fp8"
           params == [x |-> F, rng |-> Of({"u8"}), output_type |-> Of(Fp8s)]
<1>1. op \in DOMAIN EagerTable /\ EagerTable[op] = Entry(params)
  BY EagerFp8Entry DEF EagerFp8
<1>2. op \in Fp8Fp4Ops /\ op \notin Int8Ops
  BY DEF Fp8Fp4Ops, Int8Ops
<1>3. /\ ValidParam(Get(args, "x"), F) /\ ValidParam(Get(args, "rng"), Of({"u8"}))
      /\ ValidParam(Get(args, "output_type"), Of(Fp8s))
  BY TensorFields, IsOf DEF Get, F, Dtype
<1>4. \A name \in DOMAIN params : ValidParam(Get(args, name), params[name])
  BY ONLY <1>3
<1>5. /\ args.x.sh = sh /\ args.rng.sh = sh /\ args.rng.contiguous /\ args.output_type.dt = to
  BY TensorFields DEF Dtype
<1> HIDE DEF params
<1>6. Cast(args) = <<Tensor(to, sh)>>
  BY <1>5 DEF Cast
<1>7. ASSUME NEW b \in Implementers(op) PROVE RunFp8Fp4(b, on.compiles, op, args) = Cast(args)
  BY <1>5, <1>6, <1>7
  DEF RunFp8Fp4, EagerStochasticFp8, CudaStochasticFp8, HipStochasticFp8, XpuFp8, Returns, Implementers
<1>8. DeclaredFp8Fp4(op, args) = Cast(args) /\ Declared(op, args) = Cast(args)
  BY <1>2 DEF Declared, DeclaredFp8Fp4, DeclaredFp8
<1> QED BY <1>1, <1>2, <1>4, <1>6, <1>7, <1>8, ServedFp8Fp4

\* The whole blocks over n elements.
Tiles(n, block) == (n + block - 1) \div block
LEMMA TilesCover ==
  ASSUME NEW n \in Nat \ {0}, NEW block \in {16, 32}
  PROVE  /\ Tiles(n, block) \in Nat \ {0} /\ Tiles(n, block) * block >= n
         /\ RoundUp(n, block) = Tiles(n, block) * block
<1>1. CASE block = 16
  BY <1>1 DEF Tiles, RoundUp
<1>2. CASE block = 32
  BY <1>2 DEF Tiles, RoundUp
<1> QED BY <1>1, <1>2

\* Padding is asked for exactly where it changes the shape.
LEMMA PaddedWhole ==
  ASSUME NEW t, NEW n \in Nat \ {0}, NEW k \in Nat \ {0}, t.sh = <<n, k>>, NEW block \in {16, 32},
         NEW pad, pad = Needs(t, block)
  PROVE  Padded(t.sh, pad, block) = <<Tiles(n, block) * block, Tiles(k, block) * block>>
<1>1. Padded(t.sh, TRUE, block) = <<Tiles(n, block) * block, Tiles(k, block) * block>>
  BY TilesCover DEF Padded
<1>2. Needs(t, block) \in BOOLEAN
  BY DEF Needs
<1>3. CASE pad = FALSE
  BY <1>1, <1>3 DEF Needs, Padded
<1>4. CASE pad = TRUE
  BY <1>1, <1>4
<1> QED BY <1>2, <1>3, <1>4

\* The codes of i by l blocks and their scales.
Nvfp4Codes(i, l) == Tensor("u8", <<i * 16, l * 8>>)
Mxfp8Codes(i, l) == Tensor("e4m3", <<i * 32, l * 32>>)

LEMMA BlockedFills ==
  ASSUME NEW dt, NEW rows \in Nat, NEW blocks \in Nat
  PROVE  FillsBlocks(Blocked(dt, rows, blocks), rows, blocks)
<1>1. RoundUp(rows, 128) \in Nat /\ RoundUp(blocks, 4) \in Nat
  BY RoundsUp
<1> QED BY <1>1, MatrixSize DEF FillsBlocks, Blocked

LEMMA QuantizesNvfp4 ==
  ASSUME NEW on, Platform(on), NEW dt \in Floats, NEW n \in Nat \ {0}, NEW k \in Nat \ {0}, NEW t,
         t = Tensor(dt, <<n, k>>), NEW args,
         args = [x |-> t, per_tensor_scale |-> F32Scalar, pad_16x |-> Needs(t, 16)]
  PROVE  /\ Served(on, "quantize_nvfp4", args)
         /\ Declared("quantize_nvfp4", args) =
              <<Nvfp4Codes(Tiles(n, 16), Tiles(k, 16)), Blocked("e4m3", Tiles(n, 16) * 16, Tiles(k, 16))>>
<1> DEFINE op == "quantize_nvfp4"
           params == [x |-> F2, per_tensor_scale |-> S]
<1>1. op \in DOMAIN EagerTable /\ EagerTable[op] = Entry(params)
  BY EagerNvfp4Entry DEF EagerNvfp4
<1>2. op \in Fp8Fp4Ops /\ op \notin Int8Ops
  BY DEF Fp8Fp4Ops, Int8Ops
<1>3. t.sh = <<n, k>> /\ t.dt = dt /\ t.contiguous /\ Rank(t) = 2
  BY TensorFields DEF Rank
<1>4. ValidParam(Get(args, "x"), F2) /\ ValidParam(Get(args, "per_tensor_scale"), S)
  BY <1>3, TensorFields, IsOf, IsOfRank DEF Get, F2, S, F32Scalar
<1>5. \A name \in DOMAIN params : ValidParam(Get(args, name), params[name])
  BY ONLY <1>4
<1>6. PICK i \in Nat \ {0}, l \in Nat \ {0} : i = Tiles(n, 16) /\ l = Tiles(k, 16)
  BY TilesCover
<1>7. PICK sh : sh = Padded(args.x.sh, args.pad_16x, 16)
  OBVIOUS
<1>8. sh = <<i * 16, l * 16>>
  <2>1. PICK pad : pad = Needs(t, 16)
    OBVIOUS
  <2>2. args.x.sh = t.sh /\ args.pad_16x = pad
    BY <2>1
  <2>3. 16 \in {16, 32}
    OBVIOUS
  <2>4. Padded(t.sh, pad, 16) = <<Tiles(n, 16) * 16, Tiles(k, 16) * 16>>
    BY ONLY <1>3, <2>1, <2>3, PaddedWhole, n \in Nat \ {0}, k \in Nat \ {0}
  <2> QED BY <1>6, <1>7, <2>2, <2>4
<1>9. sh[1] = i * 16 /\ sh[2] = l * 16 /\ sh[1] % 16 = 0 /\ sh[2] % 16 = 0 /\ sh[2] \div 2 = l * 8 /\ sh[2] \div 16 = l
  BY <1>6, <1>8
<1>10. args.x.contiguous
  BY <1>3
<1> HIDE DEF params
<1>11. ASSUME NEW b \in Implementers(op)
       PROVE  \/ RunFp8Fp4(b, on.compiles, op, args) = Nvfp4(sh)
              \/ RunFp8Fp4(b, on.compiles, op, args) = Raise /\ Untabled(on, b, op, args)
  <2>1. CASE b = "eager"
    BY <1>7, <1>9, <2>1 DEF RunFp8Fp4, EagerQuantizeNvfp4, Returns
  <2>2. CASE b = "cuda"
    <3>1. RunFp8Fp4(b, on.compiles, op, args) = Returns(args.x.dt \in Halves, Nvfp4(sh))
      BY <1>7, <1>9, <1>10, <2>2 DEF RunFp8Fp4, CudaQuantizeNvfp4, Returns
    <3>2. op \in BlockQuantizers
      BY DEF BlockQuantizers
    <3> QED BY <2>2, <3>1, <3>2, HalvesOnly DEF Returns
  <2>3. CASE b = "triton"
    <3>1. RunFp8Fp4(b, on.compiles, op, args) = Returns({"e4m3", "e2m1"} \subseteq on.compiles, Nvfp4(sh))
      BY <1>7, <1>9, <2>3 DEF RunFp8Fp4, TritonQuantizeNvfp4, Returns
    <3>2. Formats(op, args) = {"e4m3", "e2m1"}
      BY DEF Formats
    <3> QED BY <2>3, <3>1, <3>2, NotCompiled DEF Returns
  <2> QED BY <1>11, <2>1, <2>2, <2>3 DEF Implementers
<1>12. DeclaredFp8Fp4(op, args) = Nvfp4(sh) /\ Declared(op, args) = Nvfp4(sh)
  BY <1>2, <1>7 DEF Declared, DeclaredFp8Fp4, DeclaredNvfp4
<1>13. Nvfp4(sh) = <<Nvfp4Codes(i, l), Blocked("e4m3", i * 16, l)>>
  BY <1>9 DEF Nvfp4, Nvfp4Codes
<1> QED BY <1>1, <1>2, <1>5, <1>6, <1>11, <1>12, <1>13, ServedFp8Fp4

LEMMA DequantizesNvfp4 ==
  ASSUME NEW on, Platform(on), NEW dt \in Floats, NEW i \in Nat \ {0}, NEW l \in Nat \ {0}, NEW args,
         args = [qx |-> Nvfp4Codes(i, l), per_tensor_scale |-> F32Scalar,
                 block_scales |-> Blocked("e4m3", i * 16, l), output_type |-> Dtype(dt)]
  PROVE  /\ Served(on, "dequantize_nvfp4", args)
         /\ Declared("dequantize_nvfp4", args) = <<Tensor(dt, <<i * 16, l * 16>>)>>
<1> DEFINE op == "dequantize_nvfp4"
           params == [qx |-> U2, per_tensor_scale |-> S, block_scales |-> Of({"e4m3"}), output_type |-> F]
<1>1. op \in DOMAIN EagerTable /\ EagerTable[op] = Entry(params)
  BY EagerNvfp4Entry DEF EagerNvfp4
<1>2. op \in Fp8Fp4Ops /\ op \notin Int8Ops
  BY DEF Fp8Fp4Ops, Int8Ops
<1>3. /\ args.qx.sh = <<i * 16, l * 8>> /\ args.qx.dt = "u8" /\ args.qx.contiguous /\ Rank(args.qx) = 2
      /\ args.block_scales = Blocked("e4m3", i * 16, l) /\ args.output_type.dt = dt
  BY TensorFields DEF Nvfp4Codes, Rank, Dtype
<1>4. /\ ValidParam(Get(args, "qx"), U2) /\ ValidParam(Get(args, "per_tensor_scale"), S)
      /\ ValidParam(Get(args, "block_scales"), Of({"e4m3"})) /\ ValidParam(Get(args, "output_type"), F)
  <2>1. args.block_scales.dt = "e4m3"
    BY <1>3, TensorFields DEF Blocked
  <2>2. args.per_tensor_scale.dt = "f32"
    BY TensorFields DEF F32Scalar
  <2>3. Get(args, "qx") = args.qx /\ Get(args, "per_tensor_scale") = args.per_tensor_scale
    BY DEF Get
  <2>4. Get(args, "block_scales") = args.block_scales /\ Get(args, "output_type") = args.output_type
    BY DEF Get
  <2> QED BY ONLY <1>3, <2>1, <2>2, <2>3, <2>4, IsOf, IsOfRank, dt \in Floats DEF U2, S, F
<1>5. \A name \in DOMAIN params : ValidParam(Get(args, name), params[name])
  BY ONLY <1>4
<1>6. Dim(args.qx, 0) = i * 16 /\ Dim(args.qx, 1) = l * 8
  BY <1>3 DEF Dim
<1>7. /\ 2 * Dim(args.qx, 1) = l * 16 /\ (2 * Dim(args.qx, 1)) % 16 = 0 /\ (2 * Dim(args.qx, 1)) \div 16 = l
  BY <1>6
<1>8. FillsBlocks(args.block_scales, Dim(args.qx, 0), (2 * Dim(args.qx, 1)) \div 16)
  <2>1. i * 16 \in Nat
    OBVIOUS
  <2> QED BY <1>3, <1>6, <1>7, <2>1, BlockedFills
\* Triton's tiles of 128 bytes are whole.
<1>9. Numel(args.qx) % 128 = 0
  <2>1. Numel(args.qx) = (i * 16) * (l * 8)
    <3>1. i * 16 \in Nat /\ l * 8 \in Nat
      OBVIOUS
    <3> QED BY <3>1, MatrixSize DEF Nvfp4Codes
  <2>2. PICK blocks \in Nat : blocks = i * l
    OBVIOUS
  <2>3. (i * 16) * (l * 8) = (i * l) * 128
    OBVIOUS
  <2>4. (blocks * 128) % 128 = 0
    OBVIOUS
  <2> QED BY ONLY <2>1, <2>2, <2>3, <2>4
<1> HIDE DEF params
<1>10. ASSUME NEW b \in Implementers(op)
       PROVE  \/ RunFp8Fp4(b, on.compiles, op, args) = Unpacked(args)
              \/ RunFp8Fp4(b, on.compiles, op, args) = Raise /\ Untabled(on, b, op, args)
  <2>1. CASE b = "eager"
    BY <1>7, <1>8, <2>1 DEF RunFp8Fp4, EagerDequantizeNvfp4, Returns
  <2>2. CASE b = "cuda"
    <3>1. Dim(args.qx, 0) % 16 = 0
      BY <1>6
    <3> QED BY <1>3, <1>7, <2>2, <3>1 DEF RunFp8Fp4, CudaDequantizeNvfp4, Returns
  <2>3. CASE b = "triton"
    <3>1. RunFp8Fp4(b, on.compiles, op, args) = Returns({"e4m3", "e2m1"} \subseteq on.compiles, Unpacked(args))
      BY <1>3, <1>9, <2>3 DEF RunFp8Fp4, TritonDequantizeNvfp4, Returns, Reads
    <3>2. Formats(op, args) = {"e4m3", "e2m1"}
      BY DEF Formats
    <3> QED BY <2>3, <3>1, <3>2, NotCompiled DEF Returns
  <2> QED BY <1>10, <2>1, <2>2, <2>3 DEF Implementers
<1>11. DeclaredFp8Fp4(op, args) = Unpacked(args) /\ Declared(op, args) = Unpacked(args)
  BY <1>2 DEF Declared, DeclaredFp8Fp4
<1>12. Unpacked(args) = <<Tensor(dt, <<i * 16, l * 16>>)>>
  BY <1>3, <1>6, <1>7 DEF Unpacked
<1> QED BY <1>1, <1>2, <1>5, <1>10, <1>11, <1>12, ServedFp8Fp4

LEMMA MultipliesNvfp4 ==
  ASSUME NEW on, Platform(on), NEW dt \in Floats, NEW i \in Nat \ {0}, NEW j \in Nat \ {0}, NEW l \in Nat \ {0}, NEW args,
         args = [a |-> Nvfp4Codes(i, l), b |-> Nvfp4Codes(j, l),
                 tensor_scale_a |-> F32Scalar, tensor_scale_b |-> F32Scalar,
                 block_scale_a |-> Blocked("e4m3", i * 16, l), block_scale_b |-> Blocked("e4m3", j * 16, l),
                 out_dtype |-> Dtype(dt)]
  PROVE  /\ Offered(on, "scaled_mm_nvfp4", args)
         /\ Declared("scaled_mm_nvfp4", args) = <<Tensor(dt, <<i * 16, j * 16>>)>>
<1> DEFINE op == "scaled_mm_nvfp4"
           params == [a |-> U2, b |-> U2, tensor_scale_a |-> S, tensor_scale_b |-> S,
                      block_scale_a |-> Of({"e4m3"}), block_scale_b |-> Of({"e4m3"}), out_dtype |-> F]
<1>1. op \in DOMAIN EagerTable /\ EagerTable[op] = Entry(params)
  BY EagerNvfp4Entry DEF EagerNvfp4
<1>2. op \in Fp8Fp4Ops /\ op \notin Int8Ops /\ op \in Modelled
  BY DEF Fp8Fp4Ops, Int8Ops, Modelled
<1>3. /\ args.a.sh = <<i * 16, l * 8>> /\ args.a.dt = "u8" /\ Rank(args.a) = 2
      /\ args.b.sh = <<j * 16, l * 8>> /\ args.b.dt = "u8" /\ Rank(args.b) = 2
      /\ args.tensor_scale_a = F32Scalar /\ args.tensor_scale_b = F32Scalar
      /\ args.block_scale_a = Blocked("e4m3", i * 16, l) /\ args.block_scale_b = Blocked("e4m3", j * 16, l)
      /\ args.out_dtype.dt = dt
  BY TensorFields DEF Nvfp4Codes, Rank, Dtype
<1>4. args.block_scale_a.dt = "e4m3" /\ args.block_scale_b.dt = "e4m3"
  BY <1>3, TensorFields DEF Blocked
<1>5. \A name \in DOMAIN params : ValidParam(Get(args, name), params[name])
  <2>1. F32Scalar.dt = "f32"
    BY TensorFields DEF F32Scalar
  <2>2. \A name \in DOMAIN params : Get(args, name) = args[name]
    BY DEF Get
  <2>3. /\ ValidParam(args.a, U2) /\ ValidParam(args.b, U2)
        /\ ValidParam(args.tensor_scale_a, S) /\ ValidParam(args.tensor_scale_b, S)
        /\ ValidParam(args.block_scale_a, Of({"e4m3"})) /\ ValidParam(args.block_scale_b, Of({"e4m3"}))
        /\ ValidParam(args.out_dtype, F)
    BY ONLY <1>3, <1>4, <2>1, IsOf, IsOfRank, dt \in Floats DEF U2, S, F
  <2> QED BY ONLY <2>2, <2>3
<1>6. Dim(args.a, 0) = i * 16 /\ Dim(args.a, 1) = l * 8 /\ Dim(args.b, 0) = j * 16 /\ Dim(args.b, 1) = l * 8
  BY <1>3 DEF Dim
<1>7. (2 * Dim(args.a, 1)) \div 16 = l /\ Dim(args.b, 0) % 8 = 0
  BY <1>6
<1>8. /\ args.block_scale_a.sh = <<RoundUp(i * 16, 128), RoundUp(l, 4)>>
      /\ args.block_scale_b.sh = <<RoundUp(j * 16, 128), RoundUp(l, 4)>>
  BY <1>3, TensorFields DEF Blocked
<1>9. ~Has(args, "alpha") /\ ~Has(args, "bias")
  BY DEF Has, Get
<1>10. Numel(args.tensor_scale_a) = 1 /\ Numel(args.tensor_scale_b) = 1
  BY <1>3, ScalarSize DEF F32Scalar
<1> HIDE DEF params
<1>11. Accepts(on, "eager", op, args)
  BY <1>1, <1>5, EagerTakes
<1>12. CudaScaledMMNvfp4(args) = MatrixOf(args)
  BY <1>4, <1>6, <1>7, <1>8, <1>9, <1>10 DEF CudaScaledMMNvfp4, Returns
<1>13. EagerScaledMMNvfp4(args) \in {Raise, MatrixOf(args)}
  BY DEF EagerScaledMMNvfp4, TorchScaledMM, Returns
<1>14. Declared(op, args) = MatrixOf(args)
  BY <1>2 DEF Declared, DeclaredFp8Fp4
<1>15. Run(on, "eager", op, args) \in {Raise, MatrixOf(args)} /\ Run(on, "cuda", op, args) = MatrixOf(args)
  <2>1. Run(on, "eager", op, args) \in {Raise, EagerScaledMMNvfp4(args)}
    BY <1>2 DEF Run, RunFp8Fp4
  <2>2. Run(on, "cuda", op, args) = CudaScaledMMNvfp4(args)
    BY <1>2 DEF Run, RunFp8Fp4
  <2> QED BY <1>12, <1>13, <2>1, <2>2
<1>16. \A b \in Capable(on, op, args) : b \in {"eager", "cuda"}
  BY <1>2, CapableImplements DEF Implementers
<1>17. MatrixOf(args) = <<Tensor(dt, <<i * 16, j * 16>>)>>
  BY <1>3, <1>6 DEF MatrixOf
<1> QED BY <1>11, <1>14, <1>15, <1>16, <1>17 DEF Offered

LEMMA QuantizesMxfp8 ==
  ASSUME NEW on, Platform(on), NEW dt \in Floats, NEW n \in Nat \ {0}, NEW k \in Nat \ {0}, NEW t,
         t = Tensor(dt, <<n, k>>), NEW args, args = [x |-> t, pad_32x |-> Needs(t, 32)]
  PROVE  /\ Served(on, "quantize_mxfp8", args)
         /\ Declared("quantize_mxfp8", args) =
              <<Mxfp8Codes(Tiles(n, 32), Tiles(k, 32)), Blocked("e8m0", Tiles(n, 32) * 32, Tiles(k, 32))>>
<1> DEFINE op == "quantize_mxfp8"
           params == [x |-> F2]
<1>1. op \in DOMAIN EagerTable /\ EagerTable[op] = Entry(params)
  BY EagerMxfp8Entry DEF EagerMxfp8
<1>2. op \in Fp8Fp4Ops /\ op \notin Int8Ops
  BY DEF Fp8Fp4Ops, Int8Ops
<1>3. t.sh = <<n, k>> /\ t.dt = dt /\ t.contiguous /\ Rank(t) = 2
  BY TensorFields DEF Rank
<1>4. ValidParam(Get(args, "x"), F2)
  BY <1>3, IsOfRank DEF Get, F2
<1>5. \A name \in DOMAIN params : ValidParam(Get(args, name), params[name])
  BY ONLY <1>4
<1>6. PICK i \in Nat \ {0}, l \in Nat \ {0} : i = Tiles(n, 32) /\ l = Tiles(k, 32)
  BY TilesCover
<1>7. PICK sh : sh = Padded(args.x.sh, args.pad_32x, 32)
  OBVIOUS
<1>8. sh = <<i * 32, l * 32>>
  <2>1. PICK pad : pad = Needs(t, 32)
    OBVIOUS
  <2>2. args.x.sh = t.sh /\ args.pad_32x = pad
    BY <2>1
  <2>3. 32 \in {16, 32}
    OBVIOUS
  <2>4. Padded(t.sh, pad, 32) = <<Tiles(n, 32) * 32, Tiles(k, 32) * 32>>
    BY ONLY <1>3, <2>1, <2>3, PaddedWhole, n \in Nat \ {0}, k \in Nat \ {0}
  <2> QED BY <1>6, <1>7, <2>2, <2>4
<1>9. sh[1] = i * 32 /\ sh[2] = l * 32 /\ sh[1] % 32 = 0 /\ sh[2] % 32 = 0 /\ sh[2] \div 32 = l
  BY <1>6, <1>8
<1>10. args.x.contiguous
  BY <1>3
<1> HIDE DEF params
<1>11. ASSUME NEW b \in Implementers(op)
       PROVE  \/ RunFp8Fp4(b, on.compiles, op, args) = Mxfp8(sh)
              \/ RunFp8Fp4(b, on.compiles, op, args) = Raise /\ Untabled(on, b, op, args)
  <2>1. CASE b = "eager"
    BY <1>7, <1>9, <2>1 DEF RunFp8Fp4, EagerQuantizeMxfp8, Returns
  <2>2. CASE b = "cuda"
    <3>1. RunFp8Fp4(b, on.compiles, op, args) = Returns(args.x.dt \in Halves, Mxfp8(sh))
      BY <1>7, <1>9, <1>10, <2>2 DEF RunFp8Fp4, CudaQuantizeMxfp8, Returns
    <3>2. op \in BlockQuantizers
      BY DEF BlockQuantizers
    <3> QED BY <2>2, <3>1, <3>2, HalvesOnly DEF Returns
  <2>3. CASE b = "triton"
    <3>1. RunFp8Fp4(b, on.compiles, op, args) = Returns("e4m3" \in on.compiles, Mxfp8(sh))
      BY <1>7, <1>9, <2>3 DEF RunFp8Fp4, TritonQuantizeMxfp8, Returns
    <3>2. Formats(op, args) = {"e4m3"}
      BY DEF Formats
    <3> QED BY <2>3, <3>1, <3>2, NotCompiled DEF Returns
  <2> QED BY <1>11, <2>1, <2>2, <2>3 DEF Implementers
<1>12. DeclaredFp8Fp4(op, args) = Mxfp8(sh) /\ Declared(op, args) = Mxfp8(sh)
  BY <1>2, <1>7 DEF Declared, DeclaredFp8Fp4, DeclaredMxfp8
<1>13. Mxfp8(sh) = <<Mxfp8Codes(i, l), Blocked("e8m0", i * 32, l)>>
  BY <1>8, <1>9 DEF Mxfp8, Mxfp8Codes
<1> QED BY <1>1, <1>2, <1>5, <1>6, <1>11, <1>12, <1>13, ServedFp8Fp4

LEMMA DequantizesMxfp8 ==
  ASSUME NEW on, Platform(on), NEW dt \in Floats, NEW i \in Nat \ {0}, NEW l \in Nat \ {0}, NEW args,
         args = [qx |-> Mxfp8Codes(i, l), block_scales |-> Blocked("e8m0", i * 32, l), output_type |-> Dtype(dt)]
  PROVE  /\ Served(on, "dequantize_mxfp8", args)
         /\ Declared("dequantize_mxfp8", args) = <<Tensor(dt, <<i * 32, l * 32>>)>>
<1> DEFINE op == "dequantize_mxfp8"
           params == [qx |-> OfRank({"e4m3"}, 2), block_scales |-> Of({"e8m0"}), output_type |-> F]
<1>1. op \in DOMAIN EagerTable /\ EagerTable[op] = Entry(params)
  BY EagerMxfp8Entry DEF EagerMxfp8
<1>2. op \in Fp8Fp4Ops /\ op \notin Int8Ops
  BY DEF Fp8Fp4Ops, Int8Ops
<1>3. /\ args.qx.sh = <<i * 32, l * 32>> /\ args.qx.dt = "e4m3" /\ Rank(args.qx) = 2
      /\ args.block_scales = Blocked("e8m0", i * 32, l) /\ args.output_type.dt = dt
  BY TensorFields DEF Mxfp8Codes, Rank, Dtype
<1>4. \A name \in DOMAIN params : ValidParam(Get(args, name), params[name])
  <2>1. args.block_scales.dt = "e8m0"
    BY <1>3, TensorFields DEF Blocked
  <2>2. \A name \in DOMAIN params : Get(args, name) = args[name]
    BY DEF Get
  <2>3. /\ ValidParam(args.qx, OfRank({"e4m3"}, 2)) /\ ValidParam(args.block_scales, Of({"e8m0"}))
        /\ ValidParam(args.output_type, F)
    BY ONLY <1>3, <2>1, IsOf, IsOfRank, dt \in Floats DEF F
  <2> QED BY ONLY <2>2, <2>3
<1>5. Dim(args.qx, 0) = i * 32 /\ Dim(args.qx, 1) = l * 32
  BY <1>3 DEF Dim
<1>6. Dim(args.qx, 1) % 32 = 0 /\ Dim(args.qx, 1) \div 32 = l
  BY <1>5
<1>7. FillsBlocks(args.block_scales, Dim(args.qx, 0), Dim(args.qx, 1) \div 32)
  <2>1. i * 32 \in Nat
    OBVIOUS
  <2> QED BY <1>3, <1>5, <1>6, <2>1, BlockedFills
<1> HIDE DEF params
<1>8. ASSUME NEW b \in Implementers(op) PROVE RunFp8Fp4(b, on.compiles, op, args) = <<Tensor(dt, <<i * 32, l * 32>>)>>
  BY <1>3, <1>6, <1>7, <1>8 DEF RunFp8Fp4, EagerDequantizeMxfp8, Returns, Implementers
<1>9. /\ DeclaredFp8Fp4(op, args) = <<Tensor(dt, <<i * 32, l * 32>>)>>
      /\ Declared(op, args) = <<Tensor(dt, <<i * 32, l * 32>>)>>
  BY <1>2, <1>3 DEF Declared, DeclaredFp8Fp4
<1> QED BY <1>1, <1>2, <1>4, <1>8, <1>9, ServedFp8Fp4

LEMMA MultipliesMxfp8 ==
  ASSUME NEW on, Platform(on), NEW dt \in Floats, NEW i \in Nat \ {0}, NEW j \in Nat \ {0}, NEW l \in Nat \ {0}, NEW args,
         args = [a |-> Mxfp8Codes(i, l), b |-> Mxfp8Codes(j, l),
                 block_scale_a |-> Blocked("e8m0", i * 32, l), block_scale_b |-> Blocked("e8m0", j * 32, l),
                 out_dtype |-> Dtype(dt)]
  PROVE  /\ Offered(on, "scaled_mm_mxfp8", args)
         /\ Declared("scaled_mm_mxfp8", args) = <<Tensor(dt, <<i * 32, j * 32>>)>>
<1> DEFINE op == "scaled_mm_mxfp8"
           params == [a |-> OfRank({"e4m3"}, 2), b |-> OfRank({"e4m3"}, 2),
                      block_scale_a |-> Of({"e8m0"}), block_scale_b |-> Of({"e8m0"}), out_dtype |-> F]
<1>1. op \in DOMAIN EagerTable /\ EagerTable[op] = Entry(params)
  BY EagerMxfp8Entry DEF EagerMxfp8
<1>2. op \in Fp8Fp4Ops /\ op \notin Int8Ops
  BY DEF Fp8Fp4Ops, Int8Ops
<1>3. /\ args.a.sh = <<i * 32, l * 32>> /\ args.a.dt = "e4m3" /\ Rank(args.a) = 2
      /\ args.b.sh = <<j * 32, l * 32>> /\ args.b.dt = "e4m3" /\ Rank(args.b) = 2
      /\ args.block_scale_a = Blocked("e8m0", i * 32, l) /\ args.block_scale_b = Blocked("e8m0", j * 32, l)
      /\ args.out_dtype.dt = dt
  BY TensorFields DEF Mxfp8Codes, Rank, Dtype
<1>4. args.block_scale_a.dt = "e8m0" /\ args.block_scale_b.dt = "e8m0"
  BY <1>3, TensorFields DEF Blocked
<1>5. \A name \in DOMAIN params : ValidParam(Get(args, name), params[name])
  <2>1. \A name \in DOMAIN params : Get(args, name) = args[name]
    BY DEF Get
  <2>2. /\ ValidParam(args.a, OfRank({"e4m3"}, 2)) /\ ValidParam(args.b, OfRank({"e4m3"}, 2))
        /\ ValidParam(args.block_scale_a, Of({"e8m0"})) /\ ValidParam(args.block_scale_b, Of({"e8m0"}))
        /\ ValidParam(args.out_dtype, F)
    BY ONLY <1>3, <1>4, IsOf, IsOfRank, dt \in Floats DEF F
  <2> QED BY ONLY <2>1, <2>2
<1>6. Dim(args.a, 0) = i * 32 /\ Dim(args.b, 0) = j * 32
  BY <1>3 DEF Dim
<1> HIDE DEF params
<1>7. Accepts(on, "eager", op, args)
  BY <1>1, <1>5, EagerTakes
<1>8. Declared(op, args) = MatrixOf(args)
  BY <1>2 DEF Declared, DeclaredFp8Fp4
<1>9. Run(on, "eager", op, args) \in {Raise, MatrixOf(args)}
  <2>1. EagerScaledMMMxfp8(args) \in {Raise, MatrixOf(args)}
    BY DEF EagerScaledMMMxfp8, TorchScaledMM, Returns
  <2>2. Run(on, "eager", op, args) \in {Raise, EagerScaledMMMxfp8(args)}
    BY <1>2 DEF Run, RunFp8Fp4
  <2> QED BY <2>1, <2>2
<1>10. \A b \in Capable(on, op, args) : b = "eager"
  BY <1>2, CapableImplements DEF Implementers
<1>11. MatrixOf(args) = <<Tensor(dt, <<i * 32, j * 32>>)>>
  BY <1>3, <1>6 DEF MatrixOf
<1> QED BY <1>7, <1>8, <1>9, <1>10, <1>11 DEF Offered

LEMMA QuantizesInt8Tensor ==
  ASSUME NEW on, Platform(on), NEW dt \in Floats, NEW sh, NEW args, args = [x |-> Tensor(dt, sh)]
  PROVE  /\ Served(on, "quantize_int8_tensorwise", args)
         /\ Declared("quantize_int8_tensorwise", args) = <<Tensor("i8", sh), Tensor("f32", Scalar)>>
<1> DEFINE op == "quantize_int8_tensorwise"
           params == [x |-> F, scale |-> Of(Floats \cup {"float", "str"})]
<1>1. op \in Int8Ops
  BY DEF Int8Ops
<1>2. op \in DOMAIN EagerTable /\ EagerTable[op] = Entry(params)
  BY <1>1, EagerInt8Entry DEF EagerInt8
<1>3. args.x.sh = sh /\ args.x.dt = dt /\ Get(args, "x") = args.x /\ Get(args, "scale") = None
  BY TensorFields DEF Get
<1>4. \A name \in DOMAIN params : ValidParam(Get(args, name), params[name])
  <2>1. ValidParam(args.x, F) /\ ValidParam(None, Of(Floats \cup {"float", "str"}))
    BY <1>3, IsOf, IsNone DEF F
  <2> QED BY ONLY <1>3, <2>1
<1>5. Declared(op, args) = <<Tensor("i8", sh), Tensor("f32", Scalar)>> /\ Declared(op, args) = DeclaredInt8(op, args)
  BY <1>1, <1>3 DEF Declared, DeclaredInt8
<1> HIDE DEF params
<1>6. ASSUME NEW b PROVE RunInt8(b, on.has, op, args) = DeclaredInt8(op, args)
  BY <1>3, <1>5 DEF RunInt8, EagerQuantizeInt8Tensorwise, Has
<1> QED BY <1>1, <1>2, <1>4, <1>5, <1>6, ServedInt8

LEMMA QuantizesInt8Rows ==
  ASSUME NEW on, Platform(on), NEW dt \in Floats, NEW sh, Len(sh) = 2, NEW args, args = [x |-> Tensor(dt, sh)]
  PROVE  /\ Served(on, "quantize_int8_rowwise", args)
         /\ Declared("quantize_int8_rowwise", args) = <<Tensor("i8", sh), Tensor("f32", WithLast(sh, 1))>>
<1> DEFINE op == "quantize_int8_rowwise"
           params == [x |-> F]
<1>1. op \in Int8Ops
  BY DEF Int8Ops
<1>2. op \in DOMAIN EagerTable /\ EagerTable[op] = Entry(params)
  BY <1>1, EagerInt8Entry DEF EagerInt8
<1>3. args.x.sh = sh /\ args.x.dt = dt /\ args.x.contiguous /\ Rank(args.x) = 2 /\ Get(args, "x") = args.x
  BY TensorFields DEF Get, Rank
<1>4. \A name \in DOMAIN params : ValidParam(Get(args, name), params[name])
  <2>1. ValidParam(args.x, F)
    BY <1>3, IsOf DEF F
  <2> QED BY ONLY <1>3, <2>1
<1>5. Declared(op, args) = Rowwise(args.x) /\ Declared(op, args) = DeclaredInt8(op, args)
  BY <1>1 DEF Declared, DeclaredInt8, DeclaredInt8Rowwise
<1> HIDE DEF params
<1>6. ASSUME NEW b PROVE RunInt8(b, on.has, op, args) = DeclaredInt8(op, args)
  BY <1>3, <1>5
  DEF RunInt8, EagerQuantizeInt8Rowwise, CudaQuantizeInt8Rowwise, HipQuantizeInt8Rowwise, TritonQuantizeInt8Rowwise,
      AscendQuantizeInt8Rowwise, Reads
<1>7. Rowwise(args.x) = <<Tensor("i8", sh), Tensor("f32", WithLast(sh, 1))>>
  BY <1>3 DEF Rowwise
<1> QED BY <1>1, <1>2, <1>4, <1>5, <1>6, <1>7, ServedInt8

\* Every backend refuses the same rotations.
LEMMA RotatesWeight ==
  ASSUME NEW on, Platform(on), NEW dt \in Floats, NEW sh, Len(sh) = 2, NEW group, NEW args,
         args = [weight |-> Tensor(dt, sh), group_size |-> group],
         NEW made \in DispatchedOn(on, "quantize_int8_convrot_weight", args)
  PROVE  /\ Agrees(on, made) /\ made.op = "quantize_int8_convrot_weight" /\ made.args = args
         /\ made.result = IF Rotates(group, sh[2]) THEN <<Tensor("i8", sh), Tensor("f32", WithLast(sh, 1))>> ELSE Raise
<1> DEFINE op == "quantize_int8_convrot_weight"
           params == [weight |-> F2]
<1>1. op \in Int8Ops /\ op \in Modelled
  BY DEF Int8Ops, Modelled
<1>2. op \in DOMAIN EagerTable /\ EagerTable[op] = Entry(params)
  BY <1>1, EagerInt8Entry DEF EagerInt8
<1>3. /\ args.weight.sh = sh /\ args.weight.dt = dt /\ Rank(args.weight) = 2 /\ LastDim(args.weight) = sh[2]
      /\ args.group_size = group /\ Get(args, "weight") = args.weight
  <2>1. PICK t : t = Tensor(dt, sh)
    OBVIOUS
  <2>2. args.weight = t /\ args.group_size = group /\ Get(args, "weight") = t
    BY <2>1 DEF Get
  <2>3. t.sh = sh /\ t.dt = dt
    BY <2>1, TensorFields
  <2> QED BY ONLY <2>2, <2>3, Len(sh) = 2 DEF Rank, LastDim
<1>4. \A name \in DOMAIN params : ValidParam(Get(args, name), params[name])
  <2>1. ValidParam(args.weight, F2)
    BY ONLY <1>3, dt \in Floats, IsOfRank DEF F2
  <2> QED BY ONLY <1>3, <2>1
<1>5. Declared(op, args) = Rowwise(args.weight)
  BY <1>1 DEF Declared, DeclaredInt8, DeclaredInt8Weight
<1> HIDE DEF params
<1>6. Accepts(on, "eager", op, args)
  BY <1>2, <1>4, EagerTakes
<1>7. ASSUME NEW b PROVE Run(on, b, op, args) = IF Rotates(group, sh[2]) THEN Rowwise(args.weight) ELSE Raise
  <2>1. op \notin {"scaled_mm_nvfp4", "scaled_mm_mxfp8"}
    OBVIOUS
  <2>2. Run(on, b, op, args) = RunInt8(b, on.has, op, args)
    BY <1>1, <2>1 DEF Run
  <2>3. RunInt8(b, on.has, op, args) = IF Rotates(group, sh[2]) THEN Rowwise(args.weight) ELSE Raise
    BY <1>3 DEF RunInt8, EagerQuantizeInt8Weight, CudaQuantizeInt8Weight, HipQuantizeInt8Weight, Returns
  <2> QED BY <2>2, <2>3
<1>8. Offered(on, op, args)
  BY <1>5, <1>6, <1>7 DEF Offered
<1>9. made.result = IF Rotates(group, sh[2]) THEN Rowwise(args.weight) ELSE Raise
  BY <1>1, <1>6, <1>7, Dispatch
<1>10. Rowwise(args.weight) = <<Tensor("i8", sh), Tensor("f32", WithLast(sh, 1))>>
  BY <1>3 DEF Rowwise
<1>11. Agrees(on, made) /\ made.op = op /\ made.args = args
  BY <1>1, <1>8, OfferedAgrees
<1> QED BY <1>9, <1>10, <1>11

LEMMA DequantizesInt8 ==
  ASSUME NEW on, Platform(on), NEW dt \in Floats, NEW sh, NEW s, s.dt = "f32", NEW args,
         args = [q |-> Tensor("i8", sh), scale |-> s, output_dtype |-> Dtype(dt)]
  PROVE  /\ Served(on, "dequantize_int8_simple_dtype", args)
         /\ Declared("dequantize_int8_simple_dtype", args) = <<Tensor(dt, sh)>>
<1> DEFINE op == "dequantize_int8_simple_dtype"
           params == [q |-> I8, scale |-> F]
<1>1. op \in Int8Ops
  BY DEF Int8Ops
<1>2. op \in DOMAIN EagerTable /\ EagerTable[op] = Entry(params)
  BY <1>1, EagerInt8Entry DEF EagerInt8
<1>3. /\ args.q.sh = sh /\ args.q.dt = "i8" /\ args.scale.dt = "f32" /\ args.output_dtype.dt = dt
      /\ Get(args, "q") = args.q /\ Get(args, "scale") = args.scale
  BY TensorFields DEF Get, Dtype
<1>4. \A name \in DOMAIN params : ValidParam(Get(args, name), params[name])
  <2>1. ValidParam(args.q, I8) /\ ValidParam(args.scale, F)
    BY ONLY <1>3, IsOf DEF I8, F, Floats
  <2> QED BY ONLY <1>3, <2>1
<1>5. Declared(op, args) = Codes(args) /\ Declared(op, args) = DeclaredInt8(op, args)
  BY <1>1 DEF Declared, DeclaredInt8, DeclaredInt8Codes
<1> HIDE DEF params
<1>6. ASSUME NEW b PROVE RunInt8(b, on.has, op, args) = DeclaredInt8(op, args)
  BY <1>5 DEF RunInt8, EagerDequantizeInt8, CudaDequantizeInt8, HipDequantizeInt8, AscendDequantizeInt8
<1>7. Codes(args) = <<Tensor(dt, sh)>>
  BY <1>3 DEF Codes
<1> QED BY <1>1, <1>2, <1>4, <1>5, <1>6, <1>7, ServedInt8

LEMMA DequantizesRotated ==
  ASSUME NEW on, Platform(on), NEW dt \in Floats, NEW sh, Len(sh) = 2, NEW s, s.dt = "f32",
         NEW group, Rotates(group, sh[2]), NEW args,
         args = [q |-> Tensor("i8", sh), scale |-> s, group_size |-> group, output_dtype |-> Dtype(dt)]
  PROVE  /\ Served(on, "dequantize_int8_convrot_weight_dtype", args)
         /\ Declared("dequantize_int8_convrot_weight_dtype", args) = <<Tensor(dt, sh)>>
<1> DEFINE op == "dequantize_int8_convrot_weight_dtype"
           params == [q |-> I2, scale |-> F]
<1>1. op \in Int8Ops
  BY DEF Int8Ops
<1>2. op \in DOMAIN EagerTable /\ EagerTable[op] = Entry(params)
  BY <1>1, EagerInt8Entry DEF EagerInt8
<1>3. /\ args.q.sh = sh /\ args.q.dt = "i8" /\ args.scale.dt = "f32" /\ args.output_dtype.dt = dt
      /\ Rank(args.q) = 2 /\ LastDim(args.q) = sh[2] /\ args.group_size = group
      /\ Get(args, "q") = args.q /\ Get(args, "scale") = args.scale
  BY TensorFields DEF Get, Dtype, Rank, LastDim
<1>4. \A name \in DOMAIN params : ValidParam(Get(args, name), params[name])
  <2>1. ValidParam(args.q, I2) /\ ValidParam(args.scale, F)
    BY ONLY <1>3, IsOf, IsOfRank DEF I2, F, Floats
  <2> QED BY ONLY <1>3, <2>1
<1>5. Declared(op, args) = Codes(args) /\ Declared(op, args) = DeclaredInt8(op, args)
  BY <1>1 DEF Declared, DeclaredInt8, DeclaredInt8Codes
<1> HIDE DEF params
<1>6. ASSUME NEW b PROVE RunInt8(b, on.has, op, args) = DeclaredInt8(op, args)
  BY <1>3, <1>5 DEF RunInt8, EagerDequantizeInt8Weight, CudaDequantizeInt8Weight, HipDequantizeInt8Weight, Returns
<1>7. Codes(args) = <<Tensor(dt, sh)>>
  BY <1>3 DEF Codes
<1> QED BY <1>1, <1>2, <1>4, <1>5, <1>6, <1>7, ServedInt8

\* A linear of a float activation and INT8 codes, with an activation, a rotation and a
\* residual fused, as its arguments hold it.
LinearOfCodes(dt, sh, n, k, s, group, act, rotated, norm, residual, scaled, args) ==
  /\ dt \in Floats /\ sh \in Seq(Nat \ {0}) /\ Len(sh) >= 1 /\ n \in Nat \ {0} /\ k \in Nat \ {0}
  /\ s \in {Tensor("f32", Scalar), Tensor("f32", <<n, 1>>)}
  /\ rotated => group # 0
  /\ group # 0 => Rotates(group, k)
  /\ k * Width([input_act |-> act]) = sh[Len(sh)]
  /\ act = "rms_norm" => norm.sh = <<sh[Len(sh)]>>
  /\ residual # None => scaled # None
  /\ args = [x |-> Tensor(dt, sh), weight |-> Tensor("i8", <<n, k>>), weight_scale |-> s, out_dtype |-> Dtype(dt),
             convrot |-> rotated, convrot_groupsize |-> group, input_act |-> act,
             input_act_weight |-> norm, residual |-> residual, residual_scale |-> scaled]

\* The operands of such a linear fit, and each kernel that takes it returns the plain shape or
\* raises for what its table does not state.
LEMMA MultipliesInt8 ==
  ASSUME NEW on, Platform(on), NEW dt, NEW sh, NEW n, NEW k, NEW s, NEW group, NEW act, NEW rotated,
         NEW norm, NEW residual, NEW scaled, NEW args,
         LinearOfCodes(dt, sh, n, k, s, group, act, rotated, norm, residual, scaled, args)
  PROVE  /\ Served(on, "int8_linear", args)
         /\ Declared("int8_linear", args) = <<Tensor(dt, WithLast(sh, n))>>
<1> USE DEF LinearOfCodes
<1> DEFINE op == "int8_linear"
           params == [x |-> F, weight |-> I8, weight_scale |-> F, bias |-> F]
           last == sh[Len(sh)]
<1>1. op \in Int8Ops
  BY DEF Int8Ops
<1>2. op \in DOMAIN EagerTable /\ EagerTable[op] = Entry(params)
  BY EagerLinearEntry DEF EagerLinear
<1>3. /\ args.x = Tensor(dt, sh) /\ args.weight = Tensor("i8", <<n, k>>) /\ args.weight_scale = s
      /\ args.out_dtype = Dtype(dt) /\ args.convrot_groupsize = group /\ args.input_act = act
      /\ Get(args, "x") = args.x /\ Get(args, "weight") = args.weight
      /\ Get(args, "weight_scale") = args.weight_scale /\ Get(args, "bias") = None
      /\ Num(args, "input_act", "none") = act
  BY DEF Get, Num
<1>4. /\ Get(args, "input_act_weight") = norm
      /\ Has(args, "residual") => Has(args, "residual_scale")
  BY DEF Get, Has
<1>5. args.convrot => group # 0
  OBVIOUS
<1>6. ~Has(args, "bias")
  BY <1>3 DEF Has
<1>7. /\ args.x.sh = sh /\ args.x.dt = dt /\ args.x.contiguous
      /\ args.weight.sh = <<n, k>> /\ args.weight.dt = "i8" /\ args.weight_scale.dt = "f32" /\ args.out_dtype.dt = dt
  BY <1>3, TensorFields DEF Dtype
<1>8. LastDim(args.x) = last /\ LastDim(args.weight) = k /\ Dim(args.weight, 0) = n
  <2>1. Len(<<n, k>>) = 2 /\ <<n, k>>[1] = n /\ <<n, k>>[2] = k
    OBVIOUS
  <2> QED BY ONLY <1>7, <2>1 DEF LastDim, Dim, last
<1>9. Width(args) \in {1, 2} /\ k * Width(args) = last
  <2>1. Num([input_act |-> act], "input_act", "none") = act
    BY DEF Num
  <2> QED BY <1>3, <2>1 DEF Width
<1>10. last \in Nat \ {0} /\ last % Width(args) = 0 /\ last \div Width(args) = k
  BY <1>9
<1>11. Activates(args) /\ Features(args) = k /\ InnerMatches(args) /\ Adds(args)
  BY <1>3, <1>4, <1>8, <1>10 DEF Activates, Features, InnerMatches, Adds
<1>12. ScaleFits(args)
  <2>1. Numel(Tensor("f32", Scalar)) = 1
    BY ScalarSize
  <2>2. Numel(Tensor("f32", <<n, 1>>)) = n * 1
    BY ONLY n \in Nat \ {0}, MatrixSize
  <2>3. Numel(s) \in {1, n}
    BY <2>1, <2>2
  <2> QED BY ONLY <1>3, <1>8, <2>3 DEF ScaleFits
<1>13. RotatesInput(args)
  BY <1>3, <1>5, <1>11 DEF RotatesInput
<1>14. Rows(args.x) > 0
  BY <1>7, HasRows
<1>15. \A name \in DOMAIN params : ValidParam(Get(args, name), params[name])
  <2>1. ValidParam(args.x, F) /\ ValidParam(args.weight, I8) /\ ValidParam(args.weight_scale, F) /\ ValidParam(None, F)
    BY ONLY <1>7, dt \in Floats, IsOf, IsNone DEF F, I8, Floats
  <2> QED BY ONLY <1>3, <2>1
<1> HIDE DEF params, last
<1>16. Declared(op, args) = Linear8(args) /\ DeclaredInt8(op, args) = Linear8(args)
  BY <1>1 DEF Declared, DeclaredInt8
<1>17. /\ EagerInt8Linear(args) = Linear8(args) /\ CudaInt8Linear(args) = Linear8(args)
       /\ AscendInt8Linear(args) = Linear8(args)
  BY <1>6, <1>11, <1>12, <1>13, <1>14 DEF EagerInt8Linear, CudaInt8Linear, AscendInt8Linear, RotatesInput, Returns
<1>18. TritonInt8Linear(args) = Linear8(args)
  BY <1>7, <1>11, <1>12, <1>13 DEF TritonInt8Linear, Reads
<1>19. \/ HipInt8Linear(args) = Linear8(args)
       \/ HipInt8Linear(args) = Raise /\ Untabled(on, "hip", op, args)
  <2>1. CASE Features(args) % 16 # 0 \/ (args.convrot /\ group \notin {16, 64, 256})
    <3>1. HipInt8Linear(args) = Raise
      BY <1>3, <2>1 DEF HipInt8Linear, Returns
    <3>2. Untabled(on, "hip", op, args)
      BY <1>3, <2>1 DEF Untabled
    <3> QED BY <3>1, <3>2
  <2>2. CASE Features(args) % 16 = 0 /\ (args.convrot => group \in {16, 64, 256})
    <3>1. args.convrot => Features(args) % group = 0
      BY <1>5, <1>11 DEF Rotates
    <3>2. HipInt8Linear(args) = Linear8(args)
      BY <1>3, <1>6, <1>11, <1>12, <2>2, <3>1 DEF HipInt8Linear, Returns
    <3> QED BY <3>2
  <2> QED BY <2>1, <2>2
<1>20. \/ XpuInt8Linear(on.has, args) = Linear8(args)
       \/ XpuInt8Linear(on.has, args) = Raise /\ Untabled(on, "xpu", op, args)
  <2>1. CASE Untabled(on, "xpu", op, args)
    <3>1. XpuInt8Linear(on.has, args) \in {Raise, EagerInt8Linear(args)}
      BY DEF XpuInt8Linear, Returns
    <3> QED BY <1>17, <2>1, <3>1
  <2>2. CASE ~Untabled(on, "xpu", op, args)
    <3>1. /\ act = "rms_norm" => "rms_norm_for_int8" \in on.has
          /\ Has(args, "residual") => "scaled_residual" \in on.has
      BY <1>3, <2>2 DEF Untabled
    <3> QED BY <1>3, <1>4, <1>17, <3>1 DEF XpuInt8Linear, Returns
  <2> QED BY <2>1, <2>2
<1>21. ASSUME NEW b \in Capable(on, op, args)
       PROVE  \/ RunInt8(b, on.has, op, args) = DeclaredInt8(op, args)
              \/ RunInt8(b, on.has, op, args) = Raise /\ Untabled(on, b, op, args)
  <2>1. CASE b = "cuda"
    BY <1>16, <1>17, <2>1 DEF RunInt8
  <2>2. CASE b = "hip"
    BY <1>16, <1>19, <2>2 DEF RunInt8
  <2>3. CASE b = "triton"
    BY <1>16, <1>18, <2>3 DEF RunInt8
  <2>4. CASE b = "ascend"
    BY <1>16, <1>17, <2>4 DEF RunInt8
  <2>5. CASE b = "xpu"
    BY <1>16, <1>20, <2>5 DEF RunInt8
  <2>6. CASE b \notin {"cuda", "hip", "triton", "ascend", "xpu"}
    BY <1>16, <1>17, <2>6 DEF RunInt8
  <2> QED BY <2>1, <2>2, <2>3, <2>4, <2>5, <2>6
<1>22. Linear8(args) = <<Tensor(dt, WithLast(sh, n))>>
  BY <1>7, <1>8 DEF Linear8
<1>23. Served(on, op, args)
  BY ONLY <1>1, <1>2, <1>15, <1>21, ServedInt8, Platform(on)
<1> QED BY ONLY <1>16, <1>22, <1>23

-----------------------------------------------------------------------------
(* What the layouts make of the calls' results. *)

\* What layout l holds of a matrix t.
QuantizedForm(l, q, t) ==
  /\ q = [data |-> q.data, scale |-> q.scale, block |-> q.block, group |-> q.group, plain |-> q.plain]
  /\ q.plain \in {None, Tensor(t.dt, t.sh)}
  /\ l = "fp8" => q.data = Tensor("e4m3", t.sh) /\ q.scale = F32Scalar
  /\ l = "nvfp4" => /\ q.data = Nvfp4Codes(Tiles(t.sh[1], 16), Tiles(t.sh[2], 16)) /\ q.scale = F32Scalar
                    /\ q.block = Blocked("e4m3", Tiles(t.sh[1], 16) * 16, Tiles(t.sh[2], 16))
  /\ l = "mxfp8" => /\ q.data = Mxfp8Codes(Tiles(t.sh[1], 32), Tiles(t.sh[2], 32))
                    /\ q.block = Blocked("e8m0", Tiles(t.sh[1], 32) * 32, Tiles(t.sh[2], 32))
  /\ l = "int8" => /\ q.data = Tensor("i8", t.sh) /\ q.scale \in {Tensor("f32", Scalar), Tensor("f32", <<t.sh[1], 1>>)}
                   /\ q.group \in Groups \cup {0} /\ (q.group # 0 => Rotates(q.group, t.sh[2]))

\* The matrices a linear is given: a weight of two dimensions, and an activation of its dtype.
Given ==
  layout # "plain" =>
    /\ layout \in {"fp8", "nvfp4", "mxfp8", "int8"}
    /\ \E pair \in Matrices : x = pair.x /\ w = pair.w
    /\ layout # "int8" => LastDim(x) = LastDim(w)

\* Why a linear is given up: what no table states, or a rotation.
Excused ==
  \/ GivenUp(Here, call)
  \/ /\ phase = "refused" /\ call.result = Raise
     /\ call.op = "quantize_int8_convrot_weight" /\ LastDim(w) % call.args.group_size # 0

\* The calls agree with the reference, what is held is the layout's form of the matrices,
\* a fallback has the activation itself or a form of it, and what is given up is excused.
CallsInvariant ==
  /\ platform \in DOMAIN Profiles
  /\ Given
  /\ layout = "plain" => phase \in {"start", "routed"}
  /\ layout # "plain" => Agrees(Here, call)
  /\ phase \in {"start", "refused", "weight", "ready", "fallback", "done", "failed", "rounded", "routed"}
  /\ phase \in {"weight", "ready", "fallback"} => QuantizedForm(layout, qw, w)
  /\ phase = "ready" => Rank(x) = 2 /\ QuantizedForm(layout, qx, x)
  /\ phase = "fallback" => layout # "int8" /\ (qx.plain = x \/ (Rank(x) = 2 /\ QuantizedForm(layout, qx, x)))
  /\ phase \in {"refused", "failed"} => Excused
  /\ phase = "done" => product = <<Tensor(x.dt, WithLast(x.sh, Dim(w, 0)))>>

\* The parts of the invariant's matrices.
LEMMA Parts ==
  ASSUME Given, layout # "plain"
  PROVE  \E dt \in Floats, n \in Nat \ {0}, k \in Nat \ {0}, sh \in Seq(Nat \ {0}) :
           /\ x = Tensor(dt, sh) /\ w = Tensor(dt, <<n, k>>) /\ Len(sh) >= 1
           /\ layout # "int8" => sh[Len(sh)] = k
<1>1. PICK pair \in Matrices : x = pair.x /\ w = pair.w
  BY DEF Given
<1>2. IsMatrix(x) /\ IsMatrix(w) /\ Rank(w) = 2 /\ x.dt = w.dt
  BY <1>1, MatricesAssumption
<1>3. PICK dt, sh, ws : dt = x.dt /\ sh = x.sh /\ ws = w.sh
  OBVIOUS
<1>4. /\ dt \in Floats /\ sh \in Seq(Nat \ {0}) /\ Len(sh) >= 1 /\ ws \in Seq(Nat \ {0}) /\ Len(ws) = 2
      /\ x = Tensor(dt, sh) /\ w = Tensor(dt, ws)
  BY <1>2, <1>3 DEF IsMatrix, Rank
<1>5. PICK n, k : n = ws[1] /\ k = ws[2]
  OBVIOUS
<1>6. n \in Nat \ {0} /\ k \in Nat \ {0} /\ ws = <<n, k>>
  <2>1. 1 \in 1 .. Len(ws) /\ 2 \in 1 .. Len(ws)
    BY <1>4
  <2>2. n \in Nat \ {0} /\ k \in Nat \ {0}
    BY ONLY <1>4, <1>5, <2>1, ElementOfSeq
  <2>3. ws = <<n, k>>
    BY ONLY <1>4, <1>5
  <2> QED BY <2>2, <2>3
<1>7. LastDim(x) = sh[Len(sh)] /\ LastDim(w) = k
  BY <1>3, <1>4, <1>5 DEF LastDim
<1>8. layout # "int8" => sh[Len(sh)] = k
  BY <1>7 DEF Given
<1> QED BY <1>4, <1>6, <1>8

LEMMA HeldForms ==
  ASSUME NEW d, NEW s, NEW g
  PROVE  /\ layout = "fp8" => Held(<<d>>, g) = [data |-> d, scale |-> F32Scalar, block |-> None, group |-> 0, plain |-> None]
         /\ layout = "nvfp4" => Held(<<d, s>>, g) = [data |-> d, scale |-> F32Scalar, block |-> s, group |-> 0, plain |-> None]
         /\ layout = "mxfp8" => Held(<<d, s>>, g) = [data |-> d, scale |-> None, block |-> s, group |-> 0, plain |-> None]
         /\ layout = "int8" => Held(<<d, s>>, g) = [data |-> d, scale |-> s, block |-> None, group |-> g, plain |-> None]
<1>1. PICK none, one, one_of, two : none = None /\ one = F32Scalar /\ one_of = <<d>> /\ two = <<d, s>>
  OBVIOUS
<1>2. one_of[1] = d /\ two[1] = d /\ two[2] = s
  BY <1>1
<1>3. NotHeld = [data |-> none, scale |-> none, block |-> none, group |-> 0, plain |-> none]
  BY <1>1 DEF NotHeld
<1> QED BY <1>1, <1>2, <1>3 DEF Held

\* Quantization of a matrix by a layout of floats succeeds on every backend, but for what its
\* table does not state.
LEMMA QuantizeMakes ==
  ASSUME layout \in {"fp8", "nvfp4", "mxfp8"}, NEW on, Platform(on), NEW dt \in Floats, NEW n \in Nat \ {0}, NEW k \in Nat \ {0},
         NEW t, t = Tensor(dt, <<n, k>>), NEW c, c = QuantizeCall(t), NEW made \in DispatchedOn(on, c.op, c.args)
  PROVE  /\ Agrees(on, made)
         /\ GivenUp(on, made) \/ (made.result # Raise /\ QuantizedForm(layout, Held(made.result, 0), t))
<1>1. t.dt = dt /\ t.sh = <<n, k>> /\ t.sh[1] = n /\ t.sh[2] = k
  BY TensorFields
<1>2. CASE layout = "fp8"
  <2>1. PICK args : args = [x |-> t, scale |-> F32Scalar, output_type |-> Dtype("e4m3")]
    OBVIOUS
  <2>2. c.op = "quantize_per_tensor_fp8" /\ c.args = args
    BY <1>2, <2>1 DEF QuantizeCall
  <2>3. "quantize_per_tensor_fp8" \in Modelled
    BY DEF Modelled, Fp8Fp4Ops
  <2>4. Agrees(on, made) /\ (made.result = <<Tensor("e4m3", <<n, k>>)>> \/ GivenUp(on, made))
    BY <2>1, <2>2, <2>3, QuantizesFp8, ServedReturns
  <2>5. ASSUME made.result = <<Tensor("e4m3", <<n, k>>)>>
        PROVE  made.result # Raise /\ QuantizedForm(layout, Held(made.result, 0), t)
    <3>1. PICK q : q = Held(made.result, 0)
      OBVIOUS
    <3>2. q = [data |-> Tensor("e4m3", <<n, k>>), scale |-> F32Scalar, block |-> None, group |-> 0, plain |-> None]
      BY <1>2, <2>5, <3>1, HeldForms
    <3>3. QuantizedForm(layout, q, t)
      BY <1>1, <1>2, <3>2 DEF QuantizedForm
    <3> QED BY <2>5, <3>1, <3>3 DEF Raise
  <2> QED BY <2>4, <2>5
<1>3. CASE layout = "nvfp4"
  <2>1. PICK args : args = [x |-> t, per_tensor_scale |-> F32Scalar, pad_16x |-> Needs(t, 16)]
    OBVIOUS
  <2>2. c.op = "quantize_nvfp4" /\ c.args = args
    BY <1>3, <2>1 DEF QuantizeCall
  <2>3. "quantize_nvfp4" \in Modelled
    BY DEF Modelled, Fp8Fp4Ops
  <2>4. PICK codes, block : codes = Nvfp4Codes(Tiles(n, 16), Tiles(k, 16)) /\ block = Blocked("e4m3", Tiles(n, 16) * 16, Tiles(k, 16))
    OBVIOUS
  <2>5. Agrees(on, made) /\ (made.result = <<codes, block>> \/ GivenUp(on, made))
    BY <2>1, <2>2, <2>3, <2>4, QuantizesNvfp4, ServedReturns
  <2>6. ASSUME made.result = <<codes, block>>
        PROVE  made.result # Raise /\ QuantizedForm(layout, Held(made.result, 0), t)
    <3>1. PICK q : q = Held(made.result, 0)
      OBVIOUS
    <3>2. q = [data |-> codes, scale |-> F32Scalar, block |-> block, group |-> 0, plain |-> None]
      BY <1>3, <2>6, <3>1, HeldForms
    <3>3. QuantizedForm(layout, q, t)
      BY <1>1, <1>3, <2>4, <3>2 DEF QuantizedForm
    <3> QED BY <2>6, <3>1, <3>3 DEF Raise
  <2> QED BY <2>5, <2>6
<1>4. CASE layout = "mxfp8"
  <2>1. PICK args : args = [x |-> t, pad_32x |-> Needs(t, 32)]
    OBVIOUS
  <2>2. c.op = "quantize_mxfp8" /\ c.args = args
    BY <1>4, <2>1 DEF QuantizeCall
  <2>3. "quantize_mxfp8" \in Modelled
    BY DEF Modelled, Fp8Fp4Ops
  <2>4. PICK codes, block : codes = Mxfp8Codes(Tiles(n, 32), Tiles(k, 32)) /\ block = Blocked("e8m0", Tiles(n, 32) * 32, Tiles(k, 32))
    OBVIOUS
  <2>5. Agrees(on, made) /\ (made.result = <<codes, block>> \/ GivenUp(on, made))
    BY <2>1, <2>2, <2>3, <2>4, QuantizesMxfp8, ServedReturns
  <2>6. ASSUME made.result = <<codes, block>>
        PROVE  made.result # Raise /\ QuantizedForm(layout, Held(made.result, 0), t)
    <3>1. PICK q : q = Held(made.result, 0)
      OBVIOUS
    <3>2. q = [data |-> codes, scale |-> None, block |-> block, group |-> 0, plain |-> None]
      BY <1>4, <2>6, <3>1, HeldForms
    <3>3. QuantizedForm(layout, q, t)
      BY <1>1, <1>4, <2>4, <3>2 DEF QuantizedForm
    <3> QED BY <2>6, <3>1, <3>3 DEF Raise
  <2> QED BY <2>5, <2>6
<1> QED BY <1>2, <1>3, <1>4

\* An INT8 layout refuses only a rotation that does not divide the rows, or for what a table
\* does not state.
LEMMA QuantizeInt8Makes ==
  ASSUME layout = "int8", NEW on, Platform(on), NEW dt \in Floats, NEW n \in Nat \ {0}, NEW k \in Nat \ {0},
         NEW t, t = Tensor(dt, <<n, k>>), NEW kind \in {"rows", "tensor", "convrot"}, NEW group, group \in Groups \cup {0},
         kind = "convrot" <=> group # 0,
         NEW c, c = QuantizeInt8Call(t, kind, group), NEW made \in DispatchedOn(on, c.op, c.args)
  PROVE  /\ Agrees(on, made)
         /\ made.result = Raise /\ ~GivenUp(on, made) =>
              kind = "convrot" /\ made.op = "quantize_int8_convrot_weight" /\ k % made.args.group_size # 0
         /\ made.result # Raise => QuantizedForm(layout, Held(made.result, group), t)
<1>0. PICK sh : sh = <<n, k>>
  OBVIOUS
<1>1. t.dt = dt /\ t.sh = sh /\ sh[1] = n /\ sh[2] = k /\ Len(sh) = 2 /\ sh \in Seq(Nat) /\ t = Tensor(dt, sh)
  BY <1>0, TensorFields
<1>2. WithLast(sh, 1) = <<n, 1>>
  <2>1. 1 \in Nat
    OBVIOUS
  <2> QED BY ONLY <1>1, <2>1, LastOfPair
<1>3. ASSUME NEW codes, codes = Tensor("i8", sh), NEW s \in {Tensor("f32", Scalar), Tensor("f32", <<n, 1>>)},
             group # 0 => Rotates(group, k), made.result = <<codes, s>>
      PROVE  made.result # Raise /\ QuantizedForm(layout, Held(made.result, group), t)
  <2>1. PICK q : q = Held(made.result, group)
    OBVIOUS
  <2>2. q = [data |-> codes, scale |-> s, block |-> None, group |-> group, plain |-> None]
    BY <1>3, <2>1, HeldForms
  <2>3. QuantizedForm(layout, q, t)
    BY <1>1, <1>3, <2>2 DEF QuantizedForm
  <2> QED BY <1>3, <2>1, <2>3 DEF Raise
<1>4. PICK codes : codes = Tensor("i8", sh)
  OBVIOUS
<1>5. CASE kind = "rows"
  <2>1. PICK args : args = [x |-> t]
    OBVIOUS
  <2>2. c.op = "quantize_int8_rowwise" /\ c.args = args
    BY <1>5, <2>1 DEF QuantizeInt8Call
  <2>3. "quantize_int8_rowwise" \in Modelled
    BY DEF Modelled, Int8Ops
  <2>4. /\ Served(on, "quantize_int8_rowwise", args)
        /\ Declared("quantize_int8_rowwise", args) = <<Tensor("i8", sh), Tensor("f32", WithLast(sh, 1))>>
    BY ONLY <1>1, <2>1, QuantizesInt8Rows, Platform(on), dt \in Floats
  <2>5. Agrees(on, made) /\ (made.result = <<codes, Tensor("f32", <<n, 1>>)>> \/ GivenUp(on, made))
    BY <1>2, <1>4, <2>2, <2>3, <2>4, ServedReturns
  <2> QED BY <1>3, <1>4, <1>5, <2>5 DEF GivenUp
<1>6. CASE kind = "tensor"
  <2>1. PICK args : args = [x |-> t]
    OBVIOUS
  <2>2. c.op = "quantize_int8_tensorwise" /\ c.args = args
    BY <1>6, <2>1 DEF QuantizeInt8Call
  <2>3. "quantize_int8_tensorwise" \in Modelled
    BY DEF Modelled, Int8Ops
  <2>4. /\ Served(on, "quantize_int8_tensorwise", args)
        /\ Declared("quantize_int8_tensorwise", args) = <<Tensor("i8", sh), Tensor("f32", Scalar)>>
    BY ONLY <1>1, <2>1, QuantizesInt8Tensor, Platform(on), dt \in Floats
  <2>5. Agrees(on, made) /\ (made.result = <<codes, Tensor("f32", Scalar)>> \/ GivenUp(on, made))
    BY <1>4, <2>2, <2>3, <2>4, ServedReturns
  <2> QED BY <1>3, <1>4, <1>6, <2>5 DEF GivenUp
<1>7. CASE kind = "convrot"
  <2>1. PICK args : args = [weight |-> t, group_size |-> group]
    OBVIOUS
  <2>2. c.op = "quantize_int8_convrot_weight" /\ c.args = args
    BY <1>7, <2>1 DEF QuantizeInt8Call
  <2>3. /\ Agrees(on, made) /\ made.op = "quantize_int8_convrot_weight" /\ made.args = args
        /\ made.result = IF Rotates(group, sh[2]) THEN <<Tensor("i8", sh), Tensor("f32", WithLast(sh, 1))>> ELSE Raise
    BY ONLY <1>1, <2>1, <2>2, RotatesWeight, Platform(on), dt \in Floats, made \in DispatchedOn(on, c.op, c.args)
  <2>4. group \in PowersOfFour /\ made.args.group_size = group
    BY <1>7, <2>1, <2>3, GroupsAssumption
  <2>5. CASE Rotates(group, k)
    <3>1. made.result = <<codes, Tensor("f32", <<n, 1>>)>>
      BY <1>1, <1>2, <1>4, <2>3, <2>5
    <3> QED BY <1>3, <1>4, <2>3, <2>5, <3>1
  <2>6. CASE ~Rotates(group, k)
    <3>1. made.result = Raise /\ k % group # 0
      BY <1>1, <2>3, <2>4, <2>6 DEF Rotates
    <3> QED BY <1>7, <2>3, <2>4, <3>1
  <2> QED BY <2>5, <2>6
<1> QED BY <1>5, <1>6, <1>7

\* Dequantization gives the matrix back on every backend, but for what its table does not state.
LEMMA CutRestores ==
  ASSUME NEW dt, NEW n \in Nat, NEW k \in Nat, NEW to, NEW a \in Nat, NEW b \in Nat, a >= n, b >= k
  PROVE  Cut(<<Tensor(dt, <<a, b>>)>>, Tensor(to, <<n, k>>)) = Tensor(dt, <<n, k>>)
<1>1. PICK big, small : big = <<a, b>> /\ small = <<n, k>>
  OBVIOUS
<1>2. small = [d \in DOMAIN small |-> IF big[d] < small[d] THEN big[d] ELSE small[d]]
  BY <1>1
<1> QED BY <1>1, <1>2, TensorFields DEF Cut

LEMMA DequantizeMakes ==
  ASSUME layout \in {"fp8", "nvfp4", "mxfp8", "int8"}, NEW on, Platform(on), NEW dt \in Floats,
         NEW n \in Nat \ {0}, NEW k \in Nat \ {0}, NEW t, t = Tensor(dt, <<n, k>>), NEW q, QuantizedForm(layout, q, t),
         NEW c, c = DequantizeCall(q, dt), NEW made \in DispatchedOn(on, c.op, c.args)
  PROVE  /\ Agrees(on, made)
         /\ GivenUp(on, made) \/ (made.result # Raise /\ Cut(made.result, t) = Tensor(dt, <<n, k>>))
<1>1. t.dt = dt /\ t.sh = <<n, k>> /\ t.sh[1] = n /\ t.sh[2] = k
  BY TensorFields
<1>2. ASSUME NEW a \in Nat, NEW b \in Nat, a >= n, b >= k, made.result = <<Tensor(dt, <<a, b>>)>>
      PROVE  made.result # Raise /\ Cut(made.result, t) = Tensor(dt, <<n, k>>)
  <2>1. Cut(made.result, t) = Tensor(dt, <<n, k>>)
    BY <1>2, CutRestores
  <2>2. made.result # Raise
    BY <1>2 DEF Raise
  <2> QED BY <2>1, <2>2
<1>3. CASE layout = "fp8"
  <2>1. q.data = Tensor("e4m3", <<n, k>>) /\ q.scale = F32Scalar
    BY <1>1, <1>3 DEF QuantizedForm
  <2>2. PICK args : args = [x |-> Tensor("e4m3", <<n, k>>), scale |-> F32Scalar, output_type |-> Dtype(dt)]
    OBVIOUS
  <2>3. c.op = "dequantize_per_tensor_fp8" /\ c.args = args
    BY <1>3, <2>1, <2>2 DEF DequantizeCall
  <2>4. "dequantize_per_tensor_fp8" \in Modelled
    BY DEF Modelled, Fp8Fp4Ops
  <2>5. Agrees(on, made) /\ (made.result = <<Tensor(dt, <<n, k>>)>> \/ GivenUp(on, made))
    BY <2>2, <2>3, <2>4, DequantizesFp8, ServedReturns
  <2> QED BY <1>2, <2>5
<1>4. CASE layout = "nvfp4"
  <2>1. PICK i \in Nat \ {0}, l \in Nat \ {0} : i = Tiles(n, 16) /\ l = Tiles(k, 16) /\ i * 16 >= n /\ l * 16 >= k
    BY TilesCover
  <2>2. q.data = Nvfp4Codes(i, l) /\ q.scale = F32Scalar /\ q.block = Blocked("e4m3", i * 16, l)
    BY <1>1, <1>4, <2>1 DEF QuantizedForm
  <2>3. PICK args : args = [qx |-> Nvfp4Codes(i, l), per_tensor_scale |-> F32Scalar,
                            block_scales |-> Blocked("e4m3", i * 16, l), output_type |-> Dtype(dt)]
    OBVIOUS
  <2>4. c.op = "dequantize_nvfp4" /\ c.args = args
    BY <1>4, <2>2, <2>3 DEF DequantizeCall
  <2>5. "dequantize_nvfp4" \in Modelled
    BY DEF Modelled, Fp8Fp4Ops
  <2>6. Agrees(on, made) /\ (made.result = <<Tensor(dt, <<i * 16, l * 16>>)>> \/ GivenUp(on, made))
    BY <2>3, <2>4, <2>5, DequantizesNvfp4, ServedReturns
  <2> QED BY <1>2, <2>1, <2>6
<1>5. CASE layout = "mxfp8"
  <2>1. PICK i \in Nat \ {0}, l \in Nat \ {0} : i = Tiles(n, 32) /\ l = Tiles(k, 32) /\ i * 32 >= n /\ l * 32 >= k
    BY TilesCover
  <2>2. q.data = Mxfp8Codes(i, l) /\ q.block = Blocked("e8m0", i * 32, l)
    BY <1>1, <1>5, <2>1 DEF QuantizedForm
  <2>3. PICK args : args = [qx |-> Mxfp8Codes(i, l), block_scales |-> Blocked("e8m0", i * 32, l), output_type |-> Dtype(dt)]
    OBVIOUS
  <2>4. c.op = "dequantize_mxfp8" /\ c.args = args
    BY <1>5, <2>2, <2>3 DEF DequantizeCall
  <2>5. "dequantize_mxfp8" \in Modelled
    BY DEF Modelled, Fp8Fp4Ops
  <2>6. Agrees(on, made) /\ (made.result = <<Tensor(dt, <<i * 32, l * 32>>)>> \/ GivenUp(on, made))
    BY <2>3, <2>4, <2>5, DequantizesMxfp8, ServedReturns
  <2> QED BY <1>2, <2>1, <2>6
<1>6. CASE layout = "int8"
  <2>1. PICK s, group : s = q.scale /\ group = q.group
    OBVIOUS
  <2>2. q.data = Tensor("i8", <<n, k>>) /\ s.dt = "f32" /\ (group # 0 => Rotates(group, k))
    BY <1>1, <1>6, <2>1, TensorFields DEF QuantizedForm
  <2>3. CASE group = 0
    <3>1. PICK args : args = [q |-> Tensor("i8", <<n, k>>), scale |-> s, output_dtype |-> Dtype(dt)]
      OBVIOUS
    <3>2. c.op = "dequantize_int8_simple_dtype" /\ c.args = args
      BY <1>6, <2>1, <2>2, <2>3, <3>1 DEF DequantizeCall
    <3>3. "dequantize_int8_simple_dtype" \in Modelled
      BY DEF Modelled, Int8Ops
    <3>4. Agrees(on, made) /\ (made.result = <<Tensor(dt, <<n, k>>)>> \/ GivenUp(on, made))
      BY <2>2, <3>1, <3>2, <3>3, DequantizesInt8, ServedReturns
    <3> QED BY <1>2, <3>4
  <2>4. CASE group # 0
    <3>1. PICK args : args = [q |-> Tensor("i8", <<n, k>>), scale |-> s, group_size |-> group, output_dtype |-> Dtype(dt)]
      OBVIOUS
    <3>2. c.op = "dequantize_int8_convrot_weight_dtype" /\ c.args = args
      BY <1>6, <2>1, <2>2, <2>4, <3>1 DEF DequantizeCall
    <3>3. "dequantize_int8_convrot_weight_dtype" \in Modelled
      BY DEF Modelled, Int8Ops
    <3>4. Agrees(on, made) /\ (made.result = <<Tensor(dt, <<n, k>>)>> \/ GivenUp(on, made))
      BY <2>2, <2>4, <3>1, <3>2, <3>3, DequantizesRotated, ServedReturns
    <3> QED BY <1>2, <3>4
  <2> QED BY <2>3, <2>4
<1> QED BY <1>3, <1>4, <1>5, <1>6

-----------------------------------------------------------------------------
(* One step. *)

LEMMA Frame ==
  ASSUME CallsInvariant, UNCHANGED <<platform, layout, x, w>>
  PROVE  platform' \in DOMAIN Profiles /\ Given' /\ Here' = Here
BY DEF CallsInvariant, Given, Here

LEMMA HerePlatform == ASSUME CallsInvariant PROVE Platform(Here)
BY Platforms DEF CallsInvariant, Here

LEMMA QuantizeWeightKeeps == ASSUME CallsInvariant, QuantizeWeight PROVE CallsInvariant'
<1>1. phase = "start" /\ layout # "plain" /\ UNCHANGED <<platform, layout, x, w, qx, product>>
  BY DEF QuantizeWeight
<1>2. PICK kind \in (IF layout = "int8" THEN {"rows", "tensor", "convrot"} ELSE {"whole"}), group \in Groups :
        /\ kind = "convrot" <=> group # 0
        /\ LET c == IF layout = "int8" THEN QuantizeInt8Call(w, kind, group) ELSE QuantizeCall(w)
           IN  \E made \in Dispatched(c.op, c.args) :
                 /\ call' = made
                 /\ qw' = IF made.result = Raise THEN qw ELSE Held(made.result, group)
                 /\ phase' = IF made.result = Raise THEN "refused" ELSE "weight"
  BY DEF QuantizeWeight
<1>3. PICK c : c = IF layout = "int8" THEN QuantizeInt8Call(w, kind, group) ELSE QuantizeCall(w)
  OBVIOUS
<1>4. PICK made \in DispatchedOn(Here, c.op, c.args) :
        /\ call' = made
        /\ qw' = IF made.result = Raise THEN qw ELSE Held(made.result, group)
        /\ phase' = IF made.result = Raise THEN "refused" ELSE "weight"
  BY <1>2, <1>3 DEF Dispatched
<1>5. layout \in {"fp8", "nvfp4", "mxfp8", "int8"} /\ Given
  BY <1>1 DEF CallsInvariant, Given
<1>6. PICK dt \in Floats, n \in Nat \ {0}, k \in Nat \ {0}, sh \in Seq(Nat \ {0}) : x = Tensor(dt, sh) /\ w = Tensor(dt, <<n, k>>)
  BY <1>1, <1>5, Parts
<1>7. Platform(Here)
  BY HerePlatform
<1>8. LastDim(w) = k
  <2>1. w.sh = <<n, k>>
    BY <1>6, TensorFields
  <2> QED BY ONLY <2>1 DEF LastDim
<1>9. /\ Agrees(Here, made)
      /\ made.result = Raise /\ ~GivenUp(Here, made) =>
           made.op = "quantize_int8_convrot_weight" /\ LastDim(w) % made.args.group_size # 0
      /\ made.result # Raise => QuantizedForm(layout, Held(made.result, group), w)
  <2>1. CASE layout = "int8"
    <3>1. c = QuantizeInt8Call(w, kind, group) /\ kind \in {"rows", "tensor", "convrot"} /\ group \in Groups \cup {0}
      BY <1>2, <1>3, <2>1
    <3> QED BY ONLY <1>2, <1>4, <1>6, <1>7, <1>8, <2>1, <3>1, QuantizeInt8Makes
  <2>2. CASE layout # "int8"
    <3>1. c = QuantizeCall(w) /\ group = 0 /\ layout \in {"fp8", "nvfp4", "mxfp8"}
      BY <1>2, <1>3, <1>5, <2>2
    <3>2. GivenUp(Here, made) => made.result = Raise
      BY DEF GivenUp
    <3> QED BY ONLY <1>4, <1>6, <1>7, <3>1, <3>2, QuantizeMakes
  <2> QED BY <2>1, <2>2
<1>10. platform' \in DOMAIN Profiles /\ Given' /\ Here' = Here
  BY <1>1, Frame
<1>11. phase' = "refused" => Excused'
  BY <1>1, <1>4, <1>9, <1>10 DEF Excused
<1> QED BY <1>1, <1>4, <1>9, <1>10, <1>11 DEF CallsInvariant

LEMMA QuantizeActivationKeeps == ASSUME HeldRanks \subseteq {2}, CallsInvariant, QuantizeActivation PROVE CallsInvariant'
<1>1. phase = "weight" /\ Rank(x) = 2 /\ UNCHANGED <<platform, layout, x, w, qw, product>>
  BY DEF QuantizeActivation
<1>2. PICK c : c = IF layout = "int8" THEN QuantizeInt8Call(x, "rows", 0) ELSE QuantizeCall(x)
  OBVIOUS
<1>3. PICK made \in DispatchedOn(Here, c.op, c.args) :
        /\ call' = made
        /\ qx' = IF made.result = Raise THEN qx ELSE Held(made.result, 0)
        /\ phase' = IF made.result = Raise THEN "refused" ELSE "ready"
  BY <1>2 DEF QuantizeActivation, Dispatched
<1>4. layout # "plain" /\ layout \in {"fp8", "nvfp4", "mxfp8", "int8"} /\ Given
  BY <1>1 DEF CallsInvariant, Given
<1>5. PICK dt \in Floats, n \in Nat \ {0}, k \in Nat \ {0}, sh \in Seq(Nat \ {0}) : x = Tensor(dt, sh) /\ w = Tensor(dt, <<n, k>>)
  BY <1>4, Parts
<1>6. Platform(Here)
  BY HerePlatform
<1>7. PICK rows \in Nat \ {0}, width \in Nat \ {0} : x = Tensor(dt, <<rows, width>>)
  <2>1. Len(sh) = 2
    BY <1>1, <1>5, TensorFields DEF Rank
  <2>2. 1 \in 1 .. Len(sh) /\ 2 \in 1 .. Len(sh)
    BY <2>1
  <2>3. sh[1] \in Nat \ {0} /\ sh[2] \in Nat \ {0}
    BY ONLY <2>1, <2>2, sh \in Seq(Nat \ {0}), ElementOfSeq
  <2>4. sh = <<sh[1], sh[2]>>
    BY ONLY <2>1, sh \in Seq(Nat \ {0})
  <2> QED BY <1>5, <2>3, <2>4
<1>8. /\ Agrees(Here, made)
      /\ made.result = Raise => GivenUp(Here, made)
      /\ made.result # Raise => QuantizedForm(layout, Held(made.result, 0), x)
  <2>1. CASE layout = "int8"
    <3>1. /\ c = QuantizeInt8Call(x, "rows", 0) /\ "rows" \in {"rows", "tensor", "convrot"} /\ 0 \in Groups \cup {0}
          /\ "rows" # "convrot" /\ ("rows" = "convrot" <=> 0 # 0)
      BY <1>2, <2>1
    <3> QED BY ONLY <1>3, <1>6, <1>7, <2>1, <3>1, dt \in Floats, QuantizeInt8Makes
  <2>2. CASE layout # "int8"
    <3>1. c = QuantizeCall(x) /\ layout \in {"fp8", "nvfp4", "mxfp8"}
      BY <1>2, <1>4, <2>2
    <3>2. GivenUp(Here, made) => made.result = Raise
      BY DEF GivenUp
    <3> QED BY ONLY <1>3, <1>6, <1>7, <3>1, <3>2, dt \in Floats, QuantizeMakes
  <2> QED BY <2>1, <2>2
<1>9. platform' \in DOMAIN Profiles /\ Given' /\ Here' = Here
  BY <1>1, Frame
<1>10. phase' = "refused" => Excused'
  BY <1>3, <1>8, <1>9 DEF Excused
<1> QED BY <1>1, <1>3, <1>4, <1>8, <1>9, <1>10 DEF CallsInvariant, Rank

LEMMA DequantizeWeightKeeps == ASSUME CallsInvariant, DequantizeWeight PROVE CallsInvariant'
<1>1. phase \in {"weight", "ready", "fallback"} /\ UNCHANGED <<platform, layout, x, w, qx, product>>
  BY DEF DequantizeWeight
<1>2. layout # "plain" /\ layout \in {"fp8", "nvfp4", "mxfp8", "int8"} /\ Given /\ QuantizedForm(layout, qw, w)
  BY <1>1 DEF CallsInvariant, Given
<1>3. PICK dt \in Floats, n \in Nat \ {0}, k \in Nat \ {0}, sh \in Seq(Nat \ {0}) : x = Tensor(dt, sh) /\ w = Tensor(dt, <<n, k>>)
  BY <1>2, Parts
<1>4. w.dt = dt /\ w.sh = <<n, k>>
  BY <1>3, TensorFields
<1>5. PICK c : c = DequantizeCall(qw, dt)
  OBVIOUS
<1>6. PICK made \in DispatchedOn(Here, c.op, c.args) :
        /\ call' = made
        /\ qw' = IF made.result = Raise THEN qw ELSE [qw EXCEPT !.plain = Cut(made.result, w)]
        /\ phase' = IF made.result = Raise THEN "failed" ELSE phase
  BY <1>4, <1>5 DEF DequantizeWeight, Dispatched
<1>7. Platform(Here)
  BY HerePlatform
<1>8. /\ Agrees(Here, made)
      /\ GivenUp(Here, made) \/ (made.result # Raise /\ Cut(made.result, w) = Tensor(dt, <<n, k>>))
  BY ONLY <1>2, <1>3, <1>5, <1>6, <1>7, DequantizeMakes
<1>9. platform' \in DOMAIN Profiles /\ Given' /\ Here' = Here
  BY <1>1, Frame
<1>10. CASE GivenUp(Here, made)
  <2>1. phase' = "failed" /\ call' = made
    BY <1>6, <1>10 DEF GivenUp
  <2>2. Excused'
    BY <1>9, <1>10, <2>1 DEF Excused
  <2> QED BY <1>1, <1>2, <1>8, <1>9, <2>1, <2>2 DEF CallsInvariant
<1>11. CASE ~GivenUp(Here, made)
  <2>1. qw' = [qw EXCEPT !.plain = Tensor(w.dt, w.sh)] /\ phase' = phase /\ call' = made
    BY <1>4, <1>6, <1>8, <1>11
  <2>2. QuantizedForm(layout, qw', w)
    BY <1>2, <2>1 DEF QuantizedForm
  <2> QED BY <1>1, <1>2, <1>8, <1>9, <2>1, <2>2 DEF CallsInvariant, Rank
<1> QED BY <1>10, <1>11

LEMMA DequantizeActivationKeeps == ASSUME CallsInvariant, DequantizeActivation PROVE CallsInvariant'
<1>1. phase \in {"ready", "fallback"} /\ qx.plain = None /\ UNCHANGED <<platform, layout, x, w, qw, product>>
  BY DEF DequantizeActivation
<1>2. layout # "plain" /\ layout \in {"fp8", "nvfp4", "mxfp8", "int8"} /\ Given
  BY <1>1 DEF CallsInvariant, Given
<1>3. PICK dt \in Floats, n \in Nat \ {0}, k \in Nat \ {0}, sh \in Seq(Nat \ {0}) : x = Tensor(dt, sh) /\ w = Tensor(dt, <<n, k>>)
  BY <1>2, Parts
<1>4. x.dt = dt /\ x.sh = sh
  BY <1>3, TensorFields
<1>5. x # None
  <2>1. None.dt = "none" /\ "none" \notin Floats
    BY TensorFields DEF None, Floats, Halves
  <2> QED BY <1>4, <2>1
<1>6. Rank(x) = 2 /\ QuantizedForm(layout, qx, x)
  BY <1>1, <1>5 DEF CallsInvariant
<1>7. PICK rows \in Nat \ {0}, width \in Nat \ {0} : sh = <<rows, width>>
  <2>1. Len(sh) = 2
    BY <1>4, <1>6 DEF Rank
  <2>2. 1 \in 1 .. Len(sh) /\ 2 \in 1 .. Len(sh)
    BY <2>1
  <2>3. sh[1] \in Nat \ {0} /\ sh[2] \in Nat \ {0}
    BY ONLY <2>1, <2>2, sh \in Seq(Nat \ {0}), ElementOfSeq
  <2>4. sh = <<sh[1], sh[2]>>
    BY ONLY <2>1, sh \in Seq(Nat \ {0})
  <2> QED BY <2>3, <2>4
<1>8. PICK c : c = DequantizeCall(qx, dt)
  OBVIOUS
<1>9. PICK made \in DispatchedOn(Here, c.op, c.args) :
        /\ call' = made
        /\ qx' = IF made.result = Raise THEN qx ELSE [qx EXCEPT !.plain = Cut(made.result, x)]
        /\ phase' = IF made.result = Raise THEN "failed" ELSE phase
  BY <1>4, <1>8 DEF DequantizeActivation, Dispatched
<1>10. Platform(Here)
  BY HerePlatform
<1>11. /\ Agrees(Here, made)
       /\ GivenUp(Here, made) \/ (made.result # Raise /\ Cut(made.result, x) = Tensor(dt, <<rows, width>>))
  <2>1. x = Tensor(dt, <<rows, width>>)
    BY <1>3, <1>7
  <2> QED BY ONLY <1>2, <1>6, <1>8, <1>9, <1>10, <2>1, dt \in Floats, DequantizeMakes
<1>12. platform' \in DOMAIN Profiles /\ Given' /\ Here' = Here
  BY <1>1, Frame
<1>13. CASE GivenUp(Here, made)
  <2>1. phase' = "failed" /\ call' = made
    BY <1>9, <1>13 DEF GivenUp
  <2>2. Excused'
    BY <1>12, <1>13, <2>1 DEF Excused
  <2> QED BY <1>1, <1>2, <1>11, <1>12, <2>1, <2>2 DEF CallsInvariant
<1>14. CASE ~GivenUp(Here, made)
  <2>1. qx' = [qx EXCEPT !.plain = Tensor(x.dt, x.sh)] /\ phase' = phase /\ call' = made
    BY <1>4, <1>7, <1>9, <1>11, <1>14
  <2>2. QuantizedForm(layout, qx', x)
    BY <1>6, <2>1 DEF QuantizedForm
  <2> QED BY <1>1, <1>2, <1>6, <1>11, <1>12, <2>1, <2>2 DEF CallsInvariant, Rank
<1> QED BY <1>13, <1>14

LEMMA MultiplyWeightOnlyKeeps == ASSUME CallsInvariant, MultiplyWeightOnly PROVE CallsInvariant'
<1>1. phase = "weight" /\ layout # "int8" /\ UNCHANGED <<platform, layout, x, w, qw, call>>
  BY DEF MultiplyWeightOnly
<1>2. layout # "plain" /\ Given /\ QuantizedForm(layout, qw, w)
  BY <1>1 DEF CallsInvariant
<1>3. platform' \in DOMAIN Profiles /\ Given' /\ Here' = Here
  BY <1>1, Frame
<1>4. CASE layout = "fp8" /\ "fp8" \in Here.has
  <2>1. product' = <<Tensor(x.dt, WithLast(x.sh, Dim(qw.data, 0)))>> /\ phase' = "done" /\ qx' = qx
    BY <1>4 DEF MultiplyWeightOnly
  <2>2. qw.data = Tensor("e4m3", w.sh)
    BY <1>2, <1>4 DEF QuantizedForm
  <2>3. Dim(qw.data, 0) = Dim(w, 0)
    BY <2>2, TensorFields DEF Dim
  <2> QED BY <1>1, <1>2, <1>3, <2>1, <2>3 DEF CallsInvariant
<1>5. CASE ~(layout = "fp8" /\ "fp8" \in Here.has)
  <2>1. qx' = [NotHeld EXCEPT !.plain = x] /\ phase' = "fallback" /\ product' = product
    BY <1>5 DEF MultiplyWeightOnly
  <2>2. qx'.plain = x
    BY <2>1 DEF NotHeld
  <2> QED BY <1>1, <1>2, <1>3, <2>1, <2>2 DEF CallsInvariant
<1> QED BY <1>4, <1>5

LEMMA MultiplyFp8Keeps == ASSUME CallsInvariant, MultiplyFp8 PROVE CallsInvariant'
<1>1. phase = "ready" /\ layout = "fp8" /\ UNCHANGED <<platform, layout, x, w, qx, qw, call>>
  BY DEF MultiplyFp8
<1>2. Given /\ QuantizedForm(layout, qw, w) /\ QuantizedForm(layout, qx, x) /\ Rank(x) = 2
  BY <1>1 DEF CallsInvariant
<1>3. PICK dt \in Floats, n \in Nat \ {0}, k \in Nat \ {0}, sh \in Seq(Nat \ {0}) : x = Tensor(dt, sh) /\ w = Tensor(dt, <<n, k>>)
  BY <1>1, <1>2, Parts
<1>4. qw.data = Tensor("e4m3", w.sh) /\ qx.data = Tensor("e4m3", x.sh)
  BY <1>1, <1>2 DEF QuantizedForm
<1>5. x.dt = dt /\ x.sh = sh /\ qx.data.sh = sh /\ qw.data.sh = w.sh
  BY <1>3, <1>4, TensorFields
<1>6. Dim(qw.data, 0) = Dim(w, 0) /\ Dim(qx.data, 0) = sh[1]
  BY <1>5 DEF Dim
<1>7. WithLast(sh, Dim(w, 0)) = <<sh[1], Dim(w, 0)>>
  <2>1. Len(sh) = 2 /\ sh \in Seq(Nat)
    BY <1>2, <1>5 DEF Rank
  <2>2. Dim(w, 0) = n
    BY <1>3, TensorFields DEF Dim
  <2> QED BY ONLY <2>1, <2>2, n \in Nat \ {0}, LastOfPair
<1>8. PICK ok : /\ product' = Returns(ok, <<Tensor(x.dt, <<Dim(qx.data, 0), Dim(qw.data, 0)>>)>>)
                /\ phase' = IF product' = Raise THEN "fallback" ELSE "done"
  BY DEF MultiplyFp8
<1>9. phase' \in {"fallback", "done"}
  BY <1>8
<1>10. phase' = "done" => product' = <<Tensor(x.dt, WithLast(x.sh, Dim(w, 0)))>>
  BY <1>5, <1>6, <1>7, <1>8 DEF Returns
<1>11. platform' \in DOMAIN Profiles /\ Given' /\ Here' = Here
  BY <1>1, Frame
<1> QED BY <1>1, <1>2, <1>9, <1>10, <1>11 DEF CallsInvariant, Rank

LEMMA MultiplyPlainKeeps == ASSUME CallsInvariant, MultiplyPlain PROVE CallsInvariant'
<1>1. /\ phase = "fallback" /\ qx.plain # None /\ qw.plain # None
      /\ UNCHANGED <<platform, layout, x, w, qx, qw, call>>
  BY DEF MultiplyPlain
<1>2. /\ layout # "plain" /\ Given /\ layout # "int8" /\ QuantizedForm(layout, qw, w)
      /\ qx.plain = x \/ QuantizedForm(layout, qx, x)
  BY <1>1 DEF CallsInvariant
<1>3. PICK dt \in Floats, n \in Nat \ {0}, k \in Nat \ {0}, sh \in Seq(Nat \ {0}) :
        x = Tensor(dt, sh) /\ w = Tensor(dt, <<n, k>>) /\ sh[Len(sh)] = k
  BY <1>2, Parts
<1>4. x.dt = dt /\ x.sh = sh /\ w.dt = dt /\ w.sh = <<n, k>>
  BY <1>3, TensorFields
<1>5. qx.plain = x /\ qw.plain = w
  <2>1. qw.plain = Tensor(w.dt, w.sh)
    BY <1>1, <1>2 DEF QuantizedForm
  <2>2. qx.plain = x \/ qx.plain = Tensor(x.dt, x.sh)
    BY <1>1, <1>2 DEF QuantizedForm
  <2> QED BY <1>3, <1>4, <2>1, <2>2
<1>6. LastDim(x) = LastDim(w)
  BY <1>2 DEF Given
<1>7. phase' = "done" /\ product' = <<Tensor(x.dt, WithLast(x.sh, Dim(w, 0)))>>
  BY <1>4, <1>5, <1>6 DEF MultiplyPlain, Returns
<1>8. platform' \in DOMAIN Profiles /\ Given' /\ Here' = Here
  BY <1>1, Frame
<1> QED BY <1>1, <1>2, <1>7, <1>8 DEF CallsInvariant

LEMMA RoundStochasticallyKeeps == ASSUME CallsInvariant, RoundStochastically PROVE CallsInvariant'
<1>1. phase = "start" /\ layout = "fp8" /\ UNCHANGED <<platform, layout, x, w, qx, qw, product>>
  BY DEF RoundStochastically
<1>2. Given
  BY DEF CallsInvariant
<1>3. PICK dt \in Floats, n \in Nat \ {0}, k \in Nat \ {0}, sh \in Seq(Nat \ {0}) : x = Tensor(dt, sh) /\ w = Tensor(dt, <<n, k>>)
  BY <1>1, <1>2, Parts
<1>4. PICK to \in Fp8s :
        \E made \in Dispatched("stochastic_rounding_fp8", [x |-> w, rng |-> Tensor("u8", w.sh), output_type |-> Dtype(to)]) :
          call' = made /\ phase' = IF made.result = Raise THEN "failed" ELSE "rounded"
  BY DEF RoundStochastically
<1>5. PICK args : args = [x |-> w, rng |-> Tensor("u8", w.sh), output_type |-> Dtype(to)]
  OBVIOUS
<1>6. PICK made \in DispatchedOn(Here, "stochastic_rounding_fp8", args) :
        call' = made /\ phase' = IF made.result = Raise THEN "failed" ELSE "rounded"
  BY <1>4, <1>5 DEF Dispatched
<1>7. Platform(Here)
  BY HerePlatform
<1>8. args = [x |-> Tensor(dt, <<n, k>>), rng |-> Tensor("u8", <<n, k>>), output_type |-> Dtype(to)]
  BY <1>3, <1>5, TensorFields
<1>9. Served(Here, "stochastic_rounding_fp8", args) /\ Declared("stochastic_rounding_fp8", args) = <<Tensor(to, <<n, k>>)>>
  BY ONLY <1>7, <1>8, RoundsFp8, dt \in Floats, to \in Fp8s
<1>10. "stochastic_rounding_fp8" \in Modelled
  BY DEF Modelled, Fp8Fp4Ops
<1>11. Agrees(Here, made) /\ (made.result = <<Tensor(to, <<n, k>>)>> \/ GivenUp(Here, made))
  BY ONLY <1>6, <1>7, <1>9, <1>10, ServedReturns
<1>12. platform' \in DOMAIN Profiles /\ Given' /\ Here' = Here
  BY <1>1, Frame
<1>13. phase' \in {"rounded", "failed"} /\ call' = made
  BY <1>6
<1>14. phase' = "failed" => Excused'
  <2>1. made.result = <<Tensor(to, <<n, k>>)>> => phase' = "rounded"
    BY <1>6 DEF Raise
  <2> QED BY <1>11, <1>12, <1>13, <2>1 DEF Excused
<1> QED BY <1>1, <1>11, <1>12, <1>13, <1>14 DEF CallsInvariant

LEMMA RouteKeeps == ASSUME CallsInvariant, Route PROVE CallsInvariant'
<1>1. layout = "plain" /\ phase' = "routed" /\ UNCHANGED <<platform, layout, x, w, qx, qw, product>>
  BY DEF Route
<1>2. platform' \in DOMAIN Profiles /\ Given' /\ Here' = Here
  BY <1>1, Frame
<1> QED BY <1>1, <1>2 DEF CallsInvariant

LEMMA MultiplyBlocksKeeps == ASSUME CallsInvariant, MultiplyBlocks PROVE CallsInvariant'
<1>1. phase = "ready" /\ layout \in {"nvfp4", "mxfp8"} /\ UNCHANGED <<platform, layout, x, w, qx, qw>>
  BY DEF MultiplyBlocks
<1>2. Given /\ QuantizedForm(layout, qw, w) /\ QuantizedForm(layout, qx, x) /\ Rank(x) = 2
  BY <1>1 DEF CallsInvariant
<1>3. PICK dt \in Floats, n \in Nat \ {0}, k \in Nat \ {0}, sh \in Seq(Nat \ {0}) :
        x = Tensor(dt, sh) /\ w = Tensor(dt, <<n, k>>) /\ Len(sh) >= 1 /\ (layout # "int8" => sh[Len(sh)] = k)
  BY <1>1, <1>2, Parts
<1>4. x.dt = dt /\ x.sh = sh /\ w.sh = <<n, k>> /\ Dim(w, 0) = n
  BY <1>3, TensorFields DEF Dim
<1>5. Len(sh) = 2 /\ sh \in Seq(Nat)
  BY <1>2, <1>4 DEF Rank
<1>6. PICK rows \in Nat \ {0} : rows = sh[1]
  <2>1. 1 \in 1 .. Len(sh)
    BY <1>5
  <2>2. sh[1] \in Nat \ {0}
    BY ONLY <2>1, sh \in Seq(Nat \ {0}), ElementOfSeq
  <2> QED BY <2>2
<1>7. sh[2] = k
  BY <1>1, <1>3, <1>5
<1>8. WithLast(x.sh, Dim(w, 0)) = <<rows, n>>
  BY ONLY <1>4, <1>5, <1>6, n \in Nat \ {0}, LastOfPair
<1>9. Platform(Here)
  BY HerePlatform
<1>10. PICK c : c = ScaledMMCall
  OBVIOUS
<1>11. PICK made \in DispatchedOn(Here, c.op, c.args) :
         call' = made /\ product' = Sliced(made.result) /\ phase' = IF made.result = Raise THEN "fallback" ELSE "done"
  BY <1>10 DEF MultiplyBlocks, Dispatched
<1>12. Agrees(Here, made) /\ (made.result = Raise \/ \E sizes : made.result = <<Tensor(dt, sizes)>>)
  <2>1. CASE layout = "nvfp4"
    <3>1. PICK i \in Nat \ {0}, j \in Nat \ {0}, l \in Nat \ {0} : i = Tiles(rows, 16) /\ j = Tiles(n, 16) /\ l = Tiles(k, 16)
      BY TilesCover
    <3>2. /\ qx.data = Nvfp4Codes(i, l) /\ qx.scale = F32Scalar /\ qx.block = Blocked("e4m3", i * 16, l)
          /\ qw.data = Nvfp4Codes(j, l) /\ qw.scale = F32Scalar /\ qw.block = Blocked("e4m3", j * 16, l)
      BY <1>2, <1>4, <1>6, <1>7, <2>1, <3>1 DEF QuantizedForm
    <3>3. PICK args : args = [a |-> Nvfp4Codes(i, l), b |-> Nvfp4Codes(j, l),
                              tensor_scale_a |-> F32Scalar, tensor_scale_b |-> F32Scalar,
                              block_scale_a |-> Blocked("e4m3", i * 16, l), block_scale_b |-> Blocked("e4m3", j * 16, l),
                              out_dtype |-> Dtype(dt)]
      OBVIOUS
    <3>4. c.op = "scaled_mm_nvfp4" /\ c.args = args
      BY <1>4, <1>10, <2>1, <3>2, <3>3 DEF ScaledMMCall
    <3>5. Offered(Here, "scaled_mm_nvfp4", args) /\ Declared("scaled_mm_nvfp4", args) = <<Tensor(dt, <<i * 16, j * 16>>)>>
      BY ONLY <1>9, <3>3, MultipliesNvfp4, dt \in Floats, i \in Nat \ {0}, j \in Nat \ {0}, l \in Nat \ {0}
    <3>6. "scaled_mm_nvfp4" \in Modelled
      BY DEF Modelled, Fp8Fp4Ops
    <3>7. Agrees(Here, made) /\ made.result \in {Raise, Declared("scaled_mm_nvfp4", args)}
      BY ONLY <1>9, <1>11, <3>4, <3>5, <3>6, OfferedAgrees
    <3> QED BY <3>5, <3>7
  <2>2. CASE layout = "mxfp8"
    <3>1. PICK i \in Nat \ {0}, j \in Nat \ {0}, l \in Nat \ {0} : i = Tiles(rows, 32) /\ j = Tiles(n, 32) /\ l = Tiles(k, 32)
      BY TilesCover
    <3>2. /\ qx.data = Mxfp8Codes(i, l) /\ qx.block = Blocked("e8m0", i * 32, l)
          /\ qw.data = Mxfp8Codes(j, l) /\ qw.block = Blocked("e8m0", j * 32, l)
      BY <1>2, <1>4, <1>6, <1>7, <2>2, <3>1 DEF QuantizedForm
    <3>3. PICK args : args = [a |-> Mxfp8Codes(i, l), b |-> Mxfp8Codes(j, l),
                              block_scale_a |-> Blocked("e8m0", i * 32, l), block_scale_b |-> Blocked("e8m0", j * 32, l),
                              out_dtype |-> Dtype(dt)]
      OBVIOUS
    <3>4. c.op = "scaled_mm_mxfp8" /\ c.args = args
      BY <1>4, <1>10, <2>2, <3>2, <3>3 DEF ScaledMMCall
    <3>5. Offered(Here, "scaled_mm_mxfp8", args) /\ Declared("scaled_mm_mxfp8", args) = <<Tensor(dt, <<i * 32, j * 32>>)>>
      BY ONLY <1>9, <3>3, MultipliesMxfp8, dt \in Floats, i \in Nat \ {0}, j \in Nat \ {0}, l \in Nat \ {0}
    <3>6. "scaled_mm_mxfp8" \in Modelled
      BY DEF Modelled, Fp8Fp4Ops
    <3>7. Agrees(Here, made) /\ made.result \in {Raise, Declared("scaled_mm_mxfp8", args)}
      BY ONLY <1>9, <1>11, <3>4, <3>5, <3>6, OfferedAgrees
    <3> QED BY <3>5, <3>7
  <2> QED BY <1>1, <2>1, <2>2
<1>13. made.result # Raise => product' = <<Tensor(x.dt, WithLast(x.sh, Dim(w, 0)))>>
  <2> SUFFICES ASSUME made.result # Raise PROVE product' = <<Tensor(x.dt, WithLast(x.sh, Dim(w, 0)))>>
    OBVIOUS
  <2>1. PICK sizes : made.result = <<Tensor(dt, sizes)>>
    BY <1>12
  <2>2. made.result[1].dt = dt
    BY <2>1, TensorFields
  <2>3. Dim(x, 0) = rows
    BY <1>4, <1>6 DEF Dim
  <2> QED BY <1>4, <1>8, <1>11, <2>2, <2>3 DEF Sliced
<1>14. phase' \in {"fallback", "done"} /\ (phase' = "done" => made.result # Raise) /\ call' = made
  BY <1>11
<1>15. platform' \in DOMAIN Profiles /\ Given' /\ Here' = Here
  BY <1>1, Frame
<1> QED BY <1>1, <1>2, <1>12, <1>13, <1>14, <1>15 DEF CallsInvariant, Rank

LEMMA MultiplyInt8Keeps == ASSUME CallsInvariant, MultiplyInt8 PROVE CallsInvariant'
<1>1. layout = "int8" /\ phase \in {"weight", "ready"} /\ UNCHANGED <<platform, layout, x, w, qx, qw>>
  BY DEF MultiplyInt8
<1>2. Given /\ QuantizedForm(layout, qw, w)
  BY <1>1 DEF CallsInvariant
<1>3. PICK dt \in Floats, n \in Nat \ {0}, k \in Nat \ {0}, sh \in Seq(Nat \ {0}) :
        x = Tensor(dt, sh) /\ w = Tensor(dt, <<n, k>>) /\ Len(sh) >= 1
  BY <1>1, <1>2, Parts
<1>4. x.dt = dt /\ x.sh = sh /\ w.sh = <<n, k>> /\ Dim(w, 0) = n /\ LastDim(x) = sh[Len(sh)] /\ LastDim(w) = k
  <2>1. x.dt = dt /\ x.sh = sh /\ w.sh = <<n, k>>
    BY <1>3, TensorFields
  <2>2. Len(<<n, k>>) = 2 /\ <<n, k>>[1] = n /\ <<n, k>>[2] = k
    OBVIOUS
  <2> QED BY ONLY <2>1, <2>2 DEF Dim, LastDim
<1>5. PICK fused, made :
        /\ LastDim(w) * Width([input_act |-> fused.act]) = LastDim(x)
        /\ made \in DispatchedOn(Here, "int8_linear", Int8LinearCall(fused).args)
        /\ call' = made /\ product' = made.result /\ phase' = IF made.result = Raise THEN "failed" ELSE "done"
  BY DEF MultiplyInt8, Dispatched
<1>6. PICK s, group, act, rotated, norm, residual, scaled :
        /\ s = qw.scale /\ group = qw.group /\ act = fused.act /\ rotated = (group # 0)
        /\ norm = IF act = "rms_norm" THEN Tensor(dt, <<sh[Len(sh)]>>) ELSE None
        /\ residual = IF fused.residual THEN Tensor(dt, WithLast(sh, n)) ELSE None
        /\ scaled = IF fused.residual THEN Tensor(dt, <<n>>) ELSE None
  OBVIOUS
<1>7. PICK args : args = [x |-> Tensor(dt, sh), weight |-> Tensor("i8", <<n, k>>), weight_scale |-> s, out_dtype |-> Dtype(dt),
                          convrot |-> rotated, convrot_groupsize |-> group, input_act |-> act,
                          input_act_weight |-> norm, residual |-> residual, residual_scale |-> scaled]
  OBVIOUS
<1>8. /\ qw.data = Tensor("i8", <<n, k>>) /\ s \in {Tensor("f32", Scalar), Tensor("f32", <<n, 1>>)}
      /\ group \in Groups \cup {0} /\ (group # 0 => Rotates(group, k))
  <2>1. w.sh[1] = n /\ w.sh[2] = k
    BY <1>4
  <2> QED BY <1>1, <1>2, <1>4, <1>6, <2>1 DEF QuantizedForm
<1>9. Int8LinearCall(fused).args = args
  BY <1>3, <1>4, <1>6, <1>7, <1>8 DEF Int8LinearCall
<1>10. k * Width([input_act |-> act]) = sh[Len(sh)]
  BY <1>4, <1>5, <1>6
<1>11. (act = "rms_norm" => norm.sh = <<sh[Len(sh)]>>) /\ (residual # None => scaled # None)
  <2>1. None.dt = "none" /\ "none" \notin Floats
    BY TensorFields DEF None, Floats, Halves
  <2>2. Tensor(dt, <<sh[Len(sh)]>>).sh = <<sh[Len(sh)]>> /\ Tensor(dt, <<n>>).dt = dt
    BY TensorFields
  <2> QED BY <1>6, <2>1, <2>2
<1>12. Platform(Here)
  BY HerePlatform
<1>13. Served(Here, "int8_linear", args) /\ Declared("int8_linear", args) = <<Tensor(dt, WithLast(sh, n))>>
  <2>1. LinearOfCodes(dt, sh, n, k, s, group, act, rotated, norm, residual, scaled, args)
    BY ONLY <1>3, <1>6, <1>7, <1>8, <1>10, <1>11, dt \in Floats, n \in Nat \ {0}, k \in Nat \ {0},
            sh \in Seq(Nat \ {0}) DEF LinearOfCodes
  <2> QED BY ONLY <1>12, <2>1, MultipliesInt8
<1>14. "int8_linear" \in Modelled
  BY DEF Modelled, Int8Ops
<1>15. made \in DispatchedOn(Here, "int8_linear", args)
  BY <1>5, <1>9
<1>16. Agrees(Here, made) /\ (made.result = <<Tensor(dt, WithLast(sh, n))>> \/ GivenUp(Here, made))
  BY ONLY <1>12, <1>13, <1>14, <1>15, ServedReturns
<1>17. platform' \in DOMAIN Profiles /\ Given' /\ Here' = Here
  BY <1>1, Frame
<1>18. CASE GivenUp(Here, made)
  <2>1. phase' = "failed" /\ call' = made
    BY <1>5, <1>18 DEF GivenUp
  <2>2. Excused'
    BY <1>17, <1>18, <2>1 DEF Excused
  <2> QED BY <1>1, <1>2, <1>16, <1>17, <2>1, <2>2 DEF CallsInvariant
<1>19. CASE made.result = <<Tensor(dt, WithLast(sh, n))>>
  <2>1. phase' = "done" /\ product' = <<Tensor(x.dt, WithLast(x.sh, Dim(w, 0)))>> /\ call' = made
    BY <1>4, <1>5, <1>19 DEF Raise
  <2> QED BY <1>1, <1>2, <1>16, <1>17, <2>1 DEF CallsInvariant
<1> QED BY <1>16, <1>18, <1>19

-----------------------------------------------------------------------------
(* Every behaviour. *)

LEMMA CallsInvariantInit == ASSUME Init PROVE CallsInvariant
<1>1. phase = "start" /\ call = Unmade /\ platform \in DOMAIN Profiles
  BY DEF Init
<1>2. Given
  BY LayoutsAssumption DEF Init, Given
<1>3. Agrees(Here, call)
  BY <1>1 DEF Agrees, Unmade
<1> QED BY <1>1, <1>2, <1>3 DEF CallsInvariant

LEMMA CallsInvariantStep == ASSUME HeldRanks \subseteq {2}, CallsInvariant, [Next]_vars PROVE CallsInvariant'
<1>1. CASE QuantizeWeight
  BY <1>1, QuantizeWeightKeeps
<1>2. CASE QuantizeActivation
  BY <1>2, QuantizeActivationKeeps
<1>3. CASE MultiplyWeightOnly
  BY <1>3, MultiplyWeightOnlyKeeps
<1>4. CASE MultiplyFp8
  BY <1>4, MultiplyFp8Keeps
<1>5. CASE MultiplyBlocks
  BY <1>5, MultiplyBlocksKeeps
<1>6. CASE MultiplyInt8
  BY <1>6, MultiplyInt8Keeps
<1>7. CASE DequantizeWeight
  BY <1>7, DequantizeWeightKeeps
<1>8. CASE DequantizeActivation
  BY <1>8, DequantizeActivationKeeps
<1>9. CASE MultiplyPlain
  BY <1>9, MultiplyPlainKeeps
<1>10. CASE RoundStochastically
  BY <1>10, RoundStochasticallyKeeps
<1>11. CASE Route
  BY <1>11, RouteKeeps
<1>12. CASE UNCHANGED vars
  BY <1>12 DEF CallsInvariant, Given, Here, vars, Agrees, GivenUp, Excused, QuantizedForm, Rank
<1> QED BY <1>1, <1>2, <1>3, <1>4, <1>5, <1>6, <1>7, <1>8, <1>9, <1>10, <1>11, <1>12 DEF Next

\* A linear of any two matrices whose widths agree, by any of the layouts, with the activation
\* held as a matrix of two dimensions if it is held, completes with the shape and dtype of
\* the plain linear, whichever of the capable backends runs each of its calls.  It is given up
\* only at a call that a backend accepted and raised for a reason its table does not state
\* (Untabled), or at a rotation that does not divide the weight's rows
\* (tensor/nvfp4.py:212-260, mxfp8.py:207-230, fp8.py:133-190, int8.py:337-368).
THEOREM LinearsComplete == ASSUME HeldRanks \subseteq {2} PROVE Spec => []LinearCompletes
<1>1. Init => CallsInvariant
  BY CallsInvariantInit
<1>2. CallsInvariant /\ [Next]_vars => CallsInvariant'
  BY CallsInvariantStep
<1>3. CallsInvariant => LinearCompletes
  BY DEF CallsInvariant, LinearCompletes, Excused, GivenUp
<1> QED BY <1>1, <1>2, <1>3, PTL DEF Spec

\* On every platform, each call that a linear makes is one the eager reference takes, and
\* where the reference completes the backend that runs it returns the tensors the custom op
\* declares, or raises for a reason its table does not state: the layouts make no call of part
\* blocks or tiles (backends/*/__init__.py _build_constraints, register_fake of
\* eager/quantization.py).
THEOREM LinearsAgree == ASSUME HeldRanks \subseteq {2} PROVE Spec => [](layout # "plain" => AgreesWithReference)
<1>1. Init => CallsInvariant
  BY CallsInvariantInit
<1>2. CallsInvariant /\ [Next]_vars => CallsInvariant'
  BY CallsInvariantStep
<1>3. CallsInvariant => (layout # "plain" => AgreesWithReference)
  BY DEF CallsInvariant, AgreesWithReference, Agrees, GivenUp, Here
<1> QED BY <1>1, <1>2, <1>3, PTL DEF Spec
=============================================================================
