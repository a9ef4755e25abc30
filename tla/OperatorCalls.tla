----------------------------- MODULE OperatorCalls -----------------------------
(***************************************************************************)
(* A linear of two matrices through a quantized layout: the calls the layout     *)
(* makes, the backend each reaches, and the fallback when a product is refused.  *)
(*                                                                          *)
(* Which of the backends whose table accepts a call takes it is left open: the    *)
(* order is set_priority's and use_backend's to choose (BackendRegistry), and      *)
(* any of them may be disabled.  A platform is a device with the backends that     *)
(* register on it.  Operands are on the device and, but where MCOperatorCalls      *)
(* says so, contiguous.                                                       *)
(***************************************************************************)
EXTENDS Fp8Fp4Operators, Int8Operators

CONSTANTS
  Profiles,      \* by name of a platform: family, the native backend it has or "none";
                 \* option, cuBLASLt of a CUDA device, WMMA of a HIP one; cc, its compute
                 \* capability; has, the features of the companion; scaled_mm, whether
                 \* torch has a scaled matmul; compiles, the float formats that Triton
                 \* converts on the device
  Layouts,       \* "fp8", "nvfp4", "mxfp8", "int8"
  Matrices,      \* pairs of an activation and a weight
  Activations,   \* what is fused into an INT8 linear: records [act, residual]
  Groups,        \* ConvRot groups; 0 is no rotation
  HeldRanks,     \* ranks of the activations that are quantized
  OtherCalls     \* calls of operators whose implementation is not modelled

VARIABLES
  platform, layout,
  x, w,          \* the matrices
  qx, qw,        \* what the layout holds of them
  phase,         \* of the linear
  call,          \* the last dispatched call
  product        \* the result of the linear

ASSUME ProfilesAssumption ==
  \A name \in DOMAIN Profiles : Profiles[name].family \in {"cuda", "hip", "xpu", "ascend", "none"}

ASSUME LayoutsAssumption == Layouts \subseteq {"fp8", "nvfp4", "mxfp8", "int8"}

IsMatrix(t) == t.dt \in Floats /\ t.sh \in Seq(Nat \ {0}) /\ Len(t.sh) >= 1 /\ t = Tensor(t.dt, t.sh)
ASSUME MatricesAssumption ==
  \A pair \in Matrices : IsMatrix(pair.x) /\ IsMatrix(pair.w) /\ Rank(pair.w) = 2 /\ pair.x.dt = pair.w.dt

ASSUME GroupsAssumption == Groups \subseteq {0} \cup PowersOfFour

vars == <<platform, layout, x, w, qx, qw, phase, call, product>>

Unmade == [op |-> "none", args |-> <<>>, backend |-> "none", result |-> Raise]
\* A QuantizedTensor: its tensors, its scale(s), its rotation and its dequantized form.
NotHeld == [data |-> None, scale |-> None, block |-> None, group |-> 0, plain |-> None]

-----------------------------------------------------------------------------
(* Dispatch. *)

F32Scalar == Tensor("f32", Scalar)
Modelled == Fp8Fp4Ops \cup Int8Ops
Declared(op, args) == IF op \in Int8Ops THEN DeclaredInt8(op, args) ELSE DeclaredFp8Fp4(op, args)
\* torch's scaled matmul is there or not on a device.
Run(on, backend, op, args) ==
  CASE op \in Int8Ops -> RunInt8(backend, on.has, op, args)
    [] op \in {"scaled_mm_nvfp4", "scaled_mm_mxfp8"} /\ backend = "eager" /\ ~on.scaled_mm -> Raise
    [] OTHER -> RunFp8Fp4(backend, on.compiles, op, args)

Accepts(on, backend, op, args) ==
  op \in DOMAIN on.tables[backend] /\ Validates(on.tables[backend][op], args, on.cc)
Capable(on, op, args) == {backend \in DOMAIN on.tables : Accepts(on, backend, op, args)}

\* Triton serves CUDA and XPU tensors; to torch, a HIP device is a CUDA one.
Tables(p) ==
  [eager |-> EagerTable]
  ++ (IF p.family \in {"cuda", "hip", "xpu"}
      THEN [triton |-> Without(TritonTable, IF p.family = "xpu" THEN TritonCudaOnly ELSE {})]
      ELSE <<>>)
  ++ (CASE p.family = "cuda" -> [cuda |-> CudaTable(p.option)]
        [] p.family = "hip" -> [hip |-> HipTable(p.option)]
        [] p.family = "xpu" -> [xpu |-> XpuTable(p.has)]
        [] p.family = "ascend" -> [ascend |-> AscendTable(p.has)]
        [] OTHER -> <<>>)
Devices ==
  [name \in DOMAIN Profiles |-> [tables |-> Tables(Profiles[name]), cc |-> Profiles[name].cc,
                                 has |-> Profiles[name].has, scaled_mm |-> Profiles[name].scaled_mm,
                                 compiles |-> Profiles[name].compiles]]

Here == Devices[platform]

\* NoCapableBackendError is a RuntimeError.
DispatchedOn(on, op, args) ==
  LET able == Capable(on, op, args)
      made(backend, result) == [op |-> op, args |-> args, backend |-> backend, result |-> result]
  IN  IF able = {} THEN {made("none", Raise)}
      ELSE {made(b, IF op \in Modelled THEN Run(on, b, op, args) ELSE Raise) : b \in able}
Dispatched(op, args) == DispatchedOn(Here, op, args)

-----------------------------------------------------------------------------
(* What the layouts call. *)

\* As Needs, with codes never padded to whole blocks.
NeedsNothing(t, block) == FALSE
\* needs_padding of NVFP4 and MXFP8
Needs(t, block) == t.sh # Padded(t.sh, TRUE, block)

\* TensorCoreFP8Layout.quantize, TensorCoreNVFP4Layout.quantize, TensorCoreMXFP8Layout.quantize
QuantizeCall(t) ==
  CASE layout = "fp8" -> [op |-> "quantize_per_tensor_fp8",
                          args |-> [x |-> t, scale |-> F32Scalar, output_type |-> Dtype("e4m3")]]
    [] layout = "nvfp4" -> [op |-> "quantize_nvfp4",
                            args |-> [x |-> t, per_tensor_scale |-> F32Scalar, pad_16x |-> Needs(t, 16)]]
    [] layout = "mxfp8" -> [op |-> "quantize_mxfp8", args |-> [x |-> t, pad_32x |-> Needs(t, 32)]]
\* TensorWiseINT8Layout.quantize: a weight in one of three ways, an activation by rows.
QuantizeInt8Call(t, kind, group) ==
  CASE kind = "convrot" -> [op |-> "quantize_int8_convrot_weight", args |-> [weight |-> t, group_size |-> group]]
    [] kind = "rows" -> [op |-> "quantize_int8_rowwise", args |-> [x |-> t]]
    [] kind = "tensor" -> [op |-> "quantize_int8_tensorwise", args |-> [x |-> t]]

\* The QuantizedTensor made of a call's result.
Held(result, group) ==
  CASE layout = "fp8" -> [NotHeld EXCEPT !.data = result[1], !.scale = F32Scalar]
    [] layout = "nvfp4" -> [NotHeld EXCEPT !.data = result[1], !.scale = F32Scalar, !.block = result[2]]
    [] layout = "mxfp8" -> [NotHeld EXCEPT !.data = result[1], !.block = result[2]]
    [] layout = "int8" -> [NotHeld EXCEPT !.data = result[1], !.scale = result[2], !.group = group]

\* Layout.dequantize of a QuantizedTensor of a matrix with dtype dt
DequantizeCall(q, dt) ==
  CASE layout = "fp8" -> [op |-> "dequantize_per_tensor_fp8",
                          args |-> [x |-> q.data, scale |-> q.scale, output_type |-> Dtype(dt)]]
    [] layout = "nvfp4" -> [op |-> "dequantize_nvfp4",
                            args |-> [qx |-> q.data, per_tensor_scale |-> q.scale, block_scales |-> q.block,
                                      output_type |-> Dtype(dt)]]
    [] layout = "mxfp8" -> [op |-> "dequantize_mxfp8",
                            args |-> [qx |-> q.data, block_scales |-> q.block, output_type |-> Dtype(dt)]]
    [] layout = "int8" /\ q.group = 0 -> [op |-> "dequantize_int8_simple_dtype",
                                          args |-> [q |-> q.data, scale |-> q.scale, output_dtype |-> Dtype(dt)]]
    [] layout = "int8" /\ q.group # 0 -> [op |-> "dequantize_int8_convrot_weight_dtype",
                                          args |-> [q |-> q.data, scale |-> q.scale, group_size |-> q.group,
                                                    output_dtype |-> Dtype(dt)]]
\* QuantizedTensor.dequantize cuts the padding off.
Cut(result, t) == Tensor(result[1].dt, [d \in DOMAIN t.sh |-> IF result[1].sh[d] < t.sh[d] THEN result[1].sh[d] ELSE t.sh[d]])

\* The product of the codes, where the layout has one: _handle_nvfp4_linear, _handle_mxfp8_linear
ScaledMMCall ==
  CASE layout = "nvfp4" -> [op |-> "scaled_mm_nvfp4",
                            args |-> [a |-> qx.data, b |-> qw.data, tensor_scale_a |-> qx.scale,
                                      tensor_scale_b |-> qw.scale, block_scale_a |-> qx.block,
                                      block_scale_b |-> qw.block, out_dtype |-> Dtype(x.dt)]]
    [] layout = "mxfp8" -> [op |-> "scaled_mm_mxfp8",
                            args |-> [a |-> qx.data, b |-> qw.data, block_scale_a |-> qx.block,
                                      block_scale_b |-> qw.block, out_dtype |-> Dtype(x.dt)]]
\* _handle_int8_linear_tensorwise and linear_input_act, of a weight that is not transposed
Int8LinearCall(fused) ==
  [op |-> "int8_linear",
   args |-> [x |-> x, weight |-> qw.data, weight_scale |-> qw.scale, out_dtype |-> Dtype(x.dt),
             convrot |-> qw.group # 0, convrot_groupsize |-> qw.group,
             input_act |-> fused.act,
             input_act_weight |-> IF fused.act = "rms_norm" THEN Tensor(x.dt, <<LastDim(x)>>) ELSE None,
             residual |-> IF fused.residual THEN Tensor(x.dt, WithLast(x.sh, Dim(w, 0))) ELSE None,
             residual_scale |-> IF fused.residual THEN Tensor(x.dt, <<Dim(w, 0)>>) ELSE None]]

-----------------------------------------------------------------------------
Init ==
  /\ platform \in DOMAIN Profiles
  /\ \/ /\ layout \in Layouts
        /\ \E pair \in Matrices :
             /\ layout # "int8" => LastDim(pair.x) = LastDim(pair.w)
             /\ x = pair.x /\ w = pair.w
     \/ layout = "plain" /\ x = None /\ w = None
  /\ qx = NotHeld /\ qw = NotHeld
  /\ phase = "start" /\ call = Unmade /\ product = Raise

QuantizeWeight ==
  /\ phase = "start" /\ layout # "plain"
  /\ \E kind \in IF layout = "int8" THEN {"rows", "tensor", "convrot"} ELSE {"whole"},
        group \in Groups :
       /\ kind = "convrot" <=> group # 0
       /\ LET c == IF layout = "int8" THEN QuantizeInt8Call(w, kind, group) ELSE QuantizeCall(w)
          IN  \E made \in Dispatched(c.op, c.args) :
                /\ call' = made
                /\ qw' = IF made.result = Raise THEN qw ELSE Held(made.result, group)
                /\ phase' = IF made.result = Raise THEN "refused" ELSE "weight"
  /\ UNCHANGED <<platform, layout, x, w, qx, product>>

\* An INT8 activation is held by rows; its linear dequantizes it first.
QuantizeActivation ==
  /\ phase = "weight" /\ Rank(x) \in HeldRanks
  /\ LET c == IF layout = "int8" THEN QuantizeInt8Call(x, "rows", 0) ELSE QuantizeCall(x)
     IN  \E made \in Dispatched(c.op, c.args) :
           /\ call' = made
           /\ qx' = IF made.result = Raise THEN qx ELSE Held(made.result, 0)
           /\ phase' = IF made.result = Raise THEN "refused" ELSE "ready"
  /\ UNCHANGED <<platform, layout, x, w, qw, product>>

\* The activation is not quantized: the companion's kernel takes an FP8 weight as it is,
\* and the others are dequantized.
MultiplyWeightOnly ==
  /\ phase = "weight" /\ layout # "int8"
  /\ IF layout = "fp8" /\ "fp8" \in Here.has
     THEN /\ product' = <<Tensor(x.dt, WithLast(x.sh, Dim(qw.data, 0)))>>
          /\ phase' = "done" /\ qx' = qx
     ELSE qx' = [NotHeld EXCEPT !.plain = x] /\ phase' = "fallback" /\ product' = product
  /\ UNCHANGED <<platform, layout, x, w, qw, call>>

\* _fp8_scaled_mm: the HIP kernel where its WMMA is, else torch's.
MultiplyFp8 ==
  /\ phase = "ready" /\ layout = "fp8"
  /\ LET n == Dim(qw.data, 0)
         blocks == Rank(qx.data) = 2 /\ LastDim(qx.data) % 16 = 0
         wmma == "hip" \in DOMAIN Here.tables /\ "int8_linear" \in DOMAIN Here.tables["hip"]
     IN  /\ product' = Returns(blocks /\ (wmma \/ (Here.scaled_mm /\ n % 16 = 0)),
                             <<Tensor(x.dt, <<Dim(qx.data, 0), n>>)>>)
         /\ phase' = IF product' = Raise THEN "fallback" ELSE "done"
  /\ UNCHANGED <<platform, layout, x, w, qx, qw, call>>

\* _slice_to_original_shape
Sliced(result) == IF result = Raise THEN Raise ELSE <<Tensor(result[1].dt, <<Dim(x, 0), Dim(w, 0)>>)>>

MultiplyBlocks ==
  /\ phase = "ready" /\ layout \in {"nvfp4", "mxfp8"}
  /\ \E made \in Dispatched(ScaledMMCall.op, ScaledMMCall.args) :
       /\ call' = made
       /\ product' = Sliced(made.result)
       /\ phase' = IF made.result = Raise THEN "fallback" ELSE "done"
  /\ UNCHANGED <<platform, layout, x, w, qx, qw>>

\* The activation is not quantized, or has been dequantized.
MultiplyInt8 ==
  /\ layout = "int8" /\ (phase = "weight" \/ (phase = "ready" /\ qx.plain # None))
  /\ \E fused \in Activations :
       /\ LastDim(w) * Width([input_act |-> fused.act]) = LastDim(x)
       /\ \E made \in Dispatched("int8_linear", Int8LinearCall(fused).args) :
            /\ call' = made
            /\ product' = made.result
            /\ phase' = IF made.result = Raise THEN "failed" ELSE "done"
  /\ UNCHANGED <<platform, layout, x, w, qx, qw>>

\* dequantize_args of a fallback, and QuantizedTensor.dequantize.
DequantizeWeight ==
  /\ phase \in {"weight", "ready", "fallback"} /\ qw.plain = None
  /\ LET c == DequantizeCall(qw, w.dt)
     IN  \E made \in Dispatched(c.op, c.args) :
           /\ call' = made
           /\ qw' = IF made.result = Raise THEN qw ELSE [qw EXCEPT !.plain = Cut(made.result, w)]
           /\ phase' = IF made.result = Raise THEN "failed" ELSE phase
  /\ UNCHANGED <<platform, layout, x, w, qx, product>>

DequantizeActivation ==
  /\ phase \in {"ready", "fallback"} /\ qx.plain = None
  /\ LET c == DequantizeCall(qx, x.dt)
     IN  \E made \in Dispatched(c.op, c.args) :
           /\ call' = made
           /\ qx' = IF made.result = Raise THEN qx ELSE [qx EXCEPT !.plain = Cut(made.result, x)]
           /\ phase' = IF made.result = Raise THEN "failed" ELSE phase
  /\ UNCHANGED <<platform, layout, x, w, qw, product>>

\* torch.nn.functional.linear of the dequantized operands
MultiplyPlain ==
  /\ phase = "fallback" /\ qx.plain # None /\ qw.plain # None
  /\ LET fits == qx.plain.dt = qw.plain.dt /\ LastDim(qx.plain) = LastDim(qw.plain)
     IN  /\ product' = Returns(fits, <<Tensor(x.dt, WithLast(qx.plain.sh, Dim(qw.plain, 0)))>>)
         /\ phase' = IF fits THEN "done" ELSE "failed"
  /\ UNCHANGED <<platform, layout, x, w, qx, qw, call>>

\* Stochastic rounding to FP8 with the caller's random bytes.
RoundStochastically ==
  /\ phase = "start" /\ layout = "fp8"
  /\ \E dt \in Fp8s :
       \E made \in Dispatched("stochastic_rounding_fp8",
                              [x |-> w, rng |-> Tensor("u8", w.sh), output_type |-> Dtype(dt)]) :
         call' = made /\ phase' = IF made.result = Raise THEN "failed" ELSE "rounded"
  /\ UNCHANGED <<platform, layout, x, w, qx, qw, product>>

\* A call of another operator reaches a backend.
Route ==
  /\ phase = "start" /\ layout = "plain" /\ \E c \in OtherCalls : call' \in Dispatched(c.op, c.args)
  /\ phase' = "routed"
  /\ UNCHANGED <<platform, layout, x, w, qx, qw, product>>

Next ==
  \/ QuantizeWeight
  \/ QuantizeActivation
  \/ MultiplyWeightOnly
  \/ MultiplyFp8
  \/ MultiplyBlocks
  \/ MultiplyInt8
  \/ DequantizeWeight
  \/ DequantizeActivation
  \/ MultiplyPlain
  \/ RoundStochastically
  \/ Route

Spec == Init /\ [][Next]_vars

-----------------------------------------------------------------------------
(* What no table states.  A call that a table accepts is refused or gone wrong on    *)
(* for these reasons and no other.                                             *)

\* The 8- and 4-bit float formats a call converts.
Formats(op, args) ==
  CASE op = "quantize_per_tensor_fp8" -> {args.output_type.dt}
    [] op = "dequantize_per_tensor_fp8" -> {args.x.dt}
    [] op = "quantize_mxfp8" -> {"e4m3"}
    [] op \in {"quantize_nvfp4", "dequantize_nvfp4"} -> {"e4m3", "e2m1"}
    [] OTHER -> {}
BlockQuantizers == {"quantize_nvfp4", "quantize_mxfp8"}

\* CUDA's block quantizers are for half dtypes; Triton converts the formats of its
\* device; HIP multiplies INT8 in steps of 16 and rotates by three groups; a companion
\* may have no kernel for a norm or a residual.
Untabled(on, backend, op, args) ==
  \/ backend = "cuda" /\ op \in BlockQuantizers /\ args.x.dt \notin Halves
  \/ backend = "triton" /\ ~(Formats(op, args) \subseteq on.compiles)
  \/ /\ backend = "hip" /\ op = "int8_linear"
     /\ \/ Features(args) % 16 # 0
        \/ args.convrot /\ args.convrot_groupsize \notin {16, 64, 256}
  \/ /\ backend = "xpu" /\ op = "int8_linear"
     /\ \/ args.input_act = "rms_norm" /\ "rms_norm_for_int8" \notin on.has
        \/ Has(args, "residual") /\ "scaled_residual" \notin on.has

\* CUDA's block quantizers take rows that are not padded in whole blocks only.
PartBlock(backend, op, args) ==
  /\ backend = "cuda" /\ op \in BlockQuantizers
  /\ IF op = "quantize_nvfp4" THEN ~args.pad_16x /\ Dim(args.x, 0) % 16 # 0
                              ELSE ~args.pad_32x /\ Dim(args.x, 0) % 32 # 0
\* Triton unpacks NVFP4 in tiles of 128 bytes, the last one whole whatever is left.
PartTile(backend, op, args) ==
  backend = "triton" /\ op = "dequantize_nvfp4" /\ Numel(args.qx) % 128 # 0

\* A call that any backend takes is one the eager reference would take over.  Where the
\* reference completes, every backend returns the tensors the custom op declares, having
\* read each operand by its strides and written all of the result and nothing else, or it
\* raises for a reason its table does not state, or it overruns a tile it does not fill
\* (backends/*/__init__.py _build_constraints, register_fake of eager/quantization.py).
AgreesWithReference ==
  LET op == call.op
      args == call.args
  IN  call.backend # "none" /\ op \in DOMAIN Here.tables["eager"] =>
        /\ Accepts(Here, "eager", op, args)
        /\ op \in Modelled /\ Run(Here, "eager", op, args) # Raise =>
             \/ call.result = Declared(op, args)
             \/ call.result = Raise /\ (Untabled(Here, call.backend, op, args) \/ PartBlock(call.backend, op, args))
             \/ call.result = Overrun /\ PartTile(call.backend, op, args)

\* A linear of matrices whose widths agree completes with the shape and dtype of the plain
\* one, whichever backends and kernels refuse it on the way.  It is given up at a call
\* that a backend accepted and raised for a reason its table does not state, or at a
\* rotation that does not divide the width of the weight, and at no other (tensor/nvfp4.py:212-260,
\* mxfp8.py:207-230, fp8.py:133-190, int8.py:337-368).
LinearCompletes ==
  /\ phase \in {"refused", "failed"} =>
       /\ call.result = Raise
       /\ \/ Untabled(Here, call.backend, call.op, call.args)
          \/ /\ phase = "refused" /\ call.op = "quantize_int8_convrot_weight"
             /\ LastDim(w) % call.args.group_size # 0
  /\ phase = "done" => product = <<Tensor(x.dt, WithLast(x.sh, Dim(w, 0)))>>

\* "x: Input tensor [..., K] where quantization is per-row", "scales: Float32 tensor
\* [..., 1] with per-row scales" (eager/quantization.py:889-897), of the backend that takes it.
ScalesPerRow ==
  call.op = "quantize_int8_rowwise" /\ call.backend # "none" => call.result = Rowwise(call.args.x)
=============================================================================
