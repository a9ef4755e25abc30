----------------------------- MODULE Int8Operators -----------------------------
(***************************************************************************)
(* The INT8 operators of every backend: what a host function checks of its      *)
(* operands and what it returns, and what the custom op around it declares.     *)
(*                                                                          *)
(* has is the set of features of the XPU companion, as in AcceleratorTables.    *)
(***************************************************************************)
EXTENDS AcceleratorTables

Rowwise(x) == <<Tensor("i8", x.sh), Tensor("f32", WithLast(x.sh, 1))>>
Codes(args) == <<Tensor(args.output_dtype.dt, args.q.sh)>>
Linear8(args) == <<Tensor(args.out_dtype.dt, WithLast(args.x.sh, Dim(args.weight, 0)))>>

\* _build_hadamard of a group that divides the features it rotates
Rotates(group, features) == group \in PowersOfFour /\ features % group = 0

-----------------------------------------------------------------------------
(* Quantizers and dequantizers. *)

DeclaredInt8Rowwise(args) == Rowwise(args.x)
DeclaredInt8Weight(args) == Rowwise(args.weight)
DeclaredInt8Codes(args) == Codes(args)

EagerQuantizeInt8Tensorwise(args) ==
  <<Tensor("i8", args.x.sh), Tensor("f32", IF Has(args, "scale") THEN args.scale.sh ELSE Scalar)>>
EagerQuantizeInt8Rowwise(args) == Rowwise(args.x)
EagerQuantizeInt8Weight(args) ==
  Returns(Rank(args.weight) = 2 /\ Rotates(args.group_size, LastDim(args.weight)), Rowwise(args.weight))
EagerDequantizeInt8(args) == Codes(args)
EagerDequantizeInt8Weight(args) ==
  Returns(Rank(args.q) = 2 /\ Rotates(args.group_size, LastDim(args.q)), Codes(args))

CudaQuantizeInt8Rowwise(args) == Rowwise(args.x)
CudaQuantizeInt8Weight(args) ==
  Returns(Rank(args.weight) = 2 /\ Rotates(args.group_size, LastDim(args.weight)), Rowwise(args.weight))
\* A scale of another shape than one, a row's or an element's is eager's to broadcast.
CudaDequantizeInt8(args) == Codes(args)
CudaDequantizeInt8Weight(args) ==
  Returns(Rank(args.q) = 2 /\ Rotates(args.group_size, LastDim(args.q)), Codes(args))

HipQuantizeInt8Rowwise(args) == Rowwise(args.x)
HipQuantizeInt8Weight(args) ==
  Returns(Rotates(args.group_size, LastDim(args.weight)), Rowwise(args.weight))
HipDequantizeInt8(args) == Codes(args)
HipDequantizeInt8Weight(args) ==
  Returns(Rank(args.q) = 2 /\ Rotates(args.group_size, LastDim(args.q)), Codes(args))

\* rows, cols = x.shape, and rows of the storage
TritonQuantizeInt8Rowwise(args) == IF Rank(args.x) = 2 THEN Reads({args.x}, Rowwise(args.x)) ELSE Raise

\* npu_dynamic_quant gives a scale per row
AscendQuantizeInt8Rowwise(args) == Rowwise(args.x)
AscendDequantizeInt8(args) == Codes(args)

-----------------------------------------------------------------------------
(* The linear.  A gated activation halves the width of x. *)

\* apply_input_act
Activates(args) ==
  /\ LastDim(args.x) % Width(args) = 0
  /\ Num(args, "input_act", "none") = "rms_norm" => Get(args, "input_act_weight").sh = <<LastDim(args.x)>>
Features(args) == LastDim(args.x) \div Width(args)
\* apply_residual
Adds(args) == Has(args, "residual") => Has(args, "residual_scale")
ScaleFits(args) == Numel(args.weight_scale) \in {1, Dim(args.weight, 0)}
InnerMatches(args) == Features(args) = LastDim(args.weight)
RotatesInput(args) == args.convrot => Rotates(args.convrot_groupsize, Features(args))

\* The chunks of an x without rows cannot be concatenated.
EagerInt8Linear(args) ==
  Returns(/\ Activates(args) /\ InnerMatches(args) /\ ScaleFits(args) /\ RotatesInput(args) /\ Adds(args)
          /\ Rows(args.x) > 0
          /\ Has(args, "bias") => Numel(args.bias) \in {1, Dim(args.weight, 0)},
          Linear8(args))

\* The length of the scale is not looked at.
CudaInt8Linear(args) ==
  Returns(Adds(args) /\ Activates(args) /\ InnerMatches(args) /\ RotatesInput(args), Linear8(args))

HipInt8Linear(args) ==
  Returns(/\ Activates(args) /\ InnerMatches(args) /\ ScaleFits(args)
          /\ Features(args) % 16 = 0
          /\ args.convrot => args.convrot_groupsize \in {16, 64, 256} /\ Features(args) % args.convrot_groupsize = 0
          /\ Has(args, "bias") => args.bias.sh = <<Dim(args.weight, 0)>>
          /\ Adds(args),
          Linear8(args))

\* Rows of weight are read k elements at a time, whatever its width; an activation that
\* is neither rotated nor normalized is quantized as it lies in its storage.
TritonInt8Linear(args) ==
  LET lies == IF args.convrot \/ Num(args, "input_act", "none") = "rms_norm" THEN {} ELSE {args.x}
  IN  IF ~(Activates(args) /\ RotatesInput(args) /\ ScaleFits(args) /\ Adds(args)) THEN Raise
      ELSE IF InnerMatches(args) THEN Reads(lies, Linear8(args)) ELSE Misread

AscendInt8Linear(args) ==
  Returns(/\ Activates(args) /\ InnerMatches(args) /\ ScaleFits(args) /\ Adds(args)
          /\ args.convrot => Rotates(args.convrot_groupsize, Features(args)),
          Linear8(args))

\* The companion's matmul is taken to check what eager's does.
XpuInt8Linear(has, args) ==
  LET norm == Num(args, "input_act", "none") = "rms_norm"
      plain == Num(args, "input_act", "none") = "none"
      prepared == norm /\ (IF args.convrot
                           THEN /\ "rms_norm_convrot_quantize" \in has /\ args.convrot_groupsize \in {64, 256}
                                /\ args.x.dt \in Halves /\ LastDim(args.x) % args.convrot_groupsize = 0
                           ELSE "rms_norm_quantize" \in has)
      fused == "fused_residual" \in has /\ (prepared \/ (~args.convrot /\ (plain \/ norm)))
  IN  Returns(/\ norm => "rms_norm_for_int8" \in has
              /\ Has(args, "residual") => Has(args, "residual_scale") /\ (fused \/ "scaled_residual" \in has),
              EagerInt8Linear(args))

-----------------------------------------------------------------------------
Int8Ops ==
  {"quantize_int8_tensorwise", "quantize_int8_rowwise", "quantize_int8_convrot_weight",
   "dequantize_int8_simple_dtype", "dequantize_int8_convrot_weight_dtype", "int8_linear"}

DeclaredInt8(op, args) ==
  CASE op = "quantize_int8_tensorwise" -> <<Tensor("i8", args.x.sh), Tensor("f32", Scalar)>>
    [] op = "quantize_int8_rowwise" -> DeclaredInt8Rowwise(args)
    [] op = "quantize_int8_convrot_weight" -> DeclaredInt8Weight(args)
    [] op = "int8_linear" -> Linear8(args)
    [] OTHER -> DeclaredInt8Codes(args)

\* The implementation a backend registers under the operator's name.  CUDA, HIP and
\* Ascend quantize a whole tensor as eager does; the companion as eager does.
RunInt8(backend, has, op, args) ==
  CASE op = "quantize_int8_tensorwise" -> EagerQuantizeInt8Tensorwise(args)
    [] op = "quantize_int8_rowwise" ->
         (CASE backend = "cuda" -> CudaQuantizeInt8Rowwise(args) [] backend = "hip" -> HipQuantizeInt8Rowwise(args)
            [] backend = "triton" -> TritonQuantizeInt8Rowwise(args) [] backend = "ascend" -> AscendQuantizeInt8Rowwise(args)
            [] OTHER -> EagerQuantizeInt8Rowwise(args))
    [] op = "quantize_int8_convrot_weight" ->
         (CASE backend = "cuda" -> CudaQuantizeInt8Weight(args) [] backend = "hip" -> HipQuantizeInt8Weight(args)
            [] OTHER -> EagerQuantizeInt8Weight(args))
    [] op = "dequantize_int8_simple_dtype" ->
         (CASE backend = "cuda" -> CudaDequantizeInt8(args) [] backend = "hip" -> HipDequantizeInt8(args)
            [] backend = "ascend" -> AscendDequantizeInt8(args) [] OTHER -> EagerDequantizeInt8(args))
    [] op = "dequantize_int8_convrot_weight_dtype" ->
         (CASE backend = "cuda" -> CudaDequantizeInt8Weight(args) [] backend = "hip" -> HipDequantizeInt8Weight(args)
            [] OTHER -> EagerDequantizeInt8Weight(args))
    [] op = "int8_linear" ->
         (CASE backend = "cuda" -> CudaInt8Linear(args) [] backend = "hip" -> HipInt8Linear(args)
            [] backend = "triton" -> TritonInt8Linear(args) [] backend = "ascend" -> AscendInt8Linear(args)
            [] backend = "xpu" -> XpuInt8Linear(has, args) [] OTHER -> EagerInt8Linear(args))
=============================================================================
