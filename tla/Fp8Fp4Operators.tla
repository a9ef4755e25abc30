---------------------------- MODULE Fp8Fp4Operators ----------------------------
(***************************************************************************)
(* The FP8, NVFP4 and MXFP8 operators of every backend: what a host function    *)
(* checks, what it allocates and returns, and what the custom op around it       *)
(* declares that it returns.                                                  *)
(*                                                                          *)
(* compiles is the set of 8- and 4-bit float formats that Triton's compiler       *)
(* converts on the device: a kernel with another is not built and the call raises. *)
(***************************************************************************)
EXTENDS Operands

\* Rows and columns of codes, padded to a multiple of a block.
Padded(sh, pad, block) == IF pad THEN [d \in 1 .. 2 |-> RoundUp(sh[d], block)] ELSE sh
\* to_blocked: scales in tiles of 128 rows of 4 blocks
Blocked(dt, rows, blocks) == Tensor(dt, <<RoundUp(rows, 128), RoundUp(blocks, 4)>>)
\* from_blocked: reshape succeeds when the scales fill the tiles of that many rows and blocks.
FillsBlocks(scales, rows, blocks) == Numel(scales) = RoundUp(rows, 128) * RoundUp(blocks, 4)

Nvfp4(sh) == <<Tensor("u8", <<sh[1], sh[2] \div 2>>), Blocked("e4m3", sh[1], sh[2] \div 16)>>
Mxfp8(sh) == <<Tensor("e4m3", sh), Blocked("e8m0", sh[1], sh[2] \div 32)>>
Unpacked(args) == <<Tensor(args.output_type.dt, <<Dim(args.qx, 0), 2 * Dim(args.qx, 1)>>)>>
MatrixOf(args) == <<Tensor(args.out_dtype.dt, <<Dim(args.a, 0), Dim(args.b, 0)>>)>>
Cast(args) == <<Tensor(args.output_type.dt, args.x.sh)>>

-----------------------------------------------------------------------------
(* eager; the custom ops declare the same tensors *)

DeclaredFp8(args) == Cast(args)
DeclaredNvfp4(args) == Nvfp4(Padded(args.x.sh, args.pad_16x, 16))
DeclaredMxfp8(args) == Mxfp8(Padded(args.x.sh, args.pad_32x, 32))

EagerQuantizeFp8(args) == Returns(args.output_type.dt \in Fp8s, Cast(args))
EagerDequantizeFp8(args) == Cast(args)
EagerStochasticFp8(args) == Returns(args.output_type.dt \in Fp8s /\ args.rng.sh = args.x.sh, Cast(args))

EagerQuantizeNvfp4(args) ==
  LET sh == Padded(args.x.sh, args.pad_16x, 16) IN Returns(sh[2] % 16 = 0, Nvfp4(sh))
EagerDequantizeNvfp4(args) ==
  LET cols == 2 * Dim(args.qx, 1)
  IN  Returns(cols % 16 = 0 /\ FillsBlocks(args.block_scales, Dim(args.qx, 0), cols \div 16), Unpacked(args))
EagerQuantizeMxfp8(args) ==
  LET sh == Padded(args.x.sh, args.pad_32x, 32) IN Returns(sh[2] % 32 = 0, Mxfp8(sh))
EagerDequantizeMxfp8(args) ==
  Returns(/\ Dim(args.qx, 1) % 32 = 0
          /\ FillsBlocks(args.block_scales, Dim(args.qx, 0), Dim(args.qx, 1) \div 32),
          <<Tensor(args.output_type.dt, args.qx.sh)>>)

\* torch's scaled matmul, from how scaled_mm_v2 calls it
TorchScaledMM(args, block) ==
  LET elements == IF block = 16 THEN 2 ELSE 1
      k == elements * Dim(args.a, 1)
  IN  Returns(/\ Dim(args.a, 1) = Dim(args.b, 1)
              /\ Dim(args.a, 1) % 16 = 0 /\ Dim(args.b, 0) % 16 = 0
              /\ FillsBlocks(args.block_scale_a, Dim(args.a, 0), k \div block)
              /\ FillsBlocks(args.block_scale_b, Dim(args.b, 0), k \div block),
              MatrixOf(args))
EagerScaledMMNvfp4(args) == TorchScaledMM(args, 16)
EagerScaledMMMxfp8(args) == TorchScaledMM(args, 32)

-----------------------------------------------------------------------------
(* cuda *)

CudaQuantizeFp8(args) == Cast(args)
CudaDequantizeFp8(args) == Returns(Numel(args.scale) = 1, Reads({args.x}, Cast(args)))
\* The result is rng's storage, as FP8.
CudaStochasticFp8(args) == <<Tensor(args.output_type.dt, args.rng.sh)>>
\* The kernels of blocks are built for the half dtypes only, and their launchers throw on f32
\* (DISPATCH_HALF_DTYPE, ops/quantize_nvfp4.cu:367, ops/quantize_mxfp8.cu:179).
CudaQuantizeNvfp4(args) ==
  LET sh == Padded(args.x.sh, args.pad_16x, 16)
  IN  Returns(/\ args.x.contiguous /\ sh[1] % 16 = 0 /\ sh[2] % 16 = 0
              /\ args.x.dt \in Halves,
              Nvfp4(sh))
\* Whole blocks are the launcher's to ask for (ops/quantize_nvfp4.cu:402).
CudaDequantizeNvfp4(args) ==
  Returns(args.qx.contiguous /\ Dim(args.qx, 0) % 16 = 0 /\ (2 * Dim(args.qx, 1)) % 16 = 0, Unpacked(args))
CudaQuantizeMxfp8(args) ==
  LET sh == Padded(args.x.sh, args.pad_32x, 32)
  IN  Returns(/\ args.x.contiguous /\ sh[1] % 32 = 0 /\ sh[2] % 32 = 0
              /\ args.x.dt \in Halves,
              Mxfp8(sh))
CudaScaledMMNvfp4(args) ==
  LET m == Dim(args.a, 0)
      n == Dim(args.b, 0)
      blocks == RoundUp((2 * Dim(args.a, 1)) \div 16, 4)
      alpha == IF Has(args, "alpha") THEN {args.alpha} ELSE {args.tensor_scale_a, args.tensor_scale_b}
  IN  Returns(/\ Dim(args.a, 1) = Dim(args.b, 1) /\ n % 8 = 0
              /\ args.block_scale_a.dt = args.block_scale_b.dt /\ args.block_scale_a.dt = "e4m3"
              /\ \A t \in alpha : Numel(t) = 1
              /\ args.block_scale_a.sh = <<RoundUp(m, 128), blocks>>
              /\ args.block_scale_b.sh = <<RoundUp(n, 128), blocks>>
              /\ Has(args, "bias") => args.bias.dt \in Halves,
              MatrixOf(args))

-----------------------------------------------------------------------------
(* hip, xpu, triton *)

\* _scale_operand
SingleScale(args) == Numel(args.scale) = 1
HipQuantizeFp8(args) == Returns(SingleScale(args), Cast(args))
HipDequantizeFp8(args) == Returns(SingleScale(args), Cast(args))
HipStochasticFp8(args) == Returns(args.rng.sh = args.x.sh /\ args.rng.contiguous, Cast(args))
XpuFp8(args) == Cast(args)

TritonQuantizeFp8(compiles, args) == Returns(args.output_type.dt \in Fp8s \cap compiles, Cast(args))
TritonDequantizeFp8(compiles, args) == Returns(args.x.dt \in compiles, Cast(args))
\* cvt.rn.satfinite.e2m1x2.f32, which only SM 10.0 and later have, and scales cast to E4M3.
TritonQuantizeNvfp4(compiles, args) ==
  LET sh == Padded(args.x.sh, args.pad_16x, 16)
  IN  Returns({"e4m3", "e2m1"} \subseteq compiles /\ sh[2] % 16 = 0, Nvfp4(sh))
\* cvt.rn.f16x2.e2m1x2, and whole tiles of 128 bytes: the mask of the last one is a
\* column's, which is always in the row.
TritonDequantizeNvfp4(compiles, args) ==
  IF ~({"e4m3", "e2m1"} \subseteq compiles) THEN Raise
  ELSE IF Numel(args.qx) % 128 = 0 THEN Reads({args.qx}, Unpacked(args)) ELSE Overrun
\* Columns after the last whole block are not written.
TritonQuantizeMxfp8(compiles, args) ==
  LET sh == Padded(args.x.sh, args.pad_32x, 32)
  IN  IF "e4m3" \notin compiles THEN Raise
      ELSE IF sh[2] % 32 = 0 THEN Mxfp8(sh) ELSE Misread

-----------------------------------------------------------------------------
Fp8Fp4Ops ==
  {"quantize_per_tensor_fp8", "dequantize_per_tensor_fp8", "stochastic_rounding_fp8", "quantize_nvfp4",
   "dequantize_nvfp4", "scaled_mm_nvfp4", "quantize_mxfp8", "dequantize_mxfp8", "scaled_mm_mxfp8"}

DeclaredFp8Fp4(op, args) ==
  CASE op = "quantize_nvfp4" -> DeclaredNvfp4(args)
    [] op = "quantize_mxfp8" -> DeclaredMxfp8(args)
    [] op = "dequantize_nvfp4" -> Unpacked(args)
    [] op = "dequantize_mxfp8" -> <<Tensor(args.output_type.dt, args.qx.sh)>>
    [] op \in {"scaled_mm_nvfp4", "scaled_mm_mxfp8"} -> MatrixOf(args)
    [] OTHER -> DeclaredFp8(args)

\* The implementation a backend registers under the operator's name.
RunFp8Fp4(backend, compiles, op, args) ==
  CASE op = "quantize_per_tensor_fp8" ->
         (CASE backend = "eager" -> EagerQuantizeFp8(args) [] backend = "cuda" -> CudaQuantizeFp8(args)
            [] backend = "hip" -> HipQuantizeFp8(args) [] backend = "triton" -> TritonQuantizeFp8(compiles, args)
            [] backend = "xpu" -> XpuFp8(args))
    [] op = "dequantize_per_tensor_fp8" ->
         (CASE backend = "eager" -> EagerDequantizeFp8(args) [] backend = "cuda" -> CudaDequantizeFp8(args)
            [] backend = "hip" -> HipDequantizeFp8(args) [] backend = "triton" -> TritonDequantizeFp8(compiles, args)
            [] backend = "xpu" -> XpuFp8(args))
    [] op = "stochastic_rounding_fp8" ->
         (CASE backend = "eager" -> EagerStochasticFp8(args) [] backend = "cuda" -> CudaStochasticFp8(args)
            [] backend = "hip" -> HipStochasticFp8(args) [] backend = "xpu" -> XpuFp8(args))
    [] op = "quantize_nvfp4" ->
         (CASE backend = "eager" -> EagerQuantizeNvfp4(args) [] backend = "cuda" -> CudaQuantizeNvfp4(args)
            [] backend = "triton" -> TritonQuantizeNvfp4(compiles, args))
    [] op = "dequantize_nvfp4" ->
         (CASE backend = "eager" -> EagerDequantizeNvfp4(args) [] backend = "cuda" -> CudaDequantizeNvfp4(args)
            [] backend = "triton" -> TritonDequantizeNvfp4(compiles, args))
    [] op = "scaled_mm_nvfp4" ->
         (CASE backend = "eager" -> EagerScaledMMNvfp4(args) [] backend = "cuda" -> CudaScaledMMNvfp4(args))
    [] op = "quantize_mxfp8" ->
         (CASE backend = "eager" -> EagerQuantizeMxfp8(args) [] backend = "cuda" -> CudaQuantizeMxfp8(args)
            [] backend = "triton" -> TritonQuantizeMxfp8(compiles, args))
    [] op = "dequantize_mxfp8" -> EagerDequantizeMxfp8(args)
    [] op = "scaled_mm_mxfp8" -> EagerScaledMMMxfp8(args)
=============================================================================
