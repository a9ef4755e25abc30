--------------------------- MODULE AcceleratorTables ---------------------------
(***************************************************************************)
(* What the native backends declare they can run (CUDA, HIP, XPU, Ascend),      *)
(* by what their extensions were built with or the device has, and the check    *)
(* of a call against a table, with the rules that look at a whole call.         *)
(***************************************************************************)
EXTENDS OperatorTables

SameForEach(x, params) == [name \in params |-> x]

-----------------------------------------------------------------------------
(* cuda; cublaslt is whether the extension was built with cuBLASLt *)

CudaMesh ==
  LET Points == OfRank({"f32"}, 2)
      Indices == OfRank({"i32", "i64"}, 2)
  IN  [delaunay3d |-> From(75, Entry([points |-> OfRank({"f32", "f64"}, 2)])),
       mesh_bvh |-> From(75, Entry([triangles |-> OfRank({"f32"}, 3)])),
       closest_point_on_mesh |-> From(75, Entry([points |-> Points])),
       connected_components |-> From(75, Entry([edges |-> Indices])),
       edge_collapse_checks |-> From(75, Entry([vertices |-> Points, faces |-> Indices, edges |-> Indices,
                                                positions |-> Points])),
       min_cut |-> From(75, Entry([nbr |-> Indices, cap |-> Points, s_cap |-> S1, t_cap |-> S1]))]

\* FP16 convolution and group norm: the same on HIP.
Spatial16 ==
  LET half == Of({"f16"})
      half5 == OfRank({"f16"}, 5)
  IN  Entries({"adaln", "rms_adaln"}, Entry([x |-> F, scale |-> F, shift |-> F]))
      ++ [fp16_conv3d |-> Entry([x |-> half5, weight |-> half5, bias |-> half, residual |-> half]),
          group_norm_stats3d |-> Entry([x |-> Half5]),
          group_norm_silu_pad3d |-> Entry([x |-> Half5, weight |-> F, bias |-> F])]

NativeFp8 ==
  [quantize_per_tensor_fp8 |-> Entry([x |-> F, scale |-> S, output_type |-> Of(Fp8s)]),
   dequantize_per_tensor_fp8 |-> Entry([x |-> Of(Fp8s), scale |-> S, output_type |-> F]),
   stochastic_rounding_fp8 |-> Entry([x |-> F, rng |-> Of({"u8"}), output_type |-> Of(Fp8s)])]

CudaFp4 ==
  [quantize_nvfp4 |-> Entry([x |-> F2, per_tensor_scale |-> S]),
   quantize_mxfp8 |-> Entry([x |-> F2]),
   dequantize_nvfp4 |-> Entry([qx |-> Param({"u8"}, {ExactDims(2), DivisibleBy(0, 16)}),
                               per_tensor_scale |-> S, block_scales |-> Of({"e4m3"}), output_type |-> F])]

\* Rope of x, of a pair, and with the RMS norm; x has one of the dtypes.
NativeRope(x) ==
  Entries(RopeOne, Entry([x |-> x, freqs_cis |-> F6]))
  ++ Entries(RopeTwo, Entry([xq |-> x, xk |-> x, freqs_cis |-> F6]))
NativeRmsRope(x) ==
  Entries(RmsRopeOne, Entry([x |-> x, freqs_cis |-> F6, scale |-> F1]))
  ++ Entries(RmsRopeTwo, Entry([q |-> x, k |-> x, freqs_cis |-> F6, q_scale |-> F1, k_scale |-> F1]))
CudaRope ==
  LET table == NativeRope(Half4) ++ NativeRmsRope(Half4)
  IN  [op \in DOMAIN table |->
         CASE op \in RmsRopeOne -> Ruled("cuda_rms_rope1", table[op])
           [] op \in RmsRopeTwo -> Ruled("cuda_rms_rope", table[op])
           [] OTHER -> table[op]]

CudaInt8 ==
  LET stored == [q |-> I8, scale |-> F]
      matrix == [q |-> I2, scale |-> F]
  IN  [quantize_int8_tensorwise |-> Entry([x |-> F, scale |-> Of(Floats \cup {"float", "str"})]),
       quantize_int8_rowwise |-> Entry([x |-> F]),
       quantize_and_rotate_rowwise |-> Entry([x |-> F, H |-> F]),
       quantize_int8_convrot_weight |-> Entry([weight |-> F2]),
       rotate_int8_convrot_weight |-> Entry([weight |-> F2]),
       dequantize_int8_convrot_weight |-> Entry(matrix),
       dequantize_int8_convrot_weight_dtype |-> Entry(matrix),
       dequantize_int8_simple |-> Entry(stored),
       dequantize_int8_simple_dtype |-> Entry(stored)]

CudaW4A8 ==
  LET linear == From(80, Entry(W4A8Params ++ [x |-> F, bias |-> F, out_dtype |-> F]))
  IN  [quantize_w4a8_int8_weight |-> From(80, Entry([weight |-> F2, scale_dtype |-> Of({"e4m3", "f32"})])),
       dequantize_w4a8_int8_weight |-> From(80, Entry(W4A8Params ++ [output_dtype |-> F])),
       w4a8_int8_linear |-> linear,
       w4a8_packed_linear |-> WithPackedStorage(linear)]

CudaInt4 ==
  LET packed == Param({"i8"}, {ExactDims(2), DivisibleBy(1, 32)})
  IN  [quantize_svdquant_w4a4 |->
         From(80, Entry([x |-> Param(Halves, {ExactDims(2), DivisibleBy(1, 64)}), smooth |-> Half, lora_down |-> Half2])),
       scaled_mm_svdquant_w4a4 |->
         From(80, Entry([act |-> I2, wgt |-> I8, ascales |-> Half, wscales |-> Half,
                         lora_act_in |-> F, lora_up |-> Half])),
       quantize_convrot_w4a4_weight |-> From(75, Entry([weight |-> Param(Floats, {ExactDims(2), DivisibleBy(1, 64)})])),
       dequantize_convrot_w4a4_weight |-> From(75, Entry([qdata |-> packed, scales |-> F1, output_dtype |-> F])),
       convrot_w4a4_linear |->
         From(75, Entry([x |-> Param(Floats, {MinDims(2)}), qweight |-> packed, wscales |-> F1, bias |-> F])),
       prepare_int4_weight_for_int8_linear |-> Entry([weight |-> packed]),
       gemv_awq_w4a16 |-> From(80, Entry([x |-> Half, qweight |-> I2, wscales |-> Half2, wzeros |-> Half2]))]

Fp16Linear ==
  Entry([x |-> Param({"f16"}, {MinDims(2)}), weight |-> OfRank({"f16"}, 2)]
        ++ SameForEach(Of({"f16"}), {"bias", "residual", "residual_scale"}))

CudaCublasLt ==
  LET packed == Param({"u8"}, {ExactDims(2), DivisibleBy(1, 16)})
  IN  [int8_linear |-> From(75, Entry([x |-> Param(Floats, {MinDims(2)}), weight |-> I2, weight_scale |-> S,
                                       bias |-> F, out_dtype |-> F])),
       scaled_mm_nvfp4 |-> From(100, Entry([a |-> packed, b |-> packed, tensor_scale_a |-> S, tensor_scale_b |-> S,
                                            block_scale_a |-> Of({"e4m3"}), block_scale_b |-> Of({"e4m3"}),
                                            out_dtype |-> Half]))]

CudaAttention ==
  [sol_attn |-> From(80, Ruled("sol", Entry(SameForEach(Half4, {"q", "k", "v"})))),
   na3d |-> From(80, Ruled("na3d_native", Entry(SameForEach(Half6, {"q", "k", "v"}))))]

WithOutEntries(table) ==
  table ++ [op \in {"fp16_conv3d_out", "group_norm_silu_pad3d_out"} |->
              WithOutParam(IF op = "fp16_conv3d_out" THEN table["fp16_conv3d"] ELSE table["group_norm_silu_pad3d"])]

CudaTable(cublaslt) ==
  WithOutEntries(CudaAttention ++ CudaMesh ++ Spatial16 ++ NativeFp8 ++ CudaFp4 ++ CudaRope ++ CudaInt8 ++ CudaW4A8
                 ++ CudaInt4 ++ [fp16_linear |-> From(80, Fp16Linear)]
                 ++ IF cublaslt THEN CudaCublasLt ELSE <<>>)

-----------------------------------------------------------------------------
(* hip; wmma is whether every visible device has matrix cores *)

HipAttention ==
  [sol_attn |-> Ruled("sol", Entry(SameForEach(Half4, {"q", "k", "v"}))),
   na3d |-> Ruled("na3d_native", Entry(SameForEach(Half6, {"q", "k", "v"})))]

HipInt8 ==
  LET bf == Of({"bf16"})
      matmul == [x |-> Param(Floats, {DivisibleBy(-1, 16)}), weight |-> I8, out_dtype |-> F]
      modulated == [x |-> Param({"bf16"}, {DivisibleBy(-1, 16)}), modulation_scale |-> bf, weight |-> I2, out_dtype |-> F]
  IN  Entries({"quantize_int8_rowwise", "quantize_int8_tensorwise", "quantize_and_rotate_rowwise"}, Entry([x |-> F]))
      ++ [quantize_int8_convrot_weight |-> Entry([weight |-> F]),
          dequantize_int8_simple_dtype |-> Entry([q |-> I8, scale |-> F]),
          dequantize_int8_convrot_weight_dtype |-> Entry([q |-> I2, scale |-> F]),
          int8_linear |-> Entry(matmul),
          rms_gated_residual |-> Entry(SameForEach(bf, {"activation", "norm_weight", "residual", "gate"})),
          int8_linear_modulated |-> Entry(modulated),
          int8_linear_rms_modulated |-> Entry(modulated ++ [norm_weight |-> bf])]

HipInt4 ==
  LET by32 == Param(Floats, {DivisibleBy(-1, 32)})
  IN  [quantize_w4a8_int8_weight |-> Entry([weight |-> F2, scale_dtype |-> Of({"e4m3", "f32"})]),
       dequantize_w4a8_int8_weight |-> Entry(W4A8Params ++ [output_dtype |-> F]),
       w4a8_int8_linear |->
         Entry(W4A8Params ++ [x |-> Param(Floats, {DivisibleBy(-1, 16)}), bias |-> F, out_dtype |-> F]),
       quantize_convrot_w4a4_weight |-> Entry([weight |-> by32]),
       dequantize_convrot_w4a4_weight |-> Entry([qdata |-> I8]),
       convrot_w4a4_linear |-> Entry([x |-> by32, qweight |-> I8]),
       gemv_awq_w4a16 |-> Entry([x |-> F, qweight |-> I2]),
       quantize_svdquant_w4a4 |->
         Entry([x |-> Param(Floats, {ExactDims(2), DivisibleBy(-1, 64)}), smooth |-> F, lora_down |-> F2]),
       scaled_mm_svdquant_w4a4 |-> Entry([act |-> I2, wgt |-> I2, wscales |-> F2, lora_up |-> F2])]

WmmaOnlyOps ==
  {"fp16_conv3d", "fp16_conv3d_out", "fp16_linear", "int8_linear", "int8_linear_modulated",
   "int8_linear_rms_modulated", "na3d", "sol_attn", "convrot_w4a4_linear", "scaled_mm_svdquant_w4a4",
   "w4a8_int8_linear"}

Without(table, ops) == [op \in DOMAIN table \ ops |-> table[op]]
HipTable(wmma) ==
  Without(WithOutEntries(HipAttention ++ NativeFp8 ++ HipInt8 ++ HipInt4 ++ Spatial16
                         ++ [fp16_linear |-> Fp16Linear] ++ NativeRope(F4) ++ NativeRmsRope(F4)),
          IF wmma THEN {} ELSE WmmaOnlyOps)

-----------------------------------------------------------------------------
(* xpu; has is the set of the companion's features *)

XpuInt8(has) ==
  LET matrix == [q |-> I2, scale |-> F]
      product == [x |-> Half, weight |-> I2, weight_scale |-> S, bias |-> F, out_dtype |-> F]
      modulated == product ++ [modulation_scale |-> F]
  IN  [quantize_int8_tensorwise |-> Entry([x |-> F, scale |-> S]),
       quantize_int8_rowwise |-> Entry([x |-> F]),
       dequantize_int8_simple |-> Entry([q |-> I8, scale |-> F]),
       dequantize_int8_simple_dtype |-> Entry([q |-> I8, scale |-> F]),
       int8_linear |->
         Entry(product ++ SameForEach(F, {"input_act_weight", "residual", "residual_scale"})),
       mm_int8 |-> Entry([a |-> I2, b |-> I2]),
       quantize_int8_convrot_weight |-> Entry([weight |-> F2]),
       dequantize_int8_convrot_weight |-> Entry(matrix),
       dequantize_int8_convrot_weight_dtype |-> Entry(matrix)]
      ++ IF "prequantized" \in has
         THEN [int8_linear_modulated |-> Ruled("xpu_modulated", Entry(modulated)),
               int8_linear_rms_modulated |-> Ruled("xpu_modulated", Entry(modulated ++ [norm_weight |-> F]))]
         ELSE <<>>

XpuW4A8 ==
  [w4a8_int8_linear |->
     Ruled("xpu_w4a8",
       Entry([x |-> Half, qdata |-> I2, s_rel |-> Rel2, s_channel |-> F1, codebook |-> F1]
             ++ SameForEach(F, {"correction", "bias", "out_dtype", "input_act_weight", "residual", "residual_scale"})))]

XpuSVDQuant ==
  LET bytes == {"i8", "u8"}
  IN  [quantize_svdquant_w4a4 |-> Entry([x |-> F2, smooth |-> F1, lora_down |-> F2, lora_x |-> F2]),
       scaled_mm_svdquant_w4a4 |->
         Entry([act |-> OfRank(bytes, 2), wgt |-> Of(bytes), ascales |-> F2, wscales |-> F,
                lora_act_in |-> OfRank({"f32"}, 2), lora_up |-> F, bias |-> F])]

XpuSVDQuantW4A16 ==
  LET own == EagerSVDQuantW4A16.svdquant_w4a16_linear
  IN  [svdquant_w4a16_linear |-> [own EXCEPT !.params.x = OfRank({"bf16"}, 2)]]

XpuSpatial(has) ==
  LET norm == Entry([x |-> F, scale |-> F, shift |-> F])
      half == OfRank({"f16"}, 5)
      pad == Entry([x |-> F5, weight |-> F, bias |-> F, stats |-> S])
      conv == Entry([x |-> half, weight |-> half, bias |-> F, residual |-> F])
      all == [adaln |-> norm, rms_adaln |-> norm, group_norm_stats3d |-> Entry([x |-> F5]),
              group_norm_silu_pad3d |-> pad, group_norm_silu_pad3d_out |-> WithOutParam(pad),
              fp16_linear |-> Entry([x |-> Of({"f16"}), weight |-> Of({"f16"})]
                                    ++ SameForEach(F, {"bias", "residual", "residual_scale"})),
              fp16_conv3d |-> conv, fp16_conv3d_out |-> WithOutParam(conv)]
  IN  [op \in DOMAIN all \cap has |-> all[op]]

XpuAWQ == [gemv_awq_w4a16 |-> Entry([x |-> Half, qweight |-> I2, wscales |-> Half2, wzeros |-> Half2, bias |-> Half])]

XpuConvRot ==
  [quantize_convrot_w4a4_weight |-> Entry([weight |-> F2]),
   dequantize_convrot_w4a4_weight |-> Entry([qdata |-> I2, scales |-> F1, output_dtype |-> F]),
   convrot_w4a4_linear |-> Entry([x |-> F, qweight |-> I2, wscales |-> F1, bias |-> F]),
   prepare_int4_weight_for_int8_linear |-> Entry([weight |-> I2]),
   quantize_and_rotate_rowwise |-> Entry([x |-> F, H |-> F])]

XpuTable(has) ==
  (IF "int8" \in has THEN XpuInt8(has) ELSE <<>>)
  ++ (IF {"int8", "prequantized"} \subseteq has THEN XpuW4A8 ELSE <<>>)
  ++ (IF "svdquant" \in has THEN XpuSVDQuant ELSE <<>>)
  ++ (IF "svdquant_w4a16" \in has THEN XpuSVDQuantW4A16 ELSE <<>>)
  ++ XpuSpatial(has)
  ++ (IF "awq" \in has THEN XpuAWQ ELSE <<>>)
  ++ (IF "fp8" \in has THEN NativeFp8 ELSE <<>>)
  ++ (IF "gguf" \in has THEN [dequantize_gguf |-> Entry([data |-> Of({"u8"})])] ELSE <<>>)
  ++ (IF "rope" \in has THEN NativeRope(F4) ELSE <<>>)
  ++ (IF "rms_rope" \in has THEN NativeRmsRope(F4) ELSE <<>>)
  ++ (IF {"convrot", "svdquant"} \subseteq has THEN XpuConvRot ELSE <<>>)
  ++ (IF "sol" \in has THEN [sol_attn |-> Ruled("sol", Entry(SameForEach(Half4, {"q", "k", "v"})))] ELSE <<>>)

-----------------------------------------------------------------------------
(* ascend; has is the set of the operators torch_npu offers *)

AscendInt8(has) ==
  (IF "rotate_quant" \in has
   THEN [quantize_and_rotate_rowwise |-> Ruled("ascend_rotate", Entry([x |-> Param(Halves, {MinDims(2)}), H |-> Half2]))]
   ELSE <<>>)
  ++ (IF {"quant_matmul", "dynamic_quant"} \subseteq has
      THEN [int8_linear |->
              Ruled("ascend_int8",
                Entry([x |-> Param(Halves, {MinDims(2)}), weight |-> I2, weight_scale |-> S, bias |-> F, out_dtype |-> Half]
                      ++ SameForEach(F, {"input_act_weight", "residual", "residual_scale"})))]
      ELSE <<>>)
  ++ (IF {"dynamic_quant", "quantize"} \subseteq has
      THEN [quantize_int8_tensorwise |->
              Ruled("ascend_tensorwise", Entry([x |-> Half, scale |-> Of(Floats \cup {"float", "int", "str"})])),
            quantize_int8_rowwise |-> Ruled("deterministic", Entry([x |-> Param(Halves, {MinDims(2)})]))]
      ELSE <<>>)
  ++ [dequantize_int8_simple |-> Entry([q |-> I8, scale |-> S]),
      dequantize_int8_simple_dtype |-> Ruled("float_output", Entry([q |-> I8, scale |-> S]))]

AscendRope(has) ==
  LET table == (IF "rotary_mul" \in has THEN NativeRope(Half4) ELSE <<>>)
               ++ (IF {"rotary_mul", "rms_norm"} \subseteq has THEN NativeRmsRope(Half4) ELSE <<>>)
  IN  [op \in DOMAIN table |-> Ruled("ascend_rope", table[op])]

AscendTable(has) ==
  AscendInt8(has) ++ AscendRope(has)
  ++ (IF "quant_matmul" \in has
      THEN [convrot_w4a4_linear |->
              Ruled("ascend_convrot",
                Entry([x |-> Param(Floats, {MinDims(2)}), qweight |-> OfRank({"i8", "u8"}, 2), wscales |-> S, bias |-> F]))]
      ELSE <<>>)

-----------------------------------------------------------------------------
(* Rules that look at a whole call.  A call's args are a record of tensors,      *)
(* numbers and strings.                                                        *)

AllLike(args, names, like) ==
  \A name \in names : Has(args, name) => args[name].sh = like.sh /\ args[name].dt = like.dt
PowersOfFour == {4, 16, 64, 256, 1024, 4096, 16384}

SolRule(args) ==
  /\ AllLike(args, {"k", "v"}, args.q) /\ LastDim(args.q) = 128
  /\ Has(args, "block_len") => args.block_len.dt = "i32" /\ args.block_len.sh = <<(Dim(args.q, 1) + 63) \div 64>>
  /\ Has(args, "coarse_gate") => args.coarse_gate.sh = args.q.sh
  /\ \A name \in {"sink_blocks", "sink_q"} \cap DOMAIN args :
       Len(args[name]) = 2 /\ 0 <= args[name][1] /\ args[name][1] <= args[name][2]
  /\ Num(args, "token_aug", 0) \in {0, 64, 128, 192, 256}

Na3dRule(args) ==
  /\ AllLike(args, {"k", "v"}, args.q)
  /\ \A name \in {"kernel_size", "is_causal"} \cap DOMAIN args : Len(args[name]) = 3
  /\ \A d \in DOMAIN Num(args, "kernel_size", <<>>) : args.kernel_size[d] >= 1
Na3dNativeRule(args) ==
  /\ Na3dRule(args)
  /\ LastDim(args.q) % 16 = 0 /\ LastDim(args.q) <= 64
  /\ Dim(args.q, 1) * Dim(args.q, 2) <= 65535 /\ Dim(args.q, 0) * Dim(args.q, 4) <= 65535

\* detect_rms_rope_bnhd: "bhnd", "bnhd" or "none"
Layout(x, freqs, rot_dim) ==
  LET rot == IF rot_dim = 0 THEN LastDim(x) ELSE rot_dim
      head == LastDim(x)
      table == /\ Rank(x) = 4 /\ Rank(freqs) = 6
               /\ head # 0 /\ head % 2 = 0 /\ rot % 2 = 0 /\ rot <= head
               /\ SubSeq(freqs.sh, 4, 6) = <<rot \div 2, 2, 2>> /\ Dim(freqs, 0) \in {1, Dim(x, 0)}
      fits(d, e) == table /\ Dim(freqs, d) \in {1, Dim(x, d)} /\ Dim(freqs, e) = 1
  IN  CASE fits(2, 1) -> "bhnd"
        [] ~fits(2, 1) /\ fits(1, 2) -> "bnhd"
        [] OTHER -> "none"

CudaRmsLayout(x, freqs, rot_dim) ==
  Layout(x, freqs, rot_dim) # "none" /\ LastDim(x) >= 32 /\ LastDim(x) % 32 = 0 /\ x.dt \in Halves
CudaRmsRope1Rule(args) == CudaRmsLayout(args.x, args.freqs_cis, 0)
KeyScale(args) == IF Has(args, "k_scale") THEN args.k_scale ELSE Get(args, "q_scale")
CudaRmsRopeRule(args) ==
  LET rot_dim == Num(args, "rot_dim", 0)
  IN  /\ Has(args, "q_scale")
      /\ CudaRmsLayout(args.q, args.freqs_cis, rot_dim)
      /\ args.k.dt = args.q.dt
      /\ args.k.sh # args.q.sh => CudaRmsLayout(args.k, args.freqs_cis, rot_dim)
      /\ args.q_scale.sh = <<LastDim(args.q)>> /\ KeyScale(args).sh = <<LastDim(args.k)>>
      /\ args.k.sh = args.q.sh => KeyScale(args).dt = args.q_scale.dt

ModulatedRule(args) == \A name \in {"modulation_scale", "norm_weight"} : Has(args, name) => args[name].dt = args.x.dt

Deterministic(args) == Num(args, "stochastic_rounding", 0) <= 0
AscendTensorwiseRule(args) ==
  Deterministic(args) /\ (Has(args, "scale") /\ args.scale.dt \in Floats => Numel(args.scale) = 1)
AscendRotateRule(args) ==
  LET h == IF Has(args, "H") THEN args.H ELSE Get(args, "h")
  IN  /\ Deterministic(args) /\ args.group_size >= 16 /\ args.group_size % 8 = 0
      /\ Numel(args.x) # 0 /\ LastDim(args.x) \in 128 .. 16000 /\ LastDim(args.x) % args.group_size = 0
      /\ h.sh = <<args.group_size, args.group_size>> /\ h.dt = args.x.dt

Width(args) == IF Num(args, "input_act", "none") \in {"swiglu", "situ"} THEN 2 ELSE 1
AscendInt8Rule(args) ==
  LET k == LastDim(args.x) \div Width(args)
      n == Dim(args.weight, 0)
      group == Num(args, "convrot_groupsize", 256)
  IN  /\ Numel(args.x) # 0 /\ Numel(args.weight) # 0
      /\ Num(args, "input_act", "none") = "rms_norm" => Get(args, "input_act_weight").sh = <<LastDim(args.x)>>
      /\ Has(args, "residual") => Has(args, "residual_scale")
      /\ LastDim(args.x) % Width(args) = 0 /\ k = LastDim(args.weight)
      /\ Has(args, "weight_scale") => Numel(args.weight_scale) \in {1, n}
      /\ Has(args, "bias") => Numel(args.bias) = n
      /\ Num(args, "convrot", FALSE) => group \in PowersOfFour /\ k % group = 0

AscendConvRotRule(args) ==
  LET k == LastDim(args.x)
      n == Dim(args.qweight, 0)
      group == Num(args, "convrot_groupsize", 256)
  IN  /\ Num(args, "linear_dtype", "int4") = "int4" /\ Num(args, "quant_group_size", 64) = 64
      /\ group >= 16 /\ group \in PowersOfFour
      /\ Numel(args.x) # 0 /\ Numel(args.qweight) # 0
      /\ k = 2 * LastDim(args.qweight) /\ k >= 128 /\ k % group = 0 /\ k % 8 = 0 /\ n % 8 = 0
      /\ Numel(args.wscales) = n /\ (Has(args, "bias") => Numel(args.bias) = n)

\* validate_apply_rope*, validate_rms_rope* (ascend/rope.py)
AscendRopeTensor(x, freqs, split_half, rot_dim) ==
  LET bnhd == Layout(x, freqs, rot_dim)
      heads == IF bnhd = "bnhd" THEN Dim(x, 2) ELSE Dim(x, 1)
  IN  /\ Numel(x) # 0 /\ x.contiguous /\ bnhd # "none"
      /\ (IF rot_dim = 0 THEN LastDim(x) ELSE rot_dim) < 896
      /\ Dim(x, 0) < 1000 /\ heads < 1000
      /\ ~split_half => Dim(x, 0) * heads < 1000 /\ Dim(freqs, 0) = 1
AscendRopeRule(args) ==
  LET rotated == {name \in {"x", "xq", "xk", "q", "k"} : Has(args, name)}
      scale == [name \in rotated |-> CASE name = "q" -> Get(args, "q_scale")
                                       [] name = "k" -> KeyScale(args)
                                       [] OTHER -> Get(args, "scale")]
  IN  \A name \in rotated :
        /\ AscendRopeTensor(args[name], args.freqs_cis, Num(args, "split_half", FALSE), Num(args, "rot_dim", 0))
        /\ scale[name] # None => scale[name].sh = <<LastDim(args[name])>>

CallRule(rule, args) ==
  CASE rule = "sol" -> SolRule(args)
    [] rule = "na3d" -> Na3dRule(args)
    [] rule = "na3d_head128" -> Na3dRule(args) /\ LastDim(args.q) <= 128
    [] rule = "na3d_native" -> Na3dNativeRule(args)
    [] rule = "cuda_rms_rope1" -> CudaRmsRope1Rule(args)
    [] rule = "cuda_rms_rope" -> CudaRmsRopeRule(args)
    [] rule = "xpu_modulated" -> ModulatedRule(args)
    [] rule = "xpu_w4a8" -> ~Has(args, "correction")
    [] rule = "float_output" -> Get(args, "output_dtype").dt \in Floats
    [] rule = "deterministic" -> Deterministic(args)
    [] rule = "ascend_tensorwise" -> AscendTensorwiseRule(args)
    [] rule = "ascend_rotate" -> AscendRotateRule(args)
    [] rule = "ascend_int8" -> AscendInt8Rule(args)
    [] rule = "ascend_convrot" -> AscendConvRotRule(args)
    [] rule = "ascend_rope" -> AscendRopeRule(args)

\* validate_function_call: cc is the device's compute capability, 0 without one.
Validates(entry, args, cc) ==
  /\ entry.cc > 0 => cc >= entry.cc
  /\ \A name \in DOMAIN entry.params : ValidParam(Get(args, name), entry.params[name])
  /\ \A rule \in entry.rules : CallRule(rule, args)
=============================================================================
