---------------------------- MODULE OperatorTables ----------------------------
(***************************************************************************)
(* What each backend declares it can run: the _build_constraints tables of     *)
(* the eager, Triton, CUDA, HIP, XPU and Ascend backends, and the check of a    *)
(* call against them.                                                         *)
(***************************************************************************)
EXTENDS Operands

\* Parameter constraints that recur.
F == Of(Floats)
F1 == OfRank(Floats, 1)
F2 == OfRank(Floats, 2)
F4 == OfRank(Floats, 4)
F5 == OfRank(Floats, 5)
F6 == OfRank(Floats, 6)
Half == Of(Halves)
Half2 == OfRank(Halves, 2)
Half4 == OfRank(Halves, 4)
Half5 == OfRank(Halves, 5)
Half6 == OfRank(Halves, 6)
S == Of({"f32"})
S1 == OfRank({"f32"}, 1)
I8 == Of({"i8"})
I2 == OfRank({"i8"}, 2)
U2 == OfRank({"u8"}, 2)
Rel2 == OfRank({"e4m3", "f32"}, 2)

RopeOne == {"apply_rope1", "apply_rope1_", "apply_rope_split_half1", "apply_rope_split_half1_"}
RopeTwo == {"apply_rope", "apply_rope_", "apply_rope_split_half", "apply_rope_split_half_"}
RmsRopeOne == {"rms_rope1", "rms_rope1_", "rms_rope_split_half1", "rms_rope_split_half1_"}
RmsRopeTwo == {"rms_rope", "rms_rope_", "rms_rope_split_half", "rms_rope_split_half_"}

-----------------------------------------------------------------------------
(* eager *)

EagerSpatial ==
  Entries({"adaln", "rms_adaln"}, Entry([x |-> F, scale |-> F, shift |-> F]))
  ++ [fp16_conv3d |-> Entry([x |-> F5, weight |-> F5, bias |-> F, residual |-> F])]
  ++ [group_norm_silu_pad3d |-> Entry([x |-> F5, weight |-> F, bias |-> F])]
  ++ [group_norm_stats3d |-> Entry([x |-> F5])]

EagerFp8 ==
  [quantize_per_tensor_fp8 |-> Entry([x |-> F, scale |-> S, output_type |-> Of(Fp8s)]),
   dequantize_per_tensor_fp8 |-> Entry([x |-> Of(Fp8s), scale |-> F, output_type |-> F]),
   stochastic_rounding_fp8 |-> Entry([x |-> F, rng |-> Of({"u8"}), output_type |-> Of(Fp8s)])]

EagerNvfp4 ==
  [quantize_nvfp4 |-> Entry([x |-> F2, per_tensor_scale |-> S]),
   dequantize_nvfp4 |-> Entry([qx |-> U2, per_tensor_scale |-> S,
                               block_scales |-> Of({"e4m3"}), output_type |-> F]),
   scaled_mm_nvfp4 |-> Entry([a |-> U2, b |-> U2,
                              tensor_scale_a |-> S, tensor_scale_b |-> S,
                              block_scale_a |-> Of({"e4m3"}), block_scale_b |-> Of({"e4m3"}),
                              out_dtype |-> F])]

EagerRope ==
  Entries(RopeOne, Entry([x |-> F, freqs_cis |-> F]))
  ++ Entries(RopeTwo, Entry([xq |-> F, xk |-> F, freqs_cis |-> F]))
  ++ Entries(RmsRopeOne, Entry([x |-> F4, freqs_cis |-> F6, scale |-> F1]))
  ++ Entries(RmsRopeTwo, Entry([q |-> F4, k |-> F4, freqs_cis |-> F6, q_scale |-> F1, k_scale |-> F1]))

EagerSVDQuant ==
  [quantize_svdquant_w4a4 |-> Entry([x |-> F2, smooth |-> F1, lora_down |-> F2]),
   scaled_mm_svdquant_w4a4 |-> Entry([act |-> OfRank({"i8", "u8"}, 2), wgt |-> I8, ascales |-> F2,
                                      wscales |-> F, lora_act_in |-> F2, lora_up |-> F])]

EagerConvRot ==
  [quantize_convrot_w4a4_weight |-> Entry([weight |-> F2]),
   dequantize_convrot_w4a4_weight |-> Entry([qdata |-> I2, scales |-> F1, output_dtype |-> F]),
   convrot_w4a4_linear |-> Entry([x |-> F, qweight |-> I2, wscales |-> F1, bias |-> F])]

W4A8Params == [qdata |-> I2, s_rel |-> Rel2, s_channel |-> S1, codebook |-> S1, correction |-> F2]

EagerW4A8 ==
  [quantize_w4a8_int8_weight |-> Entry([weight |-> F2, scale_dtype |-> Of({"e4m3", "f32"})]),
   dequantize_w4a8_int8_weight |-> Entry(W4A8Params ++ [output_dtype |-> F]),
   w4a8_int8_linear |-> Entry(W4A8Params ++ [x |-> F, bias |-> F, out_dtype |-> F]),
   prepare_int4_weight_for_int8_linear |-> Entry([weight |-> I2])]

EagerAWQ == [gemv_awq_w4a16 |-> Entry([x |-> F, qweight |-> I2, wscales |-> F2, wzeros |-> F2])]

EagerGguf == [dequantize_gguf |-> Entry([data |-> Of({"u8"})])]

EagerSVDQuantW4A16 ==
  [svdquant_w4a16_linear |->
     Entry([x |-> Half2, packed_u4 |-> U2, scales_f16 |-> OfRank({"f16"}, 2),
            rcp_smooth_f16 |-> OfRank({"f16"}, 1), lora_down |-> Half2, lora_up |-> Half2,
            bias |-> OfRank(Halves, 1)])]

EagerInt8 ==
  [mm_int8 |-> Entry([a |-> I2, b |-> I2]),
   quantize_int8_tensorwise |-> Entry([x |-> F, scale |-> Of(Floats \cup {"float", "str"})]),
   rms_gated_residual |-> Entry([activation |-> F, norm_weight |-> F, residual |-> F, gate |-> F]),
   quantize_int8_rowwise |-> Entry([x |-> F]),
   quantize_and_rotate_rowwise |-> Entry([x |-> F, H |-> F]),
   quantize_int8_convrot_weight |-> Entry([weight |-> F2]),
   rotate_int8_convrot_weight |-> Entry([weight |-> F2]),
   dequantize_int8_convrot_weight |-> Entry([q |-> I2, scale |-> F]),
   dequantize_int8_convrot_weight_dtype |-> Entry([q |-> I2, scale |-> F]),
   dequantize_int8_embedding |-> Entry([q |-> I2, scale |-> F, indices |-> Of({"i64", "i32"})]),
   dequantize_int8_simple |-> Entry([q |-> I8, scale |-> F]),
   dequantize_int8_simple_dtype |-> Entry([q |-> I8, scale |-> F])]

EagerLinear ==
  LET single == [x |-> F, weight |-> I8, weight_scale |-> F, bias |-> F]
      modulated == single ++ [modulation_scale |-> F, out_dtype |-> F]
  IN  [fp16_linear |-> Entry([x |-> F, weight |-> F, bias |-> F, residual |-> F, residual_scale |-> F]),
       int8_linear |-> Entry(single),
       int8_linear_modulated |-> Entry(modulated),
       int8_linear_rms_modulated |-> Entry(modulated ++ [norm_weight |-> F])]

EagerMxfp8 ==
  [quantize_mxfp8 |-> Entry([x |-> F2]),
   dequantize_mxfp8 |-> Entry([qx |-> OfRank({"e4m3"}, 2), block_scales |-> Of({"e8m0"}), output_type |-> F]),
   scaled_mm_mxfp8 |-> Entry([a |-> OfRank({"e4m3"}, 2), b |-> OfRank({"e4m3"}, 2),
                              block_scale_a |-> Of({"e8m0"}), block_scale_b |-> Of({"e8m0"}), out_dtype |-> F])]

EagerAttention ==
  [sol_attn |-> Ruled("sol", Entry([q |-> F4, k |-> F4, v |-> F4])),
   na3d |-> Ruled("na3d", Entry([q |-> F6, k |-> F6, v |-> F6]))]

WithDerived(own) ==
  own ++ [fp16_conv3d_out |-> WithOutParam(own.fp16_conv3d),
          group_norm_silu_pad3d_out |-> WithOutParam(own.group_norm_silu_pad3d),
          w4a8_packed_linear |-> WithPackedStorage(own.w4a8_int8_linear)]
EagerTable ==
  WithDerived(EagerSpatial ++ EagerFp8 ++ EagerNvfp4 ++ EagerRope ++ EagerSVDQuant ++ EagerConvRot ++ EagerW4A8
              ++ EagerAWQ ++ EagerGguf ++ EagerSVDQuantW4A16 ++ EagerInt8 ++ EagerLinear ++ EagerMxfp8
              ++ EagerAttention)

-----------------------------------------------------------------------------
(* triton: CUDA and XPU tensors; NVFP4, MXFP8 and na3d CUDA tensors only. *)

TritonFp8 ==
  Entries({"adaln", "rms_adaln"}, Entry([x |-> F, scale |-> F, shift |-> F]))
  ++ [quantize_per_tensor_fp8 |-> Entry([x |-> F, scale |-> S, output_type |-> Of(Fp8s)]),
      dequantize_per_tensor_fp8 |-> Entry([x |-> Of(Fp8s), scale |-> S, output_type |-> F])]

TritonFp4 ==
  [quantize_nvfp4 |-> Entry([x |-> F2, per_tensor_scale |-> S]),
   quantize_mxfp8 |-> Entry([x |-> F2]),
   dequantize_nvfp4 |-> From(100, Entry([qx |-> U2, per_tensor_scale |-> S,
                                         block_scales |-> Of({"e4m3"}), output_type |-> F]))]

TritonInt8 ==
  [int8_linear |-> From(80, Entry([x |-> F, weight |-> I8, weight_scale |-> F, out_dtype |-> F])),
   w4a8_int8_linear |-> From(80, Entry(W4A8Params ++ [x |-> F, bias |-> F, out_dtype |-> F])),
   quantize_int8_rowwise |-> Entry([x |-> F]),
   quantize_and_rotate_rowwise |-> Entry([x |-> F, H |-> F])]

TritonRope ==
  Entries(RopeOne, Entry([x |-> F, freqs_cis |-> F]))
  ++ Entries(RopeTwo, Entry([xq |-> F, xk |-> F, freqs_cis |-> F]))
  ++ Entries(RmsRopeOne, Entry([x |-> F, freqs_cis |-> F, scale |-> F]))
  ++ Entries(RmsRopeTwo, Entry([q |-> F, k |-> F, freqs_cis |-> F, q_scale |-> F, k_scale |-> F]))

TritonNa3d == [na3d |-> Ruled("na3d_head128", From(80, Entry([q |-> F6, k |-> F6, v |-> F6])))]

TritonTable == TritonFp8 ++ TritonFp4 ++ TritonInt8 ++ TritonRope ++ TritonNa3d
TritonCudaOnly == DOMAIN TritonFp4 \cup DOMAIN TritonNa3d
=============================================================================
