---------------------------- MODULE MCOperatorCalls ----------------------------
(***************************************************************************)
(* Instances of OperatorCalls: the platforms, matrices on both sides of every    *)
(* block and group, and calls of the operators that only their tables model.     *)
(***************************************************************************)
EXTENDS OperatorCalls

SpatialOps ==
  {"adaln", "rms_adaln", "fp16_conv3d", "fp16_conv3d_out", "fp16_linear", "group_norm_silu_pad3d",
   "group_norm_silu_pad3d_out", "group_norm_stats3d"}
\* A companion with everything, and one without residuals added by the kernel.
NewXpu ==
  {"int8", "prequantized", "svdquant", "svdquant_w4a16", "awq", "fp8", "gguf", "rope", "rms_rope", "convrot", "sol",
   "rms_norm_for_int8", "rms_norm_quantize", "rms_norm_convrot_quantize", "fused_residual", "scaled_residual"}
  \cup SpatialOps
OlderXpu == {"int8", "fp8", "rope", "rms_norm_for_int8", "scaled_residual"}
\* The matmuls alone.
FirstXpu == {"int8", "fp8"}

Profile(family, option, cc, has, scaled_mm, compiles) ==
  [family |-> family, option |-> option, cc |-> cc, has |-> has, scaled_mm |-> scaled_mm, compiles |-> compiles]

\* Triton converts E4M3 from SM 8.9 and E2M1 from SM 10.0 on, and E5M2 everywhere.
Fp4Compiler == {"e5m2", "e4m3", "e2m1"}
Fp8Compiler == {"e5m2", "e4m3"}
E5m2Compiler == {"e5m2"}

MCProfiles ==
  [blackwell |-> Profile("cuda", TRUE, 100, {}, TRUE, Fp4Compiler),
   blackwell_old_torch |-> Profile("cuda", TRUE, 100, {}, FALSE, Fp4Compiler),
   ada |-> Profile("cuda", FALSE, 89, {}, TRUE, Fp8Compiler),
   turing |-> Profile("cuda", TRUE, 75, {}, FALSE, E5m2Compiler),
   rdna3 |-> Profile("hip", TRUE, 110, {}, FALSE, E5m2Compiler),
   rdna2 |-> Profile("hip", FALSE, 103, {}, FALSE, E5m2Compiler),
   battlemage |-> Profile("xpu", TRUE, 0, NewXpu, TRUE, Fp8Compiler),
   battlemage_old |-> Profile("xpu", TRUE, 0, OlderXpu, FALSE, Fp8Compiler),
   battlemage_first |-> Profile("xpu", TRUE, 0, FirstXpu, FALSE, Fp8Compiler),
   npu |-> Profile("ascend", TRUE, 0,
                   {"rotate_quant", "quant_matmul", "dynamic_quant", "quantize", "rotary_mul", "rms_norm"}, FALSE, {}),
   cpu |-> Profile("none", TRUE, 0, {}, FALSE, {})]

Ampere == [ampere |-> Profile("cuda", TRUE, 80, {}, FALSE, E5m2Compiler)]

-----------------------------------------------------------------------------
Pair(dt, lead, k, n, gates) == [x |-> Tensor(dt, lead \o <<gates * k>>), w |-> Tensor(dt, <<n, k>>)]

\* Widths that are a multiple of 32, of 16, of neither; of more and fewer rows than a tile
\* of scales.  A gated activation has twice the width; 24 is a multiple of 16 only before
\* the gate.
MCMatrices ==
  {Pair("bf16", <<3>>, k, n, 1) : k \in {20, 48, 64}, n \in {16, 20}}
  \cup {Pair(dt, lead, k, 16, 1) : dt \in {"bf16", "f32"}, lead \in {<<130>>, <<2, 3>>}, k \in {20, 64}}
  \cup {Pair("bf16", <<3>>, k, 16, 2) : k \in {20, 24, 64}}
MCActivations ==
  {[act |-> act, residual |-> residual] : act \in {"none", "gelu_tanh", "rms_norm", "swiglu", "situ"}, residual \in BOOLEAN}
MCGroups == {0, 4, 16, 64}
\* The rank-3 activation of a transformer block, held by rows.
RankThree == {Pair("bf16", <<2, 3>>, 64, 16, 1)}

-----------------------------------------------------------------------------
\* Calls as the layouts and the models make them, over the dtypes of an activation.
Of1(dt, n) == Tensor(dt, <<n>>)
Calls(op, made(_), dtypes) == {[op |-> op, args |-> made(dt)] : dt \in dtypes}

Freqs(bnhd) == Tensor("f32", IF bnhd THEN <<1, 4, 1, 32, 2, 2>> ELSE <<1, 1, 4, 32, 2, 2>>)
Heads(dt, bnhd) == Tensor(dt, IF bnhd THEN <<1, 4, 2, 64>> ELSE <<1, 2, 4, 64>>)
RopeCalls ==
  UNION {LET freqs == Freqs(bnhd) h(dt) == Heads(dt, bnhd)
         IN  Calls("apply_rope", LAMBDA dt : [xq |-> h(dt), xk |-> h(dt), freqs_cis |-> freqs], Floats)
             \cup Calls("apply_rope_split_half1_", LAMBDA dt : [x |-> h(dt), freqs_cis |-> freqs, split_half |-> TRUE], Floats)
             \cup Calls("rms_rope1", LAMBDA dt : [x |-> h(dt), freqs_cis |-> freqs, scale |-> Of1(dt, 64)], Floats)
             \cup Calls("rms_rope", LAMBDA dt : [q |-> h(dt), k |-> h(dt), freqs_cis |-> freqs,
                                                 q_scale |-> Of1(dt, 64), k_scale |-> Of1(dt, 64)], Floats) :
           bnhd \in BOOLEAN}

AttentionCalls ==
  LET head(dt, d) == Tensor(dt, <<1, 64, 2, d>>)
      cells(dt, d) == Tensor(dt, <<1, 4, 4, 4, 2, d>>)
  IN  UNION {Calls("sol_attn", LAMBDA dt : [q |-> head(dt, d), k |-> head(dt, d), v |-> head(dt, d)], Floats)
             \cup Calls("na3d", LAMBDA dt : [q |-> cells(dt, d), k |-> cells(dt, d), v |-> cells(dt, d),
                                             kernel_size |-> <<3, 3, 3>>, is_causal |-> <<FALSE, FALSE, FALSE>>], Floats) :
               d \in {64, 128, 136}}

\* A weight of 16 outputs and 128 inputs in each of the packed layouts.
PackedCalls ==
  LET act(dt, lead) == Tensor(dt, lead \o <<128>>)
      packed == Tensor("i8", <<16, 64>>)
      w4a8 == [qdata |-> packed, s_rel |-> Tensor("e4m3", <<16, 8>>), s_channel |-> Of1("f32", 16),
               codebook |-> Of1("f32", 16), correction |-> None]
  IN  UNION {Calls("gemv_awq_w4a16", LAMBDA dt : [x |-> act(dt, lead), qweight |-> packed, wscales |-> Tensor(dt, <<2, 16>>),
                                                  wzeros |-> Tensor(dt, <<2, 16>>)], Floats)
             \cup Calls("convrot_w4a4_linear", LAMBDA dt : [x |-> act(dt, lead), qweight |-> packed, wscales |-> Of1("f32", 16),
                                                            bias |-> Of1(dt, 16), convrot_groupsize |-> 64], Floats)
             \cup Calls("w4a8_int8_linear", LAMBDA dt : w4a8 @@ [x |-> act(dt, lead), bias |-> Of1(dt, 16),
                                                                 out_dtype |-> Dtype(dt)], Floats)
             \cup Calls("svdquant_w4a16_linear",
                        LAMBDA dt : [x |-> act(dt, lead), packed_u4 |-> Tensor("u8", <<16, 64>>),
                                     scales_f16 |-> Tensor("f16", <<16, 2>>), rcp_smooth_f16 |-> Of1("f16", 128),
                                     lora_down |-> Tensor(dt, <<8, 128>>), lora_up |-> Tensor(dt, <<16, 8>>),
                                     bias |-> Of1(dt, 16)], Floats)
             \cup Calls("int8_linear_rms_modulated",
                        LAMBDA dt : [x |-> act(dt, lead), weight |-> Tensor("i8", <<16, 128>>), weight_scale |-> Tensor("f32", <<16, 1>>),
                                     modulation_scale |-> Of1(dt, 128), norm_weight |-> Of1(dt, 128), bias |-> Of1(dt, 16),
                                     out_dtype |-> Dtype(dt)], Floats)
             \cup Calls("fp16_linear", LAMBDA dt : [x |-> act(dt, lead), weight |-> Tensor(dt, <<16, 128>>), bias |-> Of1(dt, 16)],
                        Floats) :
               lead \in {<<>>, <<3>>, <<2, 3>>}}
SVDQuantCalls ==
  Calls("quantize_svdquant_w4a4", LAMBDA dt : [x |-> Tensor(dt, <<3, 128>>), smooth |-> Of1(dt, 128),
                                               lora_down |-> Tensor(dt, <<128, 8>>)], Floats)
  \cup Calls("scaled_mm_svdquant_w4a4",
             LAMBDA dt : [act |-> Tensor("i8", <<256, 64>>), wgt |-> Tensor("i8", <<16, 64>>), ascales |-> Tensor(dt, <<2, 256>>),
                          wscales |-> Tensor(dt, <<2, 16>>), lora_act_in |-> Tensor("f32", <<256, 8>>),
                          lora_up |-> Tensor(dt, <<16, 8>>), bias |-> Of1(dt, 16)], Floats)

\* The VAE's operators.
SpatialCalls ==
  LET video(dt) == Tensor(dt, <<1, 16, 2, 4, 4>>)
  IN  Calls("adaln", LAMBDA dt : [x |-> Tensor(dt, <<1, 4, 16>>), scale |-> Of1(dt, 16), shift |-> Of1(dt, 16)], Floats)
      \cup Calls("fp16_conv3d_out", LAMBDA dt : [x |-> video(dt), weight |-> Tensor(dt, <<16, 16, 3, 3, 3>>), bias |-> Of1(dt, 16),
                                                 residual |-> video(dt), out |-> video(dt)], Floats)
      \cup Calls("group_norm_silu_pad3d", LAMBDA dt : [x |-> video(dt), weight |-> Of1(dt, 16), bias |-> Of1(dt, 16)], Floats)
      \cup Calls("dequantize_gguf", LAMBDA dt : [data |-> Tensor("u8", <<16, 144>>)], {"u8"})

\* Blocks quantized and unpacked by themselves: rows that fill no block, bytes that fill no tile.
BlockCalls ==
  Calls("quantize_nvfp4", LAMBDA dt : [x |-> Tensor(dt, <<3, 64>>), per_tensor_scale |-> F32Scalar, pad_16x |-> FALSE], Floats)
  \cup Calls("quantize_mxfp8", LAMBDA dt : [x |-> Tensor(dt, <<3, 64>>), pad_32x |-> FALSE], Floats)
  \cup Calls("dequantize_nvfp4", LAMBDA dt : [qx |-> Tensor("u8", <<3, 32>>), per_tensor_scale |-> F32Scalar,
                                             block_scales |-> Blocked("e4m3", 3, 4), output_type |-> Dtype(dt)], Floats)

MCOtherCalls == BlockCalls \cup RopeCalls \cup AttentionCalls \cup PackedCalls \cup SVDQuantCalls \cup SpatialCalls
NoCalls == {}
=============================================================================
