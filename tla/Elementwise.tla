---------------------------- MODULE Elementwise ----------------------------
(***************************************************************************)
(* Element-wise operations on the output unit: binary and unary ones on    *)
(* fp16 cubes (iree-rocket-hal/src/rocket/elementwise.rs) and curves looked *)
(* up in a table on int8 cubes (activation.rs).                            *)
(*                                                                         *)
(* A scale 2^n is named by its exponent n: the fixed-point encodings below *)
(* normalise the mantissa away, so that the exponent is what decides       *)
(* whether the shift fits its field.  The 1026 entries of a table are left *)
(* out, and so are commands whose word is always zero.                     *)
(***************************************************************************)
EXTENDS Registers, ConvShape

EwBinaryOps == {"add", "sub", "mul", "max", "min"}
alu_algo(op) ==
  CASE op = "max" -> 0 [] op = "min" -> 1 [] op = "add" -> 2 [] op = "sub" -> 4
    [] op = "mul" -> 0

EwUnaryOps == {"abs", "neg", "floor", "ceil", "add_scalar"}
EwUnaryAlgo(op) ==
  CASE op = "add_scalar" -> 2 [] op = "abs" -> 5 [] op = "neg" -> 6 [] op = "floor" -> 7
    [] op = "ceil" -> 8

LutFunctions == {"sigmoid", "tanh", "exp", "square", "erf", "sqrt", "rsqrt", "log", "reciprocal"}

task_channels(channels) == next_multiple_of(Max2(channels, 16), 16)
-----------------------------------------------------------------------------
(* What the three programs share: one cube in, one cube of the same        *)
(* geometry out, surface after surface.                                    *)

EwPointers == <<<<"pointer_pp_mode", 1>>, <<"executer_pp_en", 1>>, <<"pointer_pp_en", 1>>>>

CubeOut(s, output) ==
  <<Cmd(DpuSPointer, EwPointers),
    Cmd(DpuRdmaSPointer, EwPointers),
    Cmd(DpuFeatureModeCfg, <<<<"flying_mode", 1>>, <<"output_mode", 2>>, <<"burst_len", 15>>>>),
    Cmd(DpuDstBaseAddr, <<<<"dst_base_addr", output>>>>),
    Cmd(DpuDstSurfStride, <<<<"dst_surf_stride", s.width * s.height>>>>),
    Cmd(DpuDataCubeWidth, <<<<"width", s.width - 1>>>>),
    Cmd(DpuDataCubeHeight, <<<<"height", s.height - 1>>>>),
    zero(DpuDataCubeNotchAddr),
    Cmd(DpuDataCubeChannel, <<<<"orig_channel", s.channels - 1>>,
                              <<"channel", task_channels(s.channels) - 1>>>>),
    Cmd(DpuBsOwCfg, <<<<"od_bypass", 1>>>>),
    Cmd(DpuWdmaSize0, <<<<"channel_wdma", task_channels(s.channels) - 1>>>>),
    Cmd(DpuWdmaSize1, <<<<"height_wdma", s.height - 1>>, <<"width_wdma", s.width - 1>>>>),
    Cmd(DpuEwCvtScaleValue, <<<<"ew_op_cvt_scale", 1>>>>),
    Cmd(DpuSurfaceAdd, <<<<"surf_add", s.width * s.height>>>>)>>

CubeIn(s, input) ==
  <<Cmd(DpuRdmaDataCubeWidth, <<<<"width", s.width - 1>>>>),
    Cmd(DpuRdmaDataCubeHeight, <<<<"height", s.height - 1>>>>),
    Cmd(DpuRdmaDataCubeChannel, <<<<"channel", task_channels(s.channels) - 1>>>>),
    Cmd(DpuRdmaSrcBaseAddr, <<<<"src_base_addr", input>>>>),
    Cmd(DpuRdmaWeight, <<<<"e_weight", 1>>, <<"n_weight", 1>>, <<"b_weight", 1>>,
                         <<"m_weight", 1>>>>)>>

Bypassed(prefix) ==
  IF prefix = "bs" THEN <<<<"bs_bypass", 1>>, <<"bs_alu_bypass", 1>>, <<"bs_mul_bypass", 1>>,
                          <<"bs_relu_bypass", 1>>>>
  ELSE <<<<"bn_bypass", 1>>, <<"bn_alu_bypass", 1>>, <<"bn_mul_bypass", 1>>,
         <<"bn_relu_bypass", 1>>>>

Fp16Path ==
  <<Cmd(DpuDataFormat, <<<<"in_precision", 2>>, <<"out_precision", 2>>, <<"proc_precision", 2>>>>),
    Cmd(DpuBsCfg, Bypassed("bs")),
    Cmd(DpuBnCfg, Bypassed("bn")),
    Cmd(DpuOutCvtScale, <<<<"fp32tofp16_en", 1>>, <<"out_cvt_scale", 1>>>>),
    Cmd(DpuRdmaFeatureModeCfg, <<<<"flying_mode", 1>>, <<"burst_len", 15>>, <<"in_precision", 2>>,
                                 <<"proc_precision", 2>>, <<"mrdma_fp16tofp32_en", 1>>>>)>>
-----------------------------------------------------------------------------
(* build_add_regcmd_with_relu at fp16: the second tensor through ERDMA.    *)
(* The register over-states the stride of a cube of fewer than 12 pixels,  *)
(* which the hardware tests show to be harmless.                           *)
BinaryStage(op, relu) ==
  <<Cmd(DpuEwCfg, <<<<"ew_cvt_type", 0>>, <<"ew_data_mode", 1>>, <<"edata_size", 2>>,
                    <<"ew_alu_algo", alu_algo(op)>>, <<"ew_relu_bypass", Flag(~relu)>>,
                    <<"ew_lut_bypass", 1>>, <<"ew_op_src", 1>>, <<"ew_op_type", Flag(op = "mul")>>,
                    <<"ew_op_cvt_bypass", Flag(op = "mul")>>>>)>>

OperandIn(s, operand) ==
  <<Cmd(DpuRdmaErdmaCfg, <<<<"erdma_data_mode", 1>>, <<"erdma_data_size", 2>>>>),
    Cmd(DpuRdmaEwBaseAddr, <<<<"ew_base_addr", operand>>>>),
    Cmd(DpuRdmaEwSurfStride, <<<<"ew_surf_stride", Max2(s.width * s.height, 12)>>>>)>>

build_add_regcmd(s, op, relu, buffers) ==
  CubeOut(s, buffers.output) \o Fp16Path \o BinaryStage(op, relu)
    \o CubeIn(s, buffers.input) \o OperandIn(s, buffers.operand)

(* build_unary_regcmd: the scalar in the eight operand registers, and the  *)
(* assertion that only an addition has one.                                *)
UnaryAsserts(op, operand) == operand = 0 \/ op = "add_scalar"

UnaryStage(op) ==
  <<Cmd(DpuEwCfg, <<<<"ew_cvt_type", 0>>, <<"ew_data_mode", 1>>, <<"edata_size", 2>>,
                    <<"ew_alu_algo", EwUnaryAlgo(op)>>, <<"ew_relu_bypass", 1>>,
                    <<"ew_lut_bypass", 1>>, <<"ew_op_src", 0>>>>)>>

build_unary_regcmd(s, op, operand, buffers) ==
  CubeOut(s, buffers.output) \o Fp16Path \o UnaryStage(op)
    \o [lane \in 1..8 |-> Cmd(DpuEwOpValue(lane - 1), <<<<"ew_operand", operand>>>>)]
    \o CubeIn(s, buffers.input)
    \o <<Cmd(DpuRdmaErdmaCfg, <<<<"erdma_disable", 1>>>>)>>
-----------------------------------------------------------------------------
(* Curves.  The scale a table's domain is fitted to, as <<its mantissa     *)
(* times 2^14, its exponent>>.                                             *)
bn_scale_k(function) ==
  CASE function = "sigmoid" -> <<20772, 11>>
    [] function = "tanh" -> <<21701, 12>>
    [] function = "exp" -> <<26214, 11>>
    [] function \in {"square", "sqrt"} -> <<16384, 14>>
    [] function \in {"erf", "log"} -> <<16384, 12>>
    [] function \in {"rsqrt", "reciprocal"} -> <<16384, 10>>

(* Operand and shift of the BN multiplier, and of the output converter.    *)
lut_bn_mul(input_scale, k) == <<k[1], 14 - (k[2] + input_scale)>>
lut_out_cvt(output_scale) == <<16384, 29 + output_scale>>

lut_bn_alu(real_zero_point, bn_mul_operand) == -real_zero_point * bn_mul_operand

lut_bn_alu_supports_zero_point(real_zero_point) == real_zero_point \in {-128, -2, 0, 127}

(* `wrapping_sub(0x80) as i8 as i32` of a biased byte.                     *)
Unbiased(zero_point) == (zero_point % 256) - 128

LutAsserts(s) == lut_bn_alu_supports_zero_point(Unbiased(s.input_zero_point))

(* push_lut_tables_and_config, without the table's entries.                *)
LutCommands(function) ==
  LET slope == IF function = "sigmoid" THEN <<23107, 22>> ELSE <<0, 0>>
  IN <<Cmd(DpuLutAccessCfg, <<<<"lut_access_type", 1>>, <<"lut_table_id", 0>>, <<"lut_addr", 0>>>>),
       Cmd(DpuLutAccessCfg, <<<<"lut_access_type", 1>>, <<"lut_table_id", 1>>, <<"lut_addr", 0>>>>),
       Cmd(DpuLutCfg, <<<<"lut_hybrid_priority", 1>>, <<"lut_oflow_priority", 1>>,
                        <<"lut_lo_le_mux", 2>>>>),
       Cmd(DpuLutInfo, <<<<"lut_le_index_select", 5>>, <<"lut_lo_index_select", 5>>>>),
       Cmd(DpuLutLeStart, <<<<"lut_le_start", -16384>>>>),
       Cmd(DpuLutLoEnd, <<<<"lut_lo_end", 16384>>>>),
       Cmd(DpuLutLeSlopeScale, <<<<"lut_le_slope_uflow_scale", slope[1]>>>>),
       Cmd(DpuLutLeSlopeShift, <<<<"lut_le_slope_uflow_shift", slope[2]>>>>)>>

(* The fixed-point stages around the table.                                *)
LutStages(s, function) ==
  LET mul == lut_bn_mul(s.input_scale, bn_scale_k(function))
      alu == lut_bn_alu(Unbiased(s.input_zero_point), mul[1])
      out == lut_out_cvt(s.output_scale)
  IN <<Cmd(DpuDataFormat, <<<<"bn_mul_shift_value_neg", mul[2]>>>>),
       Cmd(DpuBsCfg, Bypassed("bs")),
       Cmd(DpuBnCfg, <<<<"bn_alu_algo", 2>>, <<"bn_alu_src", 0>>, <<"bn_relu_bypass", 1>>,
                       <<"bn_mul_bypass", 0>>, <<"bn_alu_bypass", 0>>, <<"bn_bypass", 0>>>>),
       Cmd(DpuBnAluCfg, <<<<"bn_alu_operand", alu>>>>),
       Cmd(DpuBnMulCfg, <<<<"bn_mul_operand", mul[1]>>, <<"bn_mul_shift_value", mul[2]>>,
                          <<"bn_mul_src", 0>>, <<"bn_truncate_src", 0>>>>),
       Cmd(DpuEwCfg, <<<<"ew_relu_bypass", 1>>, <<"ew_op_cvt_bypass", 1>>, <<"ew_lut_bypass", 0>>,
                       <<"ew_op_bypass", Flag(function # "sigmoid")>>, <<"ew_bypass", 0>>>>),
       Cmd(DpuOutCvtOffset, <<<<"out_cvt_offset", s.output_zero_point - 128>>>>),
       Cmd(DpuOutCvtScale, <<<<"out_cvt_scale", out[1]>>>>),
       Cmd(DpuOutCvtShift, <<<<"out_cvt_shift", out[2]>>>>)>>

build_lut_regcmd(s, function, buffers) ==
  CubeOut(s, buffers.output) \o LutStages(s, function) \o LutCommands(function)
    \o CubeIn(s, buffers.input)
    \o <<Cmd(DpuRdmaErdmaCfg, <<<<"erdma_disable", 1>>>>),
         Cmd(DpuRdmaFeatureModeCfg, <<<<"flying_mode", 1>>, <<"burst_len", 15>>>>)>>
=============================================================================
