---------------------------- MODULE ConvProgram ----------------------------
(***************************************************************************)
(* The register program of one tile of a planned convolution, and its      *)
(* relocation to the buffers of a dispatch (conv_2d_tile_program and       *)
(* relocate in iree-rocket-hal/src/rocket/conv.rs), on the compiled path:  *)
(* none of the characterisation overrides of the environment is set.       *)
(*                                                                         *)
(* Commands whose word is always zero appear only where relocation looks   *)
(* for them.  The scales, zero points and clamp of a quantisation are left *)
(* out: they fill 16- and 32-bit fields of their own width.                *)
(***************************************************************************)
EXTENDS ConvTiling, Registers

Sixteen == 15                   \* BurstLength::Sixteen
ExternalMemory == 2             \* DpuOutputMode::ExternalMemory
BS_MUL_SHIFT_VALUE == 14
DENSE_ACCUMULATOR_SURF_MULT == 8
CHANNEL_REAL_MODULUS == 64

data_precision(p) ==
  CASE p \in {"int8", "int8acc"} -> 0 [] p = "int16" -> 1
    [] p \in {"fp16", "fp16acc"} -> 2 [] p = "bf16" -> 3
    [] p = "int4" -> 6 [] p = "tf32" -> 7

dpu_data_precision(p) == IF p = "tf32" THEN 5 ELSE data_precision(p)

output_data_precision(p) ==
  CASE p = "int8" -> 0 [] p \in {"int16", "int4"} -> 1 [] p = "fp16" -> 2
    [] p = "bf16" -> 3 [] p = "int8acc" -> 4 [] p \in {"tf32", "fp16acc"} -> 5

(* bypass, relu bypass, relux enable.                                      *)
bn_programming(activation) ==
  CASE activation = "none" -> <<1, 1, 0>>
    [] activation = "relu" -> <<0, 0, 0>>
    [] activation = "clamped" -> <<0, 0, 1>>

conv_mode(s) == IF s.depthwise THEN 3 ELSE 0

bs_ow_size_e(s) ==
  IF s.depthwise \/ writes_fp32_result(s.precision) THEN 3
  ELSE IF writes_accumulators(s.precision) \/ s.precision = "int4" THEN 7
  ELSE 1

argb_input_mode(in_channels) == 7 + in_channels

brdma_data_use(p) ==
  IF writes_accumulators(p) THEN 0 ELSE IF quantized(p) THEN 7 ELSE 1
-----------------------------------------------------------------------------
HorizontallyTiled(s, kernels, t) ==
  t.columns.out_first # 0 \/ t.columns.out_cols # output_width(s, kernels)

(* Mutant: a staged tile keeps the row notch of the shared image.          *)
OutputPlacement_notched(s, kernels, t, placement) ==
  LET full_out_width == output_width(s, kernels)
  IN  [base |-> IF placement = "SharedImage" THEN output_offset(s, kernels, t) ELSE 0,
       surface |-> IF placement = "SharedImage" THEN full_out_width * output_height(s, kernels)
                   ELSE t.columns.out_cols * t.rows.out_rows,
       notch |-> full_out_width - t.columns.out_cols]

(* Where the output of a tile goes: the base, the pixels of one channel    *)
(* surface, and the pixels skipped at the end of every row.                *)
OutputPlacement(s, kernels, t, placement) ==
  LET full_out_width == output_width(s, kernels)
  IN  IF placement = "SharedImage"
      THEN [base |-> output_offset(s, kernels, t),
            surface |-> full_out_width * output_height(s, kernels),
            notch |-> full_out_width - t.columns.out_cols]
      ELSE [base |-> 0, surface |-> t.columns.out_cols * t.rows.out_rows, notch |-> 0]

(* line_stride, surf_stride and data_entries of the feature DMA.           *)
FeatureStrides(s, kernels, t) ==
  LET entries == div_ceil(t.columns.in_cols * cbuf_atoms(s), CBUF_ATOMS_PER_ENTRY)
  IN  CASE layout(s) = "Dense" ->
             <<s.width, s.width * (s.height - 1),
               cbuf_input_width(s, t.columns.in_cols) * t.rows.in_rows>>
        [] layout(s) = "Surfaces" /\ ~HorizontallyTiled(s, kernels, t) ->
             <<s.width * 4, (s.width * (s.height - 4)) % 2 ^ 28, entries>>
        [] layout(s) = "Surfaces" /\ HorizontallyTiled(s, kernels, t) ->
             <<s.width, s.width * s.height - t.columns.in_cols, entries>>

surf_add(s, kernels, t) ==
  LET pixels == output_width(s, kernels) * output_height(s, kernels)
  IN  CASE s.precision = "int8acc" /\ s.depthwise -> 16
        [] s.precision = "int8acc" /\ ~s.depthwise ->
             t.columns.out_cols * t.rows.out_rows * DENSE_ACCUMULATOR_SURF_MULT
        [] writes_fp32_result(s.precision) -> pixels * 4
        [] s.precision = "int4" -> pixels * DENSE_ACCUMULATOR_SURF_MULT
        [] OTHER -> pixels * 2 * (IF s.depthwise THEN 2 ELSE 1)

(* The assertions conv_2d_tile_program makes about the tile it is given.   *)
TileAsserts(s, kernels, t, placement) ==
  /\ t.columns.in_cols <= max_tile_input_width(s)
  /\ placement = "ContiguousTile" => writes_accumulators(s.precision)
  /\ feature_grains(kernels, t.rows) <= MAX_FEATURE_GRAINS
  /\ t.rows.out_rows > 0
  /\ t.rows.out_first + t.rows.out_rows <= output_height(s, kernels)
  /\ t.columns.out_cols > 0
  /\ t.columns.out_first + t.columns.out_cols <= output_width(s, kernels)
  /\ t.rows.in_rows * cbuf_input_width(s, t.columns.in_cols) <= MAX_DATA_ENTRIES
  /\ t.rows.in_rows > 0 /\ t.rows.in_first + t.rows.in_rows <= s.height
  /\ t.columns.in_cols > 0 /\ t.columns.in_first + t.columns.in_cols <= s.width
-----------------------------------------------------------------------------
(* The commands, unit by unit.                                             *)

ConvCon1(s, kernels, t) ==
  LET dense == layout(s) = "Dense"
  IN  Cmd(CnaConvCon1,
          <<<<"nonalign_dma", Flag(dense)>>,
            <<"group_line_off", Flag(dense \/ HorizontallyTiled(s, kernels, t))>>,
            <<"argb_in", IF dense THEN argb_input_mode(s.in_channels) ELSE 0>>,
            <<"proc_precision", data_precision(s.precision)>>,
            <<"in_precision", data_precision(s.precision)>>,
            <<"conv_mode", conv_mode(s)>>>>)

CbufCon0(data_banks, weight_banks) ==
  Cmd(CnaCbufCon0, <<<<"weight_bank", weight_banks>>, <<"data_bank", data_banks>>>>)

weight_bytes_per_kernel(s, kernels) ==
  bytes_for(s.precision, Taps(kernels) * weight_channels(s))

CnaCommands(s, kernels, t, banks) ==
  LET k == KernelOf(s, kernels)
      strides == FeatureStrides(s, kernels, t)
      Pointers == <<<<"pointer_pp_mode", 1>>, <<"executer_pp_en", 1>>, <<"pointer_pp_en", 1>>>>
  IN <<CbufCon0(banks[1], banks[2]),
       ConvCon1(s, kernels, t),
       Cmd(DpuSPointer, Pointers),
       Cmd(DpuRdmaSPointer, Pointers),
       ConvCon1(s, kernels, t),
       Cmd(CnaConvCon2, <<<<"feature_grains", feature_grains(kernels, t.rows)>>>>),
       Cmd(CnaConvCon3, <<<<"conv_x_stride", s.stride>>, <<"conv_y_stride", s.stride>>>>),
       Cmd(CnaDataSize0, <<<<"datain_width", t.columns.in_cols>>,
                           <<"datain_height", t.rows.in_rows>>>>),
       Cmd(CnaDataSize1, <<<<"datain_channel_real", (s.in_channels - 1) % CHANNEL_REAL_MODULUS>>,
                           <<"datain_channel", padded_channels(s)>>>>),
       Cmd(CnaDataSize2, <<<<"dataout_width", t.columns.out_cols>>>>),
       Cmd(CnaDataSize3, <<<<"dataout_atomics", t.columns.out_cols * t.rows.out_rows>>>>),
       Cmd(CnaWeightSize0, <<<<"weight_bytes", weight_bytes(s, kernels)>>>>),
       Cmd(CnaWeightSize1, <<<<"weight_bytes_per_kernel", weight_bytes_per_kernel(s, kernels)>>>>),
       Cmd(CnaWeightSize2, <<<<"weight_width", k.width>>, <<"weight_height", k.height>>,
                             <<"weight_kernels", programmed_kernels(s)>>>>),
       CbufCon0(banks[1], banks[2]),
       Cmd(CnaCbufCon1, <<<<"data_entries", strides[3]>>>>),
       Cmd(CnaCvtCon0, <<<<"data_sign", 1>>, <<"cvt_type", 1>>, <<"cvt_bypass", 1>>>>),
       Cmd(CnaCvtCon1, <<<<"cvt_scale0", 1>>>>),
       Cmd(CnaCvtCon2, <<<<"cvt_scale1", 1>>>>),
       Cmd(CnaCvtCon3, <<<<"cvt_scale2", 1>>>>),
       Cmd(CnaCvtCon4, <<<<"cvt_scale3", 1>>>>),
       Cmd(CnaPadCon0, <<<<"pad_top", t.rows.pad_top>>, <<"pad_left", t.columns.pad_left>>>>),
       Cmd(CnaFeatureDataAddr, <<<<"feature_base_addr", input_offset(s, t)>>>>),
       Cmd(CnaDmaCon0, <<<<"data_burst_len", Sixteen>>, <<"weight_burst_len", Sixteen>>>>),
       Cmd(CnaDmaCon1, <<<<"line_stride", strides[1]>>>>),
       Cmd(CnaDmaCon2, <<<<"surf_stride", strides[2]>>>>),
       Cmd(CnaFcDataSize0, <<<<"dma_width", t.columns.in_cols>>, <<"dma_height", t.rows.in_rows>>>>),
       Cmd(CnaFcDataSize1, <<<<"dma_channel", padded_channels(s)>>>>),
       zero(CnaDcompAddr0)>>

CoreCommands(s, t) ==
  <<Cmd(CoreMiscCfg, <<<<"proc_precision", data_precision(s.precision)>>,
                       <<"qd_en", Flag(quantized(s.precision))>>,
                       <<"dw_en", Flag(s.depthwise)>>>>),
    Cmd(CoreDataoutSize0, <<<<"dataout_width", t.columns.out_cols - 1>>,
                            <<"dataout_height", t.rows.out_rows - 1>>>>),
    Cmd(CoreDataoutSize1, <<<<"dataout_channel", padded_out_channels(s) - 1>>>>)>>

DpuCommands(s, kernels, t, placement) ==
  LET acc == writes_accumulators(s.precision)
      quant == quantized(s.precision)
      place == OutputPlacement(s, kernels, t, placement)
      mul_shift == IF quant THEN BS_MUL_SHIFT_VALUE ELSE 0
      bn == bn_programming(s.activation)
      p == dpu_data_precision(s.precision)
  IN <<Cmd(DpuFeatureModeCfg, <<<<"burst_len", Sixteen>>, <<"output_mode", ExternalMemory>>,
                                <<"conv_mode", conv_mode(s)>>>>),
       Cmd(DpuDataFormat, <<<<"in_precision", p>>,
                            <<"out_precision", output_data_precision(s.precision)>>,
                            <<"proc_precision", p>>,
                            <<"mc_surf_out", Flag(acc /\ s.depthwise)>>,
                            <<"bs_mul_shift_value_neg", mul_shift>>>>),
       Cmd(DpuDstBaseAddr, <<<<"dst_base_addr", place.base>>>>),
       Cmd(DpuDstSurfStride, <<<<"dst_surf_stride", place.surface>>>>),
       Cmd(DpuDataCubeWidth, <<<<"width", t.columns.out_cols - 1>>>>),
       Cmd(DpuDataCubeHeight, <<<<"height", t.rows.out_rows - 1>>>>),
       Cmd(DpuDataCubeNotchAddr, <<<<"notch_addr_0", place.notch>>, <<"notch_addr_1", place.notch>>>>),
       Cmd(DpuDataCubeChannel, <<<<"orig_channel", s.out_channels - 1>>,
                                 <<"channel", padded_out_channels(s) - 1>>>>),
       Cmd(DpuBsCfg, <<<<"bs_bypass", Flag(acc)>>, <<"bs_alu_algo", 2>>, <<"bs_alu_src", 1>>,
                       <<"bs_relu_bypass", 1>>, <<"bs_alu_bypass", 0>>,
                       <<"bs_mul_bypass", Flag(~quant)>>>>),
       Cmd(DpuBsMulCfg, <<<<"bs_mul_shift_value", mul_shift>>, <<"bs_mul_src", Flag(quant)>>>>),
       Cmd(DpuBsOwCfg, <<<<"size_e_0", bs_ow_size_e(s)>>, <<"size_e_1", bs_ow_size_e(s)>>,
                         <<"size_e_2", bs_ow_size_e(s)>>, <<"od_bypass", Flag(~quant \/ acc)>>,
                         <<"ow_src", Flag(quant)>>>>),
       Cmd(DpuBsOwOp, <<<<"ow_op", 0>>>>),
       Cmd(DpuWdmaSize0, <<<<"channel_wdma", padded_out_channels(s) - 1>>>>),
       Cmd(DpuWdmaSize1, <<<<"height_wdma", t.rows.out_rows - 1>>,
                           <<"width_wdma", t.columns.out_cols - 1>>>>),
       Cmd(DpuBnCfg, <<<<"bn_relu_bypass", bn[2]>>, <<"bn_relux_en", bn[3]>>,
                       <<"bn_mul_bypass", 1>>, <<"bn_alu_bypass", 1>>, <<"bn_bypass", bn[1]>>>>),
       Cmd(DpuEwCfg, <<<<"ew_relu_bypass", 1>>, <<"ew_op_cvt_bypass", 1>>, <<"ew_lut_bypass", 1>>,
                       <<"ew_op_bypass", 1>>, <<"ew_bypass", 1>>>>),
       Cmd(DpuEwCvtScaleValue, <<<<"ew_op_cvt_scale", 1>>>>),
       Cmd(DpuOutCvtScale,
           <<<<"fp32tofp16_en", Flag(~quant /\ ~writes_fp32_result(s.precision))>>>>),
       Cmd(DpuSurfaceAdd, <<<<"surf_add", surf_add(s, kernels, t)>>>>)>>

RdmaCommands(s, t) ==
  LET p == dpu_data_precision(s.precision)
  IN <<Cmd(DpuRdmaDataCubeWidth, <<<<"width", t.columns.out_cols - 1>>>>),
       Cmd(DpuRdmaDataCubeHeight, <<<<"height", t.rows.out_rows - 1>>>>),
       Cmd(DpuRdmaDataCubeChannel, <<<<"channel", padded_out_channels(s) - 1>>>>),
       Cmd(DpuRdmaBrdmaCfg, <<<<"brdma_data_use", brdma_data_use(s.precision)>>>>),
       zero(DpuRdmaBsBaseAddr),
       Cmd(DpuRdmaErdmaCfg, <<<<"erdma_disable", 1>>>>),
       Cmd(DpuRdmaFeatureModeCfg, <<<<"burst_len", Sixteen>>, <<"mrdma_disable", 1>>,
                                    <<"in_precision", p>>, <<"proc_precision", p>>,
                                    <<"conv_mode", conv_mode(s)>>>>),
       Cmd(DpuRdmaWeight, <<<<"e_weight", 1>>, <<"n_weight", 1>>, <<"b_weight", 1>>,
                            <<"m_weight", 1>>>>)>>

conv_2d_tile_program(s, kernels, t, banks, placement) ==
  CnaCommands(s, kernels, t, banks) \o CoreCommands(s, t)
    \o DpuCommands(s, kernels, t, placement) \o RdmaCommands(s, t)
-----------------------------------------------------------------------------
(* Relocation.                                                             *)

(* relocate_one: the address, plus the tile's offset when it is kept.      *)
relocate_one(program, reg, address, keep_tile_offset) ==
  LET i == CHOOSE j \in Matches(program, reg) : TRUE
      field == CHOOSE f \in DOMAIN reg.fields : TRUE
      tile_offset == IF keep_tile_offset THEN ValueOf(program[i], field) ELSE 0
  IN  [program EXCEPT ![i] = Cmd(reg, <<<<field, address + tile_offset>>>>)]

(* relocate_one's assertions: an aligned address, one command to patch.    *)
Relocatable(program, reg, address) ==
  address % 16 = 0 /\ \E i \in 1..Len(program) : Matches(program, reg) = {i}

(* relocate and relocate_staged_accumulator.                               *)
relocate(program, buffers, keep_output_offset) ==
  LET input == relocate_one(program, CnaFeatureDataAddr, buffers.input, TRUE)
      weights == relocate_one(input, CnaDcompAddr0, buffers.weights, TRUE)
      bias == relocate_one(weights, DpuRdmaBsBaseAddr, buffers.bias, TRUE)
  IN  relocate_one(bias, DpuDstBaseAddr, buffers.output, keep_output_offset)

RelocateAsserts(program, buffers) ==
  /\ Relocatable(program, CnaFeatureDataAddr, buffers.input)
  /\ Relocatable(program, CnaDcompAddr0, buffers.weights)
  /\ Relocatable(program, DpuRdmaBsBaseAddr, buffers.bias)
  /\ Relocatable(program, DpuDstBaseAddr, buffers.output)
=============================================================================
