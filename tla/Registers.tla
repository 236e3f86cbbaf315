----------------------------- MODULE Registers -----------------------------
(***************************************************************************)
(* The NPU's registers, as the builders of iree-rocket-hal write them      *)
(* (iree-rocket-hal/src/rocket/builders.rs and builders/): every register  *)
(* a program writes, with its offset and, for every field, the width of    *)
(* its Bits<N> argument and the shift of its mask in rkt_registers.h.      *)
(*                                                                         *)
(* A command is a register and the fields its builder chain sets; fields   *)
(* that are not set stay zero.  Words are sets of bit positions, which     *)
(* keeps 32-bit words within TLC's integers.                               *)
(***************************************************************************)
EXTENDS Integers, Sequences

Reg(offset, fields) == [offset |-> offset, fields |-> fields]

(* The convolution front end (builders/cna.rs).                            *)
CnaConvCon1 == Reg(\h100c, [conv_mode |-> <<4, 0>>, in_precision |-> <<3, 4>>,
    proc_precision |-> <<3, 7>>, argb_in |-> <<4, 12>>, deconv |-> <<1, 16>>,
    group_line_off |-> <<1, 29>>, nonalign_dma |-> <<1, 30>>])
CnaConvCon2 == Reg(\h1010, [cmd_fifo_srst |-> <<1, 0>>, csc_do_en |-> <<1, 1>>,
    csc_wo_en |-> <<1, 2>>, feature_grains |-> <<10, 4>>, kernel_group |-> <<8, 16>>])
CnaConvCon3 == Reg(\h1014, [conv_x_stride |-> <<3, 0>>, conv_y_stride |-> <<3, 3>>,
    deconv_x_stride |-> <<3, 8>>, deconv_y_stride |-> <<3, 11>>,
    atrous_x_dilation |-> <<5, 16>>, atrous_y_dilation |-> <<5, 21>>, nn_mode |-> <<3, 28>>])
CnaDataSize0 == Reg(\h1020, [datain_width |-> <<11, 16>>, datain_height |-> <<11, 0>>])
CnaDataSize1 == Reg(\h1024, [datain_channel |-> <<16, 0>>,
    datain_channel_real |-> <<14, 16>>])
CnaDataSize2 == Reg(\h1028, [dataout_width |-> <<11, 0>>])
CnaDataSize3 == Reg(\h102c, [dataout_atomics |-> <<22, 0>>, surf_mode |-> <<2, 22>>])
CnaWeightSize0 == Reg(\h1030, [weight_bytes |-> <<32, 0>>])
CnaWeightSize1 == Reg(\h1034, [weight_bytes_per_kernel |-> <<19, 0>>])
CnaWeightSize2 == Reg(\h1038, [weight_width |-> <<5, 24>>, weight_height |-> <<5, 16>>,
    weight_kernels |-> <<14, 0>>])
CnaCbufCon0 == Reg(\h1040, [weight_reuse |-> <<1, 13>>, data_reuse |-> <<1, 12>>,
    fc_data_bank |-> <<3, 8>>, weight_bank |-> <<4, 4>>, data_bank |-> <<4, 0>>])
CnaCbufCon1 == Reg(\h1044, [data_entries |-> <<15, 0>>])
CnaCvtCon0 == Reg(\h104c, [cvt_bypass |-> <<1, 0>>, cvt_type |-> <<1, 1>>,
    round_type |-> <<1, 2>>, data_sign |-> <<1, 3>>, cvt_truncate_0 |-> <<6, 4>>,
    cvt_truncate_1 |-> <<6, 10>>, cvt_truncate_2 |-> <<6, 16>>, cvt_truncate_3 |-> <<6, 22>>])
CnaCvtCon1 == Reg(\h1050, [cvt_offset0 |-> <<16, 0>>, cvt_scale0 |-> <<16, 16>>])
CnaCvtCon2 == Reg(\h1054, [cvt_offset1 |-> <<16, 0>>, cvt_scale1 |-> <<16, 16>>])
CnaCvtCon3 == Reg(\h1058, [cvt_offset2 |-> <<16, 0>>, cvt_scale2 |-> <<16, 16>>])
CnaCvtCon4 == Reg(\h105c, [cvt_offset3 |-> <<16, 0>>, cvt_scale3 |-> <<16, 16>>])
CnaPadCon0 == Reg(\h1068, [pad_top |-> <<4, 0>>, pad_left |-> <<4, 4>>])
CnaFeatureDataAddr == Reg(\h1070, [feature_base_addr |-> <<32, 0>>])
CnaDmaCon0 == Reg(\h1078, [data_burst_len |-> <<4, 0>>, weight_burst_len |-> <<4, 16>>,
    ov4k_bypass |-> <<1, 31>>])
CnaDmaCon1 == Reg(\h107c, [line_stride |-> <<28, 0>>])
CnaDmaCon2 == Reg(\h1080, [surf_stride |-> <<28, 0>>])
CnaFcDataSize0 == Reg(\h1084, [dma_height |-> <<11, 0>>, dma_width |-> <<14, 16>>])
CnaFcDataSize1 == Reg(\h1088, [dma_channel |-> <<16, 0>>])
CnaDcompAddr0 == Reg(\h1110, [decompress_addr0 |-> <<32, 0>>])
(* The MAC array (builders/core.rs).                                       *)
CoreMiscCfg == Reg(\h3010, [qd_en |-> <<1, 0>>, dw_en |-> <<1, 1>>,
    proc_precision |-> <<3, 8>>, soft_gating |-> <<6, 14>>])
CoreDataoutSize0 == Reg(\h3014, [dataout_width |-> <<16, 0>>, dataout_height |-> <<16, 16>>])
CoreDataoutSize1 == Reg(\h3018, [dataout_channel |-> <<16, 0>>])

(* The output unit (builders/dpu.rs).                                      *)
DpuSPointer == Reg(\h4004, [pointer |-> <<1, 0>>, pointer_pp_en |-> <<1, 1>>,
    executer_pp_en |-> <<1, 2>>, pointer_pp_mode |-> <<1, 3>>, pointer_pp_clear |-> <<1, 4>>,
    executer_pp_clear |-> <<1, 5>>, executer |-> <<1, 16>>])
DpuFeatureModeCfg == Reg(\h400c, [flying_mode |-> <<1, 0>>, output_mode |-> <<2, 1>>,
    conv_mode |-> <<2, 3>>, burst_len |-> <<4, 5>>, surf_len |-> <<16, 9>>,
    nonalign |-> <<1, 25>>, rgp_type |-> <<4, 26>>, tp_en |-> <<1, 30>>,
    comb_use |-> <<1, 31>>])
DpuDataFormat == Reg(\h4010, [proc_precision |-> <<3, 0>>, mc_surf_out |-> <<1, 3>>,
    bs_mul_shift_value_neg |-> <<6, 4>>, bn_mul_shift_value_neg |-> <<6, 10>>,
    ew_truncate_neg |-> <<10, 16>>, in_precision |-> <<3, 26>>, out_precision |-> <<3, 29>>])
DpuDstBaseAddr == Reg(\h4020, [dst_base_addr |-> <<32, 0>>])
DpuDstSurfStride == Reg(\h4024, [dst_surf_stride |-> <<28, 4>>])
DpuDataCubeWidth == Reg(\h4030, [width |-> <<13, 0>>])
DpuDataCubeHeight == Reg(\h4034, [height |-> <<13, 0>>, minmax_ctl |-> <<3, 22>>])
DpuDataCubeNotchAddr == Reg(\h4038, [notch_addr_0 |-> <<13, 0>>, notch_addr_1 |-> <<13, 16>>])
DpuDataCubeChannel == Reg(\h403c, [channel |-> <<13, 0>>, orig_channel |-> <<13, 16>>])
DpuBsCfg == Reg(\h4040, [bs_bypass |-> <<1, 0>>, bs_alu_bypass |-> <<1, 1>>,
    bs_mul_bypass |-> <<1, 4>>, bs_mul_prelu |-> <<1, 5>>, bs_relu_bypass |-> <<1, 6>>,
    bs_relux_en |-> <<1, 7>>, bs_alu_src |-> <<1, 8>>, bs_alu_algo |-> <<4, 16>>])
DpuBsMulCfg == Reg(\h4048, [bs_mul_src |-> <<1, 0>>, bs_truncate_src |-> <<1, 1>>,
    bs_mul_shift_value |-> <<6, 8>>, bs_mul_operand |-> <<16, 16>>])
DpuBsOwCfg == Reg(\h4050, [ow_src |-> <<1, 0>>, od_bypass |-> <<1, 1>>,
    size_e_0 |-> <<3, 2>>, size_e_1 |-> <<3, 5>>, size_e_2 |-> <<3, 8>>,
    tp_org_en |-> <<1, 27>>, rgp_cnter |-> <<4, 28>>])
DpuBsOwOp == Reg(\h4054, [ow_op |-> <<16, 0>>])
DpuWdmaSize0 == Reg(\h4058, [channel_wdma |-> <<13, 0>>, size_c_wdma |-> <<11, 16>>,
    tp_precision |-> <<1, 27>>])
DpuWdmaSize1 == Reg(\h405c, [width_wdma |-> <<13, 0>>, height_wdma |-> <<13, 16>>])
DpuBnCfg == Reg(\h4060, [bn_bypass |-> <<1, 0>>, bn_alu_bypass |-> <<1, 1>>,
    bn_mul_bypass |-> <<1, 4>>, bn_mul_prelu |-> <<1, 5>>, bn_relu_bypass |-> <<1, 6>>,
    bn_relux_en |-> <<1, 7>>, bn_alu_src |-> <<1, 8>>, bn_alu_algo |-> <<4, 16>>])
DpuBnAluCfg == Reg(\h4064, [bn_alu_operand |-> <<32, 0>>])
DpuBnMulCfg == Reg(\h4068, [bn_mul_src |-> <<1, 0>>, bn_truncate_src |-> <<1, 1>>,
    bn_mul_shift_value |-> <<6, 8>>, bn_mul_operand |-> <<16, 16>>])
DpuEwCfg == Reg(\h4070, [ew_bypass |-> <<1, 0>>, ew_op_bypass |-> <<1, 1>>,
    ew_op_type |-> <<1, 2>>, ew_mul_prelu |-> <<1, 5>>, ew_op_src |-> <<1, 6>>,
    ew_lut_bypass |-> <<1, 7>>, ew_op_cvt_bypass |-> <<1, 8>>, ew_relu_bypass |-> <<1, 9>>,
    ew_relux_en |-> <<1, 10>>, ew_alu_algo |-> <<4, 16>>, ew_binary_en |-> <<1, 20>>,
    ew_equal_en |-> <<1, 21>>, edata_size |-> <<2, 22>>, ew_data_mode |-> <<2, 28>>,
    ew_cvt_round |-> <<1, 30>>, ew_cvt_type |-> <<1, 31>>])
DpuEwCvtScaleValue == Reg(\h4078, [ew_op_cvt_scale |-> <<16, 0>>,
    ew_op_cvt_shift |-> <<6, 16>>, ew_truncate |-> <<10, 22>>])
DpuOutCvtOffset == Reg(\h4080, [out_cvt_offset |-> <<32, 0>>])
DpuOutCvtScale == Reg(\h4084, [out_cvt_scale |-> <<16, 0>>, fp32tofp16_en |-> <<1, 16>>])
DpuOutCvtShift == Reg(\h4088, [out_cvt_shift |-> <<12, 0>>, minus_exp |-> <<8, 12>>,
    cvt_round |-> <<1, 30>>, cvt_type |-> <<1, 31>>])
(* DpuEwOpValue0..7, one register per lane.                                *)
DpuEwOpValue(lane) == Reg(\h4090 + 4 * lane, [ew_operand |-> <<32, 0>>])
DpuSurfaceAdd == Reg(\h40c0, [surf_add |-> <<28, 4>>])
DpuLutAccessCfg == Reg(\h4100, [lut_addr |-> <<10, 0>>, lut_table_id |-> <<1, 16>>,
    lut_access_type |-> <<1, 17>>])
DpuLutCfg == Reg(\h4108, [lut_road_sel |-> <<1, 0>>, lut_expand_en |-> <<1, 1>>,
    lut_lo_le_mux |-> <<2, 2>>, lut_uflow_priority |-> <<1, 4>>,
    lut_oflow_priority |-> <<1, 5>>, lut_hybrid_priority |-> <<1, 6>>,
    lut_cal_sel |-> <<1, 7>>])
DpuLutInfo == Reg(\h410c, [lut_le_index_select |-> <<8, 8>>,
    lut_lo_index_select |-> <<8, 16>>])
DpuLutLeStart == Reg(\h4110, [lut_le_start |-> <<32, 0>>])
DpuLutLoEnd == Reg(\h411c, [lut_lo_end |-> <<32, 0>>])
DpuLutLeSlopeScale == Reg(\h4120, [lut_le_slope_uflow_scale |-> <<16, 0>>,
    lut_le_slope_oflow_scale |-> <<16, 16>>])
DpuLutLeSlopeShift == Reg(\h4124, [lut_le_slope_uflow_shift |-> <<5, 0>>,
    lut_le_slope_oflow_shift |-> <<5, 5>>])

(* Reads of the output unit (builders/dpu_rdma.rs).                        *)
DpuRdmaSPointer == Reg(\h5004, [pointer |-> <<1, 0>>, pointer_pp_en |-> <<1, 1>>,
    executer_pp_en |-> <<1, 2>>, pointer_pp_mode |-> <<1, 3>>, pointer_pp_clear |-> <<1, 4>>,
    executer_pp_clear |-> <<1, 5>>, executer |-> <<1, 16>>])
DpuRdmaDataCubeWidth == Reg(\h500c, [width |-> <<13, 0>>])
DpuRdmaDataCubeHeight == Reg(\h5010, [height |-> <<13, 0>>,
    ew_line_notch_addr |-> <<13, 16>>])
DpuRdmaDataCubeChannel == Reg(\h5014, [channel |-> <<13, 0>>])
DpuRdmaSrcBaseAddr == Reg(\h5018, [src_base_addr |-> <<32, 0>>])
DpuRdmaBrdmaCfg == Reg(\h501c, [brdma_data_use |-> <<4, 1>>])
DpuRdmaBsBaseAddr == Reg(\h5020, [bs_base_addr |-> <<32, 0>>])
DpuRdmaErdmaCfg == Reg(\h5034, [erdma_disable |-> <<1, 0>>, ov4k_bypass |-> <<1, 1>>,
    erdma_data_size |-> <<2, 2>>, erdma_nonalign |-> <<1, 28>>,
    erdma_surf_mode |-> <<1, 29>>, erdma_data_mode |-> <<2, 30>>])
DpuRdmaEwBaseAddr == Reg(\h5038, [ew_base_addr |-> <<32, 0>>])
DpuRdmaEwSurfStride == Reg(\h5040, [ew_surf_stride |-> <<28, 4>>])
DpuRdmaFeatureModeCfg == Reg(\h5044, [flying_mode |-> <<1, 0>>, conv_mode |-> <<2, 1>>,
    mrdma_fp16tofp32_en |-> <<1, 3>>, mrdma_disable |-> <<1, 4>>,
    proc_precision |-> <<3, 5>>, comb_use |-> <<3, 8>>, burst_len |-> <<4, 11>>,
    in_precision |-> <<3, 15>>])
DpuRdmaWeight == Reg(\h5068, [m_weight |-> <<8, 0>>, b_weight |-> <<8, 8>>,
    n_weight |-> <<8, 16>>, e_weight |-> <<8, 24>>])

(* The pooling unit (builders/ppu.rs).                                     *)
PpuSPointer == Reg(\h6004, [pointer |-> <<1, 0>>, pointer_pp_en |-> <<1, 1>>,
    executer_pp_en |-> <<1, 2>>, pointer_pp_mode |-> <<1, 3>>, pointer_pp_clear |-> <<1, 4>>,
    executer_pp_clear |-> <<1, 5>>, executer |-> <<1, 16>>])
PpuDataCubeInWidth == Reg(\h600c, [cube_in_width |-> <<13, 0>>])
PpuDataCubeInHeight == Reg(\h6010, [cube_in_height |-> <<13, 0>>])
PpuDataCubeInChannel == Reg(\h6014, [cube_in_channel |-> <<13, 0>>])
PpuDataCubeOutWidth == Reg(\h6018, [cube_out_width |-> <<13, 0>>])
PpuDataCubeOutHeight == Reg(\h601c, [cube_out_height |-> <<13, 0>>])
PpuDataCubeOutChannel == Reg(\h6020, [cube_out_channel |-> <<13, 0>>])
PpuOperationModeCfg == Reg(\h6024, [pooling_method |-> <<2, 0>>, flying_mode |-> <<1, 4>>,
    use_cnt |-> <<3, 5>>, notch_addr |-> <<13, 16>>, index_en |-> <<1, 30>>])
PpuPoolingKernelCfg == Reg(\h6034, [kernel_width |-> <<4, 0>>, kernel_height |-> <<4, 8>>,
    kernel_stride_width |-> <<4, 16>>, kernel_stride_height |-> <<4, 20>>])
PpuRecipKernelWidth == Reg(\h6038, [recip_kernel_width |-> <<17, 0>>])
PpuRecipKernelHeight == Reg(\h603c, [recip_kernel_height |-> <<17, 0>>])
PpuPoolingPaddingCfg == Reg(\h6040, [pad_left |-> <<3, 0>>, pad_top |-> <<3, 4>>,
    pad_right |-> <<3, 8>>, pad_bottom |-> <<3, 12>>])
PpuPaddingValue1Cfg == Reg(\h6044, [pad_value_0 |-> <<32, 0>>])
PpuDstBaseAddr == Reg(\h6070, [dst_base_addr |-> <<28, 4>>])
PpuDstSurfStride == Reg(\h607c, [dst_surf_stride |-> <<28, 4>>])
PpuDataFormat == Reg(\h6084, [proc_precision |-> <<3, 0>>, dpu_flyin |-> <<1, 3>>,
    index_add |-> <<28, 4>>])
PpuMiscCtrl == Reg(\h60dc, [burst_len |-> <<4, 0>>, nonalign |-> <<1, 7>>,
    mc_surf_out |-> <<1, 8>>, surf_len |-> <<16, 16>>])

(* Reads of the pooling unit (builders/ppu_rdma.rs).                       *)
PpuRdmaSPointer == Reg(\h7004, [pointer |-> <<1, 0>>, pointer_pp_en |-> <<1, 1>>,
    executer_pp_en |-> <<1, 2>>, pointer_pp_mode |-> <<1, 3>>, pointer_pp_clear |-> <<1, 4>>,
    executer_pp_clear |-> <<1, 5>>, executer |-> <<1, 16>>])
PpuRdmaCubeInWidth == Reg(\h700c, [cube_in_width |-> <<13, 0>>])
PpuRdmaCubeInHeight == Reg(\h7010, [cube_in_height |-> <<13, 0>>])
PpuRdmaCubeInChannel == Reg(\h7014, [cube_in_channel |-> <<13, 0>>])
PpuRdmaSrcBaseAddr == Reg(\h701c, [src_base_addr |-> <<32, 0>>])
PpuRdmaSrcLineStride == Reg(\h7024, [src_line_stride |-> <<28, 4>>])
PpuRdmaSrcSurfStride == Reg(\h7028, [src_surf_stride |-> <<28, 4>>])
PpuRdmaDataFormat == Reg(\h7030, [in_precision |-> <<2, 0>>])
-----------------------------------------------------------------------------
(* A command: a register and the (field, value) pairs its builder chain    *)
(* sets, in order; zero is the builder without a chain.                    *)
Cmd(reg, sets) == [reg |-> reg, sets |-> sets]
zero(reg) == Cmd(reg, <<>>)

Flag(b) == IF b THEN 1 ELSE 0

(* Bits::new asserts that the value fits; the builder panics otherwise.    *)
(* A 32-bit word is named by the signed integer of the same bits, so that  *)
(* only a field of 32 bits takes a negative one.                           *)
BitsNew(width, value) ==
  \/ width = 32
  \/ value >= 0 /\ (width < 31 => value < 2 ^ width)

BitsOf(width, value) ==
  {b \in 0..(width - 1) :
     IF b < 31 THEN (value \div 2 ^ b) % 2 = 1 ELSE value < 0}
Mask(field) == field[2]..(field[1] + field[2] - 1)

(* Register::set_field on the bits the register has so far, and the word   *)
(* the chain leaves for RegCmd::new.                                       *)
set_field(word, field, value) ==
  (word \ Mask(field)) \cup ({b + field[2] : b \in BitsOf(field[1], value)} \cap Mask(field))
build(c) ==
  LET Upto[i \in 0..Len(c.sets)] ==
        IF i = 0 THEN {}
        ELSE set_field(Upto[i - 1], c.reg.fields[c.sets[i][1]], c.sets[i][2])
  IN  Upto[Len(c.sets)]

(* What the hardware finds in a field of a word.                           *)
ReadBack(word, field) == {b - field[2] : b \in word \cap Mask(field)}

(* The value the chain gave a field, zero when it set none.                *)
ValueOf(c, name) ==
  LET given == {i \in 1..Len(c.sets) : c.sets[i][1] = name}
  IN  IF given = {} THEN 0 ELSE c.sets[CHOOSE i \in given : \A j \in given : j <= i][2]

(* Every value the builder chains of a program set fits its field.         *)
FieldsFit(p) ==
  \A i \in 1..Len(p) : \A j \in 1..Len(p[i].sets) :
    BitsNew(p[i].reg.fields[p[i].sets[j][1]][1], p[i].sets[j][2])

(* The commands of a program for a register, and the value the last leaves *)
(* in a field.                                                             *)
Matches(p, reg) == {i \in 1..Len(p) : p[i].reg.offset = reg.offset}
Programmed(p, reg, name) ==
  LET found == Matches(p, reg)
  IN  ValueOf(p[CHOOSE i \in found : \A j \in found : j <= i], name)

(* The words give the hardware, field by field, what the chains set.       *)
ReadsBack(p) ==
  \A i \in 1..Len(p) :
    LET word == build(p[i])
    IN  \A name \in DOMAIN p[i].reg.fields :
          ReadBack(word, p[i].reg.fields[name])
            = BitsOf(p[i].reg.fields[name][1], ValueOf(p[i], name))
=============================================================================
