------------------------------ MODULE Pooling ------------------------------
(***************************************************************************)
(* Pooling on the PPU: the geometry it accepts, the columns a plan cuts it *)
(* into and the register program of each tile                              *)
(* (iree-rocket-hal/src/rocket/pooling.rs).                                *)
(*                                                                         *)
(* A shape is a record with the fields of PoolingShape, its output         *)
(* channels being its input channels in every shape the driver builds.     *)
(* Subtractions are the source's: a u32 that would wrap is a negative      *)
(* number here, and no field takes one.                                    *)
(***************************************************************************)
EXTENDS Registers, TensorLayout

MAX_PPU_EXTENT == 8192
MAX_PPU_KERNEL_OR_STRIDE == 16
MAX_PPU_PADDING == 7
MAX_DIRECT_KERNEL == 8
NOT_MEASURED == -1              \* pad_fill_value is None

method_bits(m) == CASE m = "avg" -> 0 [] m = "max" -> 1 [] m = "min" -> 2

pad_fill_value(method, precision) ==
  IF method = "avg" THEN 0
  ELSE IF method = "max" /\ precision = "fp16" THEN \hFC00
  ELSE NOT_MEASURED

Unpadded(s) == 0 = s.pad_left + s.pad_top + s.pad_right + s.pad_bottom

required_pad_fill(s) == IF Unpadded(s) THEN 0 ELSE pad_fill_value(s.method, s.precision)

pool_element_bytes(p) == IF p = "fp16" THEN 2 ELSE 1
ppu_precision(p) == IF p = "fp16" THEN 2 ELSE 0
rdma_precision(p) == IF p = "fp16" THEN 2 ELSE 1
-----------------------------------------------------------------------------
(* Geometry.                                                               *)

output_extent(input, kernel, stride, before, after) ==
  (input + before + after - kernel) \div stride + 1

(* Mutant: the last window is taken to reach the end of the input.         *)
required_trailing_padding_exact(input, output, kernel, stride, leading_padding) ==
  (output - 1) * stride + kernel - (input + leading_padding)

required_trailing_padding(input, output, kernel, stride, leading_padding) ==
  saturating_sub((output - 1) * stride + kernel, input + leading_padding)

(* PoolingShape::validate.                                                 *)
validate(s) ==
  /\ \A v \in {s.input_width, s.input_height, s.input_channels,
               s.output_width, s.output_height} : v \in 1..MAX_PPU_EXTENT
  /\ \A v \in {s.kernel_width, s.kernel_height, s.stride_x, s.stride_y} :
       v \in 1..MAX_PPU_KERNEL_OR_STRIDE
  /\ \A v \in {s.pad_left, s.pad_top, s.pad_right, s.pad_bottom} : v \in 0..MAX_PPU_PADDING
  /\ s.kernel_width <= s.input_width + s.pad_left + s.pad_right
  /\ s.kernel_height <= s.input_height + s.pad_top + s.pad_bottom
  /\ s.output_width = output_extent(s.input_width, s.kernel_width, s.stride_x,
                                    s.pad_left, s.pad_right)
  /\ s.output_height = output_extent(s.input_height, s.kernel_height, s.stride_y,
                                     s.pad_top, s.pad_bottom)
  /\ s.kernel_width <= MAX_DIRECT_KERNEL /\ s.kernel_height <= MAX_DIRECT_KERNEL

programmed_channels(s) ==
  packed_channels("Pooling", pool_element_bytes(s.precision), s.input_channels)
-----------------------------------------------------------------------------
(* The plan.                                                               *)

K2S2(s) ==
  /\ s.kernel_width = 2 /\ s.kernel_height = 2
  /\ s.stride_x = 2 /\ s.stride_y = 2
  /\ Unpadded(s)

Overlapping(s) ==
  \/ s.kernel_height \in {3, 4} /\ s.stride_y = 1
  \/ s.kernel_height > 4 /\ s.stride_y < s.kernel_height

overlapping_window_width_limits(s) == IF s.kernel_height <= 4 THEN <<34, 31>> ELSE <<20, 13>>

(* The widest input and the widest output a task is measured to complete.  *)
direct_width_limits(s) ==
  CASE K2S2(s) /\ s.precision = "fp16" -> <<256, 128>>
    [] K2S2(s) /\ s.precision = "int8" -> <<130, 65>>
    [] ~K2S2(s) /\ Overlapping(s) -> overlapping_window_width_limits(s)
    [] ~K2S2(s) /\ ~Overlapping(s) -> <<129, 64>>

tile_count(s) == div_ceil(s.output_width, direct_width_limits(s)[2])

avoid_equal_int8_k2_tiles(s) ==
  s.precision = "int8" /\ K2S2(s) /\ s.output_width = 128

TileWidth(s, index) ==
  LET count == tile_count(s)
      base == s.output_width \div count
      first_wider == count - (s.output_width % count)
  IN  IF avoid_equal_int8_k2_tiles(s) THEN base - 1 + 2 * index
      ELSE base + Flag(index >= first_wider)

(* output_first, the running sum of the loop.                              *)
TileFirst(s, index) ==
  LET Upto[i \in 0..index] == IF i = 0 THEN 0 ELSE Upto[i - 1] + TileWidth(s, i - 1)
  IN  Upto[index]

(* Mutant: a tile does not load the columns its last window shares with    *)
(* the next tile.                                                          *)
PoolingTile_without_halo(s, index) ==
  LET first == TileFirst(s, index)
      width == TileWidth(s, index)
      raw_first == first * s.stride_x - s.pad_left
      raw_end == (first + width) * s.stride_x - s.pad_left
      input_first == Max2(raw_first, 0)
      input_end == Max2(Min2(raw_end, s.input_width), 0)
  IN  [input_first |-> input_first, input_width |-> input_end - input_first,
       output_first |-> first, output_width |-> width,
       pad_left |-> Max2(-raw_first, 0), pad_right |-> Max2(raw_end - s.input_width, 0)]

PoolingTile(s, index) ==
  LET first == TileFirst(s, index)
      width == TileWidth(s, index)
      raw_first == first * s.stride_x - s.pad_left
      raw_end == (first + width - 1) * s.stride_x + s.kernel_width - s.pad_left
      input_first == Max2(raw_first, 0)
      input_end == Max2(Min2(raw_end, s.input_width), 0)
  IN  [input_first |-> input_first, input_width |-> input_end - input_first,
       output_first |-> first, output_width |-> width,
       pad_left |-> Max2(-raw_first, 0), pad_right |-> Max2(raw_end - s.input_width, 0)]

PoolingTiles(s) == [i \in 1..tile_count(s) |-> PoolingTile(s, i - 1)]

(* The assertion of PoolingPlan::new, and of the builder after it; the     *)
(* width of a tile that starts past the input wraps and fails it too.      *)
WithinDirectLimits(s, t) ==
  /\ t.input_width \in 0..direct_width_limits(s)[1]
  /\ t.output_width <= direct_width_limits(s)[2]
-----------------------------------------------------------------------------
(* The program of a tile.                                                  *)

(* fp16_bits of an integer in 2^10..65504: eleven significant bits, ties   *)
(* to even, and a carry out of the mantissa reaches the exponent.          *)
fp16_bits(value) ==
  LET e == CHOOSE n \in 10..15 : value \div 2 ^ n = 1
      unit == 2 ^ (e - 10)
      half == (e + 15) * 1024 + ((value \div unit) % 1024)
      rest == 2 * (value % unit)
  IN  half + Flag(rest > unit \/ (rest = unit /\ half % 2 = 1))

ReciprocalEncodable(kernel, precision) == precision = "int8" \/ kernel >= 2

average_reciprocal(kernel, precision) ==
  IF precision = "int8" THEN 65536 \div kernel ELSE fp16_bits(65536 \div kernel)

RecipOf(s, kernel) == IF s.method = "avg" THEN average_reciprocal(kernel, s.precision) ELSE 0

(* Everything build_pooling_tile_task asserts besides the widths of the    *)
(* fields.                                                                 *)
PoolTileAsserts(s, t, buffers) ==
  /\ WithinDirectLimits(s, t)
  /\ (buffers.output + t.output_first * 16) % 16 = 0
  /\ s.method = "avg" => \A k \in {s.kernel_width, s.kernel_height} :
                           ReciprocalEncodable(k, s.precision)

(* Mutant: the surfaces are not aligned to four pixels.                    *)
surf_stride_exact(width, height) == width * height

surf_stride(width, height) == next_multiple_of(width * height, 4)

PpuPointers ==
  <<<<"pointer_pp_mode", 1>>, <<"executer_pp_en", 1>>, <<"pointer_pp_en", 1>>,
    <<"pointer_pp_clear", 1>>, <<"executer_pp_clear", 1>>>>

PpuCommands(s, t, output_addr) ==
  LET stride == surf_stride(s.output_width, s.output_height)
      pad_bottom == required_trailing_padding(s.input_height, s.output_height,
                                              s.kernel_height, s.stride_y, s.pad_top)
  IN <<Cmd(PpuDataCubeInWidth, <<<<"cube_in_width", t.input_width - 1>>>>),
       Cmd(PpuDataCubeInHeight, <<<<"cube_in_height", s.input_height - 1>>>>),
       Cmd(PpuDataCubeInChannel, <<<<"cube_in_channel", programmed_channels(s) - 1>>>>),
       Cmd(PpuDataCubeOutWidth, <<<<"cube_out_width", t.output_width - 1>>>>),
       Cmd(PpuDataCubeOutHeight, <<<<"cube_out_height", s.output_height - 1>>>>),
       Cmd(PpuDataCubeOutChannel, <<<<"cube_out_channel", programmed_channels(s) - 1>>>>),
       Cmd(PpuOperationModeCfg, <<<<"pooling_method", method_bits(s.method)>>,
                                  <<"flying_mode", 1>>, <<"index_en", 0>>, <<"use_cnt", 0>>,
                                  <<"notch_addr", s.output_width - t.output_width>>>>),
       Cmd(PpuPoolingKernelCfg, <<<<"kernel_width", s.kernel_width - 1>>,
                                  <<"kernel_height", s.kernel_height - 1>>,
                                  <<"kernel_stride_width", s.stride_x - 1>>,
                                  <<"kernel_stride_height", s.stride_y - 1>>>>),
       Cmd(PpuRecipKernelWidth, <<<<"recip_kernel_width", RecipOf(s, s.kernel_width)>>>>),
       Cmd(PpuRecipKernelHeight, <<<<"recip_kernel_height", RecipOf(s, s.kernel_height)>>>>),
       Cmd(PpuPoolingPaddingCfg, <<<<"pad_left", t.pad_left>>, <<"pad_top", s.pad_top>>,
                                   <<"pad_right", t.pad_right>>, <<"pad_bottom", pad_bottom>>>>),
       Cmd(PpuPaddingValue1Cfg, <<<<"pad_value_0", s.pad_value>>>>),
       Cmd(PpuDstBaseAddr, <<<<"dst_base_addr", output_addr \div 16>>>>),
       Cmd(PpuDstSurfStride, <<<<"dst_surf_stride", stride>>>>),
       Cmd(PpuDataFormat, <<<<"proc_precision", ppu_precision(s.precision)>>, <<"dpu_flyin", 0>>,
                            <<"index_add", stride>>>>),
       Cmd(PpuMiscCtrl, <<<<"burst_len", 3>>, <<"nonalign", 0>>, <<"mc_surf_out", 0>>,
                          <<"surf_len", 0>>>>)>>

PpuRdmaCommands(s, t, input_addr) ==
  <<Cmd(PpuRdmaCubeInWidth, <<<<"cube_in_width", t.input_width - 1>>>>),
    Cmd(PpuRdmaCubeInHeight, <<<<"cube_in_height", s.input_height - 1>>>>),
    Cmd(PpuRdmaCubeInChannel, <<<<"cube_in_channel", programmed_channels(s) - 1>>>>),
    Cmd(PpuRdmaSrcBaseAddr, <<<<"src_base_addr", input_addr>>>>),
    Cmd(PpuRdmaSrcLineStride, <<<<"src_line_stride", s.input_width>>>>),
    Cmd(PpuRdmaSrcSurfStride,
        <<<<"src_surf_stride", surf_stride(s.input_width, s.input_height)>>>>),
    Cmd(PpuRdmaDataFormat, <<<<"in_precision", rdma_precision(s.precision)>>>>)>>

(* programs_with_buffers, one tile of it, and build_pooling_tile_task.     *)
build_pooling_tile_task(s, t, buffers) ==
  <<Cmd(PpuSPointer, PpuPointers), Cmd(PpuRdmaSPointer, PpuPointers)>>
    \o PpuCommands(s, t, buffers.output + t.output_first * 16)
    \o PpuRdmaCommands(s, t, buffers.input + t.input_first * 16)
=============================================================================
