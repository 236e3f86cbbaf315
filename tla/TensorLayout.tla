---------------------------- MODULE TensorLayout ----------------------------
(***************************************************************************)
(* Where the elements of a tensor live: the NC1HWC2 feature cube and the   *)
(* rule under which one dispatch may read another's cube in place          *)
(* (rocket-core/src/layout.rs), the packing of activations into cubes and  *)
(* of results out of them (iree-rocket-hal/src/rocket/tensor_layout.rs)    *)
(* and the coefficient order (rocket-core/src/weights.rs).                 *)
(*                                                                         *)
(* A buffer is abstracted to the place each of its bytes or coefficients   *)
(* was copied from; ZERO marks a place the packers fill with zero.         *)
(***************************************************************************)
EXTENDS ConvShape, Sequences, FiniteSets

ZERO == -1
CubeKinds == {"Conv", "Matmul", "Pooling", "Elementwise"}
is_ppu(kind) == kind = "Pooling"
-----------------------------------------------------------------------------
(* The cube.                                                               *)

packed_channels(kind, element_bytes, channels) ==
  IF is_ppu(kind) THEN next_multiple_of(channels, FEATURE_ATOM_BYTES \div element_bytes)
  ELSE next_multiple_of(Max2(channels, 16), 16)

cube_geometry(kind, element_bytes, width, height, channels) ==
  [pixel_count |-> width * height,
   surface_pixel_count |->
     IF is_ppu(kind) THEN next_multiple_of(width * height, 4) ELSE width * height,
   bytes_per_pixel |-> channels * element_bytes,
   packed_bytes_per_pixel |-> packed_channels(kind, element_bytes, channels) * element_bytes]

(* What cube_geometry refuses before it computes anything.                 *)
CubeRefused(element_bytes, width, height, channels) ==
  \/ element_bytes = 0 \/ FEATURE_ATOM_BYTES % element_bytes # 0
  \/ width = 0 \/ height = 0 \/ channels = 0

is_whole_atom(g) == g.bytes_per_pixel # 0 /\ g.bytes_per_pixel % FEATURE_ATOM_BYTES = 0
packed_surfaces(g) == div_ceil(g.packed_bytes_per_pixel, FEATURE_ATOM_BYTES)
can_chain(g) == is_whole_atom(g) /\ g.packed_bytes_per_pixel = g.bytes_per_pixel

(* Mutant: the surface stride is not compared.                             *)
chain_identity_unstrided(producer, consumer) ==
  /\ can_chain(consumer)
  /\ producer.pixel_count = consumer.pixel_count
  /\ producer.bytes_per_pixel = consumer.bytes_per_pixel

chain_identity(producer, consumer) ==
  /\ can_chain(consumer)
  /\ producer.pixel_count = consumer.pixel_count
  /\ producer.surface_pixel_count = consumer.surface_pixel_count
  /\ producer.bytes_per_pixel = consumer.bytes_per_pixel

-----------------------------------------------------------------------------
(* Activations in and results out.  `pack` gives, for every byte of the    *)
(* cube, the byte of the dense tensor it holds; `compact` gives, for every *)
(* byte of the dense tensor, the byte of the scratch it is read from.      *)

nc1hwc2_storage_size(pixel_count, bytes_per_pixel) ==
  pixel_count * div_ceil(bytes_per_pixel, FEATURE_ATOM_BYTES) * FEATURE_ATOM_BYTES

pack_nhwc_to_nc1hwc2_padded(pixel_count, bytes_per_pixel, packed_bytes_per_pixel) ==
  [a \in 0..(nc1hwc2_storage_size(pixel_count, packed_bytes_per_pixel) - 1) |->
     LET atom == a \div FEATURE_ATOM_BYTES
         byte == (atom \div pixel_count) * FEATURE_ATOM_BYTES
                   + (a % FEATURE_ATOM_BYTES)
     IN  IF byte < bytes_per_pixel THEN (atom % pixel_count) * bytes_per_pixel + byte ELSE ZERO]

(* The byte of a scratch of source_pixel_count pixels in blocks of         *)
(* source_block_bytes that holds byte b of a pixel.                        *)
SourceByte(source_pixel_count, source_block_bytes, pixel, b) ==
  ((b \div source_block_bytes) * source_pixel_count + pixel) * source_block_bytes
    + (b % source_block_bytes)

compact_atomic_output(source_pixel_count, output_pixel_count, bytes_per_pixel, source_block_bytes) ==
  [d \in 0..(output_pixel_count * bytes_per_pixel - 1) |->
     SourceByte(source_pixel_count, source_block_bytes,
                d \div bytes_per_pixel, d % bytes_per_pixel)]

(* compact_tiled_accumulator_output: pixel (row, column) of the image comes *)
(* out of the range of the scratch that its tile owns.                     *)
compact_tiled_accumulator_output(tiles, row, column, b, source_block_bytes) ==
  LET i == CHOOSE j \in 1..Len(tiles) :
             /\ row \in tiles[j].output_row..(tiles[j].output_row + tiles[j].output_rows - 1)
             /\ column \in tiles[j].output_column..(tiles[j].output_column
                                                      + tiles[j].output_columns - 1)
      t == tiles[i]
  IN  t.scratch_offset
        + SourceByte(t.output_rows * t.output_columns, source_block_bytes,
                     (row - t.output_row) * t.output_columns + column - t.output_column, b)
-----------------------------------------------------------------------------
(* Coefficients.  A logical coefficient is <<tap, input, output>>.         *)

WEIGHT_ATOMIC_BYTES == 32
WEIGHT_INPUT_GROUP_CHANNELS == 32
DEPTHWISE_GROUP_BYTES == 64

(* Mutant: no padding of a three-atom group.                               *)
WeightLayout_unquadded(input_channels, output_channels, bits) ==
  LET lanes == (FEATURE_ATOM_BYTES * 8) \div bits
  IN  [output_block_channels |-> IF bits = 32 THEN 16 ELSE (WEIGHT_ATOMIC_BYTES * 8) \div bits,
       input_group_channels |-> IF bits = 32 THEN 16 ELSE WEIGHT_INPUT_GROUP_CHANNELS,
       padded_input_channels |-> next_multiple_of(input_channels, lanes),
       programmed_output_channels |->
         IF bits < 16 THEN next_multiple_of(output_channels, 2) ELSE output_channels]

(* WeightLayout::new.                                                      *)
WeightLayout(input_channels, output_channels, bits) ==
  LET atoms == div_ceil(input_channels, (FEATURE_ATOM_BYTES * 8) \div bits)
      padded == (IF bits = 16 THEN quad_atoms(atoms) ELSE atoms)
                  * ((FEATURE_ATOM_BYTES * 8) \div bits)
  IN  [output_block_channels |-> IF bits = 32 THEN 16 ELSE (WEIGHT_ATOMIC_BYTES * 8) \div bits,
       input_group_channels |-> IF bits = 32 THEN 16 ELSE WEIGHT_INPUT_GROUP_CHANNELS,
       padded_input_channels |-> padded,
       programmed_output_channels |->
         IF bits < 16 THEN next_multiple_of(output_channels, 2) ELSE output_channels]

(* rocket_weight_storage_size_bits.                                        *)
rocket_weight_storage_size(kernels, input_channels, output_channels, bits) ==
  LET l == WeightLayout(input_channels, output_channels, bits)
  IN  (Taps(kernels) * l.padded_input_channels * l.programmed_output_channels * bits) \div 8

(* WeightLayout::visit_slots: the coefficient each slot carries, slots in  *)
(* the order the six loops visit them, lanes past the padding skipped.     *)
visit_slots(kernels, input_channels, output_channels, bits) ==
  LET l == WeightLayout(input_channels, output_channels, bits)
      il == l.input_group_channels
      ol == l.output_block_channels
      groups == div_ceil(l.padded_input_channels, il)
      blocks == div_ceil(l.programmed_output_channels, ol)
      Visit(i) ==
        LET n == i - 1
            input == ((n \div (il * ol * Taps(kernels))) % groups) * il + (n % il)
            output == (n \div (il * ol * Taps(kernels) * groups)) * ol + ((n \div il) % ol)
        IN  [tap |-> (n \div (il * ol)) % Taps(kernels), input |-> input, output |-> output,
             live |-> input < input_channels /\ output < output_channels]
      Kept(v) == v.input < l.padded_input_channels /\ v.output < l.programmed_output_channels
  IN  SelectSeq([i \in 1..(il * ol * Taps(kernels) * groups * blocks) |-> Visit(i)], Kept)

(* pack_depthwise_to_rocket_weights: the slot of a channel's tap.          *)
DepthwiseSlot(kernels, padded_channels_, element_size, channel, tap) ==
  LET group_channels == DEPTHWISE_GROUP_BYTES \div element_size
      full_groups == padded_channels_ \div group_channels
      group == channel \div group_channels
      group_width == IF group < full_groups THEN group_channels
                     ELSE padded_channels_ - full_groups * group_channels
  IN  group * Taps(kernels) * group_channels + tap * group_width + (channel % group_channels)

(* WeightPlan::packed_bytes, and the code WeightPlan::pack returns for a   *)
(* dense filter and a buffer of the right sizes.                           *)
packed_bytes(s, kernels) ==
  IF s.depthwise THEN weight_bytes(s, kernels)
  ELSE rocket_weight_storage_size(kernels, s.in_channels, s.out_channels,
                                  element_bits(s.precision))

PackCode(s, kernels) ==
  IF s.depthwise
  THEN LET programming == try_kernel_programming(kernels, s.padding)
       IN  IF programming # "ok" THEN programming ELSE try_weight_bytes(s, kernels)
  ELSE IF element_bits(s.precision) % 8 # 0 THEN "UnsupportedSemantics"
  ELSE IF kernels[1] = 0 \/ kernels[2] = 0 THEN "InvalidShape"
  ELSE "ok"
=============================================================================
