---------------------------- MODULE ConvPlanner ----------------------------
(***************************************************************************)
(* A convolution from its descriptor to its register programs: the verdict *)
(* the compiler asks for (rocket_admit_conv and _matmul), the descriptor   *)
(* checks of the C ABI (rocket-plan-ffi/src/lib.rs), ConvPlan::try_new and *)
(* try_with_cbuf_banks (rocket-core/src/conv.rs), the staged layout of     *)
(* accumulator output, and the programs of the plan's tiles bound to the   *)
(* buffers of a dispatch (iree-rocket-hal/src/rocket/conv.rs).  The other  *)
(* two services of the C ABI, packing a filter and answering whether one   *)
(* cube may be read in place of another, are calls of their own.           *)
(*                                                                         *)
(* One call is served at a time and leaves nothing behind; every loop of   *)
(* the code that can stop early is a step per iteration.                   *)
(***************************************************************************)
EXTENDS Admission, ConvProgram, TensorLayout

CONSTANTS Calls,       \* descriptors the C ABI is called with
          Buffers      \* DMA addresses of one dispatch's buffers

ASSUME BuffersAssumption ==
  \A b \in {"input", "weights", "bias", "output"} : Buffers[b] \in Nat /\ Buffers[b] % 16 = 0

(* What the C ABI can be handed: the fields are unsigned but for the pads, *)
(* and every one may be zero.  fc::KERNELS is the kernel of a matmul.      *)
CubeDescriptors ==
  [kind : CubeKinds, element_bytes : Nat, width : Nat, height : Nat, channels : Nat]

ASSUME CallsAssumption ==
  \A c \in Calls :
    \/ /\ c.entry = "chain"
       /\ c.producer \in CubeDescriptors /\ c.consumer \in CubeDescriptors
    \/ /\ c.entry \in {"conv", "banks", "matmul", "pack", "pack_matmul"}
       /\ {c.width, c.height, c.stride, c.in_channels, c.out_channels} \subseteq Nat
       /\ c.precision \in Precisions /\ c.depthwise \in BOOLEAN
       /\ c.kernels \in Nat \X Nat /\ c.pad \in Int \X Int
       /\ c.entry \in {"matmul", "pack_matmul"} => c.kernels = <<1, 1>>
       /\ c.entry = "banks" => c.banks \in Nat \X Nat

VARIABLES
  call,       \* the descriptor being served
  stage,      \* how far it has come
  status,     \* what the call returns
  admitted,   \* the verdict of the admission query
  shape,      \* the Shape built from the descriptor
  banks,      \* <<data_banks, weight_banks>>
  columns,    \* column count the planner tries next
  tiles,      \* the plan's tiles
  staged,     \* accumulator_output_layout of the plan
  next,       \* the tile programmed next
  program     \* the program of the tile before it, relocated

vars == <<call, stage, status, admitted, shape, banks, columns, tiles, staged, next, program>>

Nothing == [entry |-> "none"]
kernels == call.kernels

Init ==
  /\ call = Nothing /\ stage = "idle" /\ status = "none" /\ admitted = "none"
  /\ shape = Nothing /\ banks = NONE /\ columns = 1 /\ tiles = NONE
  /\ staged = NONE /\ next = 1 /\ program = <<>>

(* A refusal, or a panic, ends the call.                                   *)
Finish(code) ==
  /\ stage' = "returned" /\ status' = code
  /\ UNCHANGED <<call, admitted, shape, banks, columns, tiles, staged, next, program>>
-----------------------------------------------------------------------------
(* The C ABI.                                                              *)

(* rocket_admit_conv and rocket_admit_matmul, which the compiler asks      *)
(* before it plans; the other entries ask nothing.                         *)
Call(c) ==
  /\ stage = "idle"
  /\ call' = c /\ stage' = "called"
  /\ admitted' = CASE c.entry = "conv" -> admit_conv(c, c.kernels)
                   [] c.entry = "matmul" ->
                        admit_matmul(c.precision, c.width, c.in_channels, c.out_channels)
                   [] OTHER -> "none"
  /\ UNCHANGED <<status, shape, banks, columns, tiles, staged, next, program>>

(* plan_conv_checked, plan_matmul_checked and conv_shape_checked: the      *)
(* first check that refuses decides the code.  -1 in both pads asks for    *)
(* the planner's own padding.  The packer's entry reads neither padding    *)
(* nor activation.                                                         *)
Described ==
  IF call.entry \in {"matmul", "pack_matmul"}
  THEN as_conv_shape(call.width, call.in_channels, call.out_channels, call.precision,
                     IF call.entry = "matmul" THEN call.activation ELSE "none")
  ELSE [width |-> call.width, height |-> call.height, stride |-> call.stride,
        in_channels |-> call.in_channels, out_channels |-> call.out_channels,
        precision |-> call.precision,
        padding |-> IF call.entry = "pack" \/ call.pad = <<-1, -1>> THEN <<>> ELSE call.pad,
        activation |-> IF call.entry = "pack" THEN "none" ELSE call.activation,
        depthwise |-> call.depthwise]

DescribeCode ==
  LET s == Described
      shaped == try_with_precision(s, call.zero_point)
      padded == IF s.padding = <<>> THEN "ok"
                ELSE IF \E i \in 1..2 : s.padding[i] < 0 THEN "InvalidArgument"
                ELSE try_with_padding(s.padding)
      activated == try_with_activation(s.precision, s.activation)
      grouped == IF s.depthwise THEN try_with_depthwise(s) ELSE "ok"
  IN  IF shaped # "ok" THEN shaped ELSE IF padded # "ok" THEN padded
      ELSE IF activated # "ok" THEN activated ELSE grouped

Describe ==
  /\ stage = "called" /\ call.entry # "chain"
  /\ IF DescribeCode = "ok"
     THEN /\ shape' = Described /\ stage' = "described"
          /\ UNCHANGED <<call, status, admitted, banks, columns, tiles, staged, next, program>>
     ELSE Finish(DescribeCode)

(* rocket_pack_conv_weights and rocket_pack_matmul_weights.                *)
Pack ==
  /\ stage = "described" /\ call.entry \in {"pack", "pack_matmul"}
  /\ Finish(PackCode(shape, kernels))

(* rocket_plan_chain_identity.                                             *)
CubeOf(d) == cube_geometry(d.kind, d.element_bytes, d.width, d.height, d.channels)
Refused(d) == CubeRefused(d.element_bytes, d.width, d.height, d.channels)
Chain ==
  /\ stage = "called" /\ call.entry = "chain"
  /\ Finish(IF Refused(call.producer) \/ Refused(call.consumer) THEN "InvalidShape"
            ELSE IF chain_identity(CubeOf(call.producer), CubeOf(call.consumer)) THEN "ok"
            ELSE "LayoutMismatch")
-----------------------------------------------------------------------------
(* ConvPlan.                                                               *)

Plans == {"conv", "matmul", "banks"}

(* try_with_cbuf_banks checks the explicit split first; then both check    *)
(* the kernel, the extents and the coefficient footprint.                  *)
CheckCode ==
  LET k == KernelOf(shape, kernels)
      explicit == IF /\ call.entry = "banks"
                     /\ \/ call.banks[1] = 0 \/ call.banks[2] = 0
                        \/ call.banks[1] + call.banks[2] # CBUF_BANKS
                  THEN "InvalidShape" ELSE "ok"
      programming == try_kernel_programming(kernels, shape.padding)
      extents == check_extents_against(shape, k)
  IN  IF explicit # "ok" THEN explicit ELSE IF programming # "ok" THEN programming
      ELSE IF extents # "ok" THEN extents ELSE try_weight_bytes(shape, kernels)

Check ==
  /\ stage = "described" /\ call.entry \in Plans
  /\ IF CheckCode = "ok"
     THEN /\ stage' = "checked"
          /\ UNCHANGED <<call, status, admitted, shape, banks, columns, tiles, staged, next, program>>
     ELSE Finish(CheckCode)

Partition ==
  /\ stage = "checked"
  /\ \E split_banks \in
           {IF call.entry = "banks" THEN call.banks ELSE cbuf_partition(shape, kernels)} :
       IF split_banks = NONE THEN Finish("UnvalidatedConfiguration")
       ELSE /\ banks' = split_banks /\ stage' = "partitioned"
            /\ UNCHANGED <<call, status, admitted, shape, columns, tiles, staged, next, program>>

Plan(grid_) ==
  /\ tiles' = grid_ /\ stage' = "planned"
  /\ UNCHANGED <<call, status, admitted, shape, banks, columns, staged, next, program>>

(* The full width in one column, or a captured partition, or the search.   *)
FullWidth ==
  /\ stage = "partitioned"
  /\ \E full \in {plan_grid(shape, kernels, <<output_width(shape, kernels)>>, banks[1])} :
     LET captured == captured_column_partition(shape, kernels)
         cut == grid(shape, kernels, captured, banks[1])
     IN  IF full # NONE THEN Plan(full)
         ELSE IF layout(shape) = "Dense" THEN Finish("UnvalidatedConfiguration")
         ELSE IF captured # NONE
         THEN IF grid_fits(shape, kernels, cut, banks[1]) THEN Plan(cut) ELSE Finish("Internal")
         ELSE /\ columns' = 2 /\ stage' = "columns"
              /\ UNCHANGED <<call, status, admitted, shape, banks, tiles, staged, next, program>>

TryColumns ==
  /\ stage = "columns"
  /\ LET ow == output_width(shape, kernels)
     IN  IF columns > ow THEN Finish("CapacityExceeded")
         ELSE \E cut \in {plan_grid(shape, kernels, balanced_column_widths(ow, columns), banks[1])} :
           IF cut # NONE THEN Plan(cut)
           ELSE /\ columns' = columns + 1
                /\ UNCHANGED <<call, stage, status, admitted, shape, banks, tiles, staged, next,
                               program>>
-----------------------------------------------------------------------------
(* Programs.                                                               *)

ScratchRanges(ts, pixel_bytes) ==
  LET bytes == [i \in 1..Len(ts) |-> ts[i].rows.out_rows * ts[i].columns.out_cols * pixel_bytes]
      offset == PartialSums(bytes)
  IN  [i \in 1..Len(ts) |->
         [scratch_offset |-> offset[i - 1], scratch_bytes |-> bytes[i],
          output_row |-> ts[i].rows.out_first, output_column |-> ts[i].columns.out_first,
          output_rows |-> ts[i].rows.out_rows, output_columns |-> ts[i].columns.out_cols]]

(* Mutant: the ranges are sized for the logical channels.                  *)
accumulator_output_layout_logical(s, ks, ts) ==
  ScratchRanges(ts, s.out_channels * output_element_bytes(s.precision))

(* accumulator_output_layout: contiguous ranges in tile order.             *)
accumulator_output_layout(s, ks, ts) ==
  ScratchRanges(ts, output_blocks_per_pixel(s) * output_atom_bytes(s))

ScratchEnd(entries) ==
  entries[Len(entries)].scratch_offset + entries[Len(entries)].scratch_bytes

Stage ==
  /\ stage = "planned"
  /\ LET entries == IF writes_accumulators(shape.precision)
                    THEN accumulator_output_layout(shape, kernels, tiles) ELSE NONE
     IN  IF entries # NONE /\ ScratchEnd(entries) # output_scratch_bytes(shape, kernels)
         THEN Finish("Internal")
         ELSE /\ staged' = entries /\ stage' = "programs"
              /\ UNCHANGED <<call, status, admitted, shape, banks, columns, tiles, next, program>>

placement == IF writes_accumulators(shape.precision) THEN "ContiguousTile" ELSE "SharedImage"

(* relocate, or relocate_staged_accumulator with the tile's own range.     *)
Bound(p, i) ==
  IF staged = NONE THEN relocate(p, Buffers, TRUE)
  ELSE relocate(p, [Buffers EXCEPT !.output = @ + staged[i].scratch_offset], FALSE)

EmitTile ==
  /\ stage = "programs" /\ next <= Len(tiles)
  /\ LET p == conv_2d_tile_program(shape, kernels, tiles[next], banks, placement)
     IN  IF /\ TileAsserts(shape, kernels, tiles[next], placement)
            /\ FieldsFit(p) /\ RelocateAsserts(p, Buffers)
         THEN /\ program' = Bound(p, next) /\ next' = next + 1
              /\ UNCHANGED <<call, stage, status, admitted, shape, banks, columns, tiles, staged>>
         ELSE Finish("panic")

EmitDone == stage = "programs" /\ next > Len(tiles) /\ Finish("ok")

Return ==
  /\ stage = "returned"
  /\ call' = Nothing /\ stage' = "idle" /\ status' = "none" /\ admitted' = "none"
  /\ shape' = Nothing /\ banks' = NONE /\ columns' = 1 /\ tiles' = NONE
  /\ staged' = NONE /\ next' = 1 /\ program' = <<>>

Next ==
  \/ \E c \in Calls : Call(c)
  \/ Describe \/ Pack \/ Chain \/ Check \/ Partition \/ FullWidth \/ TryColumns
  \/ Stage \/ EmitTile \/ EmitDone \/ Return

Spec == Init /\ [][Next]_vars
-----------------------------------------------------------------------------
(* Properties.                                                             *)

Planned == tiles # NONE

(* One axis of a tile: the tile-local address of a tap of the first and    *)
(* the last output is the image's, and a tap inside the image is inside    *)
(* the window the tile loads.                                              *)
TapsResident(out_first, out_count, in_first, in_count, tile_pad, extent, kernel, pad, stride) ==
  \A o \in {out_first, out_first + out_count - 1} : \A tap \in 0..(kernel - 1) :
    LET at == o * stride + tap - pad
    IN  /\ in_first + (o - out_first) * stride + tap - tile_pad = at
        /\ at \in 0..(extent - 1) => at \in in_first..(in_first + in_count - 1)

(* The tiles of a plan compute every output pixel exactly once, from the   *)
(* pixels it takes: the areas add up to the image, no two tiles meet and   *)
(* none leaves the image (conv.rs, "Plans all standalone jobs needed to    *)
(* cover shape exactly once"); and every tap of every tile is outside the  *)
(* image, where the padding supplies it, or in the rows and columns the    *)
(* tile loads (Tile::from_bounds, ColumnTile::from_output_range), through  *)
(* greedy, balanced, realigned and captured splits alike.                  *)
TilesCompute ==
  Planned =>
    LET k == KernelOf(shape, kernels)
        ow == output_width(shape, kernels)
        oh == output_height(shape, kernels)
        areas == [i \in 1..Len(tiles) |-> tiles[i].rows.out_rows * tiles[i].columns.out_cols]
        Apart(first, count, first_, count_) == first + count <= first_ \/ first_ + count_ <= first
    IN  /\ PartialSums(areas)[Len(tiles)] = ow * oh
        /\ \A i \in 1..Len(tiles) :
             LET r == tiles[i].rows
                 c == tiles[i].columns
             IN  /\ r.out_first + r.out_rows <= oh /\ c.out_first + c.out_cols <= ow
                 /\ \A j \in (i + 1)..Len(tiles) :
                      LET r_ == tiles[j].rows
                          c_ == tiles[j].columns
                      IN  \/ Apart(r.out_first, r.out_rows, r_.out_first, r_.out_rows)
                          \/ Apart(c.out_first, c.out_cols, c_.out_first, c_.out_cols)
                 /\ TapsResident(r.out_first, r.out_rows, r.in_first, r.in_rows, r.pad_top,
                                 shape.height, k.height, k.pad_top, shape.stride)
                 /\ TapsResident(c.out_first, c.out_cols, c.in_first, c.in_cols, c.pad_left,
                                 shape.width, k.width, k.pad_left, shape.stride)

(* The one class the ceilings of large kernels let in whose coefficients   *)
(* stream through all twelve banks, so that no split can give them theirs: *)
(* the clamp of unstarved_large_kernel_partition leaves the data one bank  *)
(* (conv.rs, large_kernel_max_in_channels, "7x7 int4 224 exact").          *)
OverStreamed == shape.precision = "int4" /\ kernels = <<7, 7>> /\ shape.in_channels = 224

(* The twelve banks suffice for both sides of a plan.  What a tile loads   *)
(* stays inside the data banks, so that the weights next to it are never   *)
(* overwritten, and the last 32-channel slab of a row starts within the    *)
(* 11-bit slab base.  A split the policies chose leaves the coefficients   *)
(* all the banks they need, or the working set one pass streams: fewer is  *)
(* what hangs the NPU (conv.rs, unstarved_large_kernel_partition).  One    *)
(* class gets eleven banks for a stream of twelve: see OverStreamed.       *)
BanksSuffice ==
  /\ banks # NONE =>
       /\ banks[1] \in 1..11 /\ banks[1] + banks[2] = CBUF_BANKS
       /\ call.entry # "banks" =>
            \/ banks[2] >= Min2(weight_bank_demand(shape, kernels),
                                StreamedPreference(shape, kernels))
            \/ OverStreamed /\ banks[2] = CBUF_BANKS - 1
  /\ Planned =>
       \A i \in 1..Len(tiles) :
         LET rows == tiles[i].rows.in_rows
             cols == tiles[i].columns.in_cols
         IN  IF layout(shape) = "Dense"
             THEN rows * cbuf_input_width(shape, cols) * dense_cbuf_pixel_bytes(shape)
                    <= banks[1] * 8192
             ELSE /\ rows * div_ceil(cols * feature_atoms(shape), 4) * 64
                       <= banks[1] * CBUF_BANK_BYTES
                  /\ (div_ceil(feature_atoms(shape), 4) - 1) * cols <= MAX_ENTRY_SLAB_BASE

(* What the planner lets through and the registers cannot hold, so that    *)
(* Bits::new panics: it bounds neither the stride (3 bits of CnaConvCon3), *)
(* nor the columns of a tile of dense maps and of one 32-channel slab (11  *)
(* bits of CnaDataSize0 and CnaDataSize2), nor the columns a tile leaves   *)
(* to its siblings (13 bits of DpuDataCubeNotchAddr), nor the image of a   *)
(* shared output (28 bits of DpuSurfaceAdd), and only the policies bound   *)
(* the coefficients of one kernel (19 bits of CnaWeightSize1).             *)
Unprogrammable ==
  \/ shape.stride > 7
  \/ \E i \in DOMAIN tiles : tiles[i].columns.in_cols > 2047 \/ tiles[i].columns.out_cols > 2047
  \/ placement = "SharedImage" /\
       \/ \E i \in DOMAIN tiles :
            output_width(shape, kernels) - tiles[i].columns.out_cols > 8191
       \/ surf_add(shape, kernels, tiles[1]) >= 2 ^ 28
  \/ call.entry = "banks" /\ weight_bytes_per_kernel(shape, kernels) >= 2 ^ 19

(* An explicit split of a shape whose columns were captured: the captured  *)
(* columns are cut into at least one row each, however few data banks the  *)
(* split leaves them.                                                      *)
ForcedCapture == call.entry = "banks" /\ captured_column_partition(shape, kernels) # NONE

(* No other descriptor makes the planner contradict itself or the builders *)
(* assert: whatever is planned can be programmed, and staged tiles fill    *)
(* the scratch exactly (accumulator_output_layout, conv_2d_tile_program    *)
(* and relocate).                                                          *)
NeverPanics ==
  /\ status = "panic" => Unprogrammable
  /\ status = "Internal" => ForcedCapture

(* A shape class the compiler claims is never refused as unmeasured or for *)
(* want of capacity at its real extents, unless it is a dense feature map  *)
(* that would need columns: admission's ceilings stay inside what the      *)
(* partition policies accept (admission.rs, "ConvPlan refuses Cin >= 1216  *)
(* outright because it exceeds the eleven grantable CBUF banks").          *)
AdmittedIsPlanned ==
  (admitted = "ok" /\ status \in {"UnvalidatedConfiguration", "CapacityExceeded"}) =>
    layout(call) = "Dense"

(* The byte at which the DPU writes byte 0 of channel block `block` of the *)
(* tile's local pixel (row, column), as the program's registers place it.  *)
DpuByte(row, column, block) ==
  LET width == Programmed(program, DpuDataCubeWidth, "width") + 1
      notch == Programmed(program, DpuDataCubeNotchAddr, "notch_addr_0")
      surface == Programmed(program, DpuDstSurfStride, "dst_surf_stride")
  IN  Programmed(program, DpuDstBaseAddr, "dst_base_addr") - Buffers.output
        + (block * surface + row * (width + notch) + column) * FEATURE_ATOM_BYTES

ReadWhereWritten ==
  (program # <<>> /\ stage = "programs" /\ output_atom_bytes(shape) = FEATURE_ATOM_BYTES) =>
    LET t == tiles[next - 1]
        ow == output_width(shape, kernels)
        oh == output_height(shape, kernels)
        Read(row, column, block) ==
          IF staged # NONE
          THEN compact_tiled_accumulator_output(staged, row, column, block * 16, 16)
          ELSE SourceByte(ow * oh, 16, row * ow + column, block * 16)
    IN  \A row \in {0, t.rows.out_rows - 1}, column \in {0, t.columns.out_cols - 1},
          block \in {0, output_blocks_per_pixel(shape) - 1} :
          LET written == DpuByte(row, column, block)
          IN  /\ written = Read(t.rows.out_first + row, t.columns.out_first + column, block)
              /\ written + 16 <= output_scratch_bytes(shape, kernels)

(* The words of a tile's program give the hardware, field by field, what   *)
(* the builders were given; its feature DMA starts on a 16-byte boundary   *)
(* even where dense rows are no whole number of atoms (conv.rs,            *)
(* dense_feature_offset_safe); and compaction reads every pixel of every   *)
(* channel block where the DPU writes it, in a shared image and in staged  *)
(* accumulator tiles, never outside the scratch.                           *)
ProgramPlaced ==
  /\ ReadsBack(program)
  /\ program # <<>> => Programmed(program, CnaFeatureDataAddr, "feature_base_addr") % 16 = 0
  /\ ReadWhereWritten

(* The coefficient stream a packed filter occupies is exactly the one the  *)
(* register program announces, and holds every coefficient of the filter   *)
(* once: the packer of the compiler and the program of the driver agree on *)
(* padding, groups and tails.                                              *)
FilterPacked ==
  (stage = "returned" /\ call.entry \in {"pack", "pack_matmul"} /\ status = "ok") =>
    /\ packed_bytes(shape, kernels) = weight_bytes(shape, kernels)
    /\ LET slots == (8 * weight_bytes(shape, kernels)) \div element_bits(shape.precision)
           logical == Taps(kernels) * shape.in_channels
           Dense == visit_slots(kernels, shape.in_channels, shape.out_channels,
                                element_bits(shape.precision))
           live == {i \in 1..Len(Dense) : Dense[i].live}
           Grouped == {DepthwiseSlot(kernels, depthwise_padded_channels(shape),
                                     element_bits(shape.precision) \div 8, c, tap) :
                         c \in 0..(shape.in_channels - 1), tap \in 0..(Taps(kernels) - 1)}
       IN  IF shape.depthwise
           THEN Cardinality(Grouped) = logical /\ \A g \in Grouped : g \in 0..(slots - 1)
           ELSE /\ Len(Dense) = slots
                /\ Cardinality(live) = logical * shape.out_channels
                /\ Cardinality({Dense[i] : i \in live}) = Cardinality(live)

(* A consumer allowed to read a producer's cube in place would have packed *)
(* the same bytes at the same addresses from the dense tensor, and no byte *)
(* it reads is padding the producer left behind: pack(compact(cube)) = cube*)
(* (rocket-core/src/layout.rs).                                            *)
ChainIsIdentity ==
  (stage = "returned" /\ call.entry = "chain" /\ status = "ok") =>
    LET producer == CubeOf(call.producer)
        consumer == CubeOf(call.consumer)
        dense == compact_atomic_output(producer.surface_pixel_count, producer.pixel_count,
                                       producer.bytes_per_pixel, FEATURE_ATOM_BYTES)
        cube == pack_nhwc_to_nc1hwc2_padded(consumer.surface_pixel_count,
                                            consumer.bytes_per_pixel,
                                            consumer.packed_bytes_per_pixel)
        Gap(a) == (a \div FEATURE_ATOM_BYTES) % consumer.surface_pixel_count
                    >= consumer.pixel_count
    IN  \A a \in DOMAIN cube : Gap(a) \/ (cube[a] \in DOMAIN dense /\ dense[cube[a]] = a)
=============================================================================
