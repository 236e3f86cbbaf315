----------------------------- MODULE ConvTiling -----------------------------
(***************************************************************************)
(* How rocket-core cuts a convolution into the rectangles one NPU task     *)
(* computes each, and divides the twelve CBUF banks between feature data   *)
(* and coefficients (rocket-core/src/conv.rs, Tile, ColumnTile, Tile2D and *)
(* the policies of ConvPlan).                                              *)
(*                                                                         *)
(* A list of row tiles is the sequence of its boundaries, 0 first and the  *)
(* output height last, which is the form realign_dense_row_tiles works on; *)
(* None is the empty sequence, for boundaries and for grids.               *)
(***************************************************************************)
EXTENDS ConvShape, SequencesExt

NONE == <<>>

tile_in_first(s, kernels, out_first) ==
  saturating_sub(out_first * s.stride, KernelOf(s, kernels).pad_top)

(* Mutant of from_bounds: every tile keeps the whole top padding.          *)
from_bounds_padded(s, kernels, out_first, out_rows) ==
  LET k == KernelOf(s, kernels)
      in_first == tile_in_first(s, kernels, out_first)
      last_tap == (out_first + out_rows - 1) * s.stride + k.height - 1
      in_last == Min2(saturating_sub(last_tap, k.pad_top), s.height - 1)
  IN  [out_first |-> out_first, out_rows |-> out_rows, in_first |-> in_first,
       in_rows |-> in_last - in_first + 1, pad_top |-> k.pad_top]

(* Tile::from_bounds: the output rows, the input rows they read and the    *)
(* part of the top padding that is still visible.                          *)
from_bounds(s, kernels, out_first, out_rows) ==
  LET k == KernelOf(s, kernels)
      in_first == tile_in_first(s, kernels, out_first)
      last_tap == (out_first + out_rows - 1) * s.stride + k.height - 1
      in_last == Min2(saturating_sub(last_tap, k.pad_top), s.height - 1)
      exact == in_last - in_first + 1
  IN  [out_first |-> out_first, out_rows |-> out_rows, in_first |-> in_first,
       in_rows |-> Min2(Max2(exact, out_rows * s.stride), s.height - in_first),
       pad_top |-> saturating_sub(k.pad_top, out_first * s.stride)]

whole_rows(s, kernels) == from_bounds(s, kernels, 0, output_height(s, kernels))

(* ColumnTile::from_output_range: a tile that is the whole row takes the   *)
(* whole row, whatever its taps reach.                                     *)
from_output_range(s, kernels, out_first, out_cols) ==
  LET k == KernelOf(s, kernels)
      in_first == saturating_sub(out_first * s.stride, k.pad_left)
      last_tap == (out_first + out_cols - 1) * s.stride + k.width - 1
      in_last == Min2(saturating_sub(last_tap, k.pad_left), s.width - 1)
      exact == in_last - in_first + 1
      spans_full_row == out_first = 0 /\ out_cols = output_width(s, kernels)
  IN  [out_first |-> out_first, out_cols |-> out_cols, in_first |-> in_first,
       in_cols |-> IF spans_full_row THEN s.width - in_first
                   ELSE Min2(Max2(exact, out_cols * s.stride), s.width - in_first),
       pad_left |-> saturating_sub(k.pad_left, out_first * s.stride)]

(* Tile2D::input_offset and output_offset, in bytes from the tensor base.  *)
input_offset(s, t) ==
  t.rows.in_first * input_row_stride(s)
    + t.columns.in_first
        * (IF layout(s) = "Dense" THEN bytes_for(s.precision, s.in_channels)
           ELSE FEATURE_ATOM_BYTES)

output_offset(s, kernels, t) ==
  t.rows.out_first * output_row_stride(s, kernels)
    + t.columns.out_first * output_channel_block_bytes(s)
-----------------------------------------------------------------------------
(* What fits in one task.                                                  *)

max_tile_input_rows_for_width_and_data_banks(s, input_width, data_banks) ==
  LET charged == cbuf_input_width(s, input_width)
      entries_per_row == div_ceil(input_width * cbuf_atoms(s), CBUF_ATOMS_PER_ENTRY)
      capacity ==
        IF layout(s) = "Dense"
        THEN (data_banks * (CBUF_BANK_BYTES \div 4))
               \div (charged * dense_cbuf_pixel_bytes(s))
        ELSE (data_banks * CBUF_BANK_BYTES)
               \div (entries_per_row * CBUF_ATOMS_PER_ENTRY * FEATURE_ATOM_BYTES)
  IN  Min2(capacity, MAX_DATA_ENTRIES \div charged)

max_tile_input_width(s) ==
  LET extra_slabs == IF layout(s) = "Dense" THEN 0
                     ELSE div_ceil(cbuf_atoms(s), CBUF_ATOMS_PER_ENTRY) - 1
  IN  IF extra_slabs = 0 THEN s.width
      ELSE Min2(MAX_ENTRY_SLAB_BASE \div extra_slabs, s.width)

max_feature_grain_input_rows(s, kernels) ==
  LET k == KernelOf(s, kernels)
  IN  Max2(1, saturating_sub(MAX_FEATURE_GRAINS, k.height + k.pad_top))

(* The row capacity plan_grid allows a column tile of this input width.    *)
max_rows(s, kernels, in_cols, data_banks) ==
  Min2(max_tile_input_rows_for_width_and_data_banks(s, in_cols, data_banks),
       max_feature_grain_input_rows(s, kernels))

min_tiles_for_width_and_data_banks(s, kernels, in_cols, data_banks) ==
  LET rows == Max2(1, saturating_sub(max_rows(s, kernels, in_cols, data_banks),
                                     KernelOf(s, kernels).height - 1))
  IN  div_ceil(output_height(s, kernels), Max2(1, div_ceil(rows, s.stride)))

feature_grains(kernels, rows) == rows.in_rows + kernels[1] + rows.pad_top
-----------------------------------------------------------------------------
(* Row splits.                                                             *)

(* Tile::split and balanced_column_widths: n parts, the first few one      *)
(* longer.                                                                 *)
BalancedBoundary(total, n, i) == i * (total \div n) + Min2(i, total % n)
split(s, kernels, n) ==
  [i \in 1..(n + 1) |-> BalancedBoundary(output_height(s, kernels), n, i - 1)]
balanced_column_widths(output_cols, n) ==
  [i \in 1..n |-> BalancedBoundary(output_cols, n, i) - BalancedBoundary(output_cols, n, i - 1)]

RowTile(s, kernels, bounds, i) ==
  from_bounds(s, kernels, bounds[i], bounds[i + 1] - bounds[i])
AllFit(s, kernels, bounds, max_input_rows) ==
  \A i \in 1..(Len(bounds) - 1) : RowTile(s, kernels, bounds, i).in_rows <= max_input_rows

(* The input rows charged to a grain, before clipping at the bottom edge.  *)
GrainRows(s, kernels, out_first, out_rows) ==
  LET k == KernelOf(s, kernels)
      last_tap == (out_first + out_rows - 1) * s.stride + k.height - 1
  IN  Max2(saturating_sub(last_tap, k.pad_top) - tile_in_first(s, kernels, out_first) + 1,
           out_rows * s.stride)

(* The most output rows from out_first on that one task holds, or 0.       *)
greedy_rows(s, kernels, max_input_rows, out_first) ==
  LET fitting == {r \in 1..(output_height(s, kernels) - out_first) :
                    GrainRows(s, kernels, out_first, r) <= max_input_rows}
  IN  IF fitting = {} THEN 0 ELSE CHOOSE r \in fitting : \A q \in fitting : q <= r

(* out_first after each turn of the loop, which stays where nothing fits.  *)
greedy_starts(s, kernels, max_input_rows) ==
  LET Start[i \in 0..output_height(s, kernels)] ==
        IF i = 0 THEN 0
        ELSE LET out_first == Start[i - 1]
             IN  out_first + greedy_rows(s, kernels, max_input_rows, out_first)
  IN  Start

split_greedy_to_capacity(s, kernels, max_input_rows) ==
  LET oh == output_height(s, kernels)
      start == greedy_starts(s, kernels, max_input_rows)
      n == CHOOSE m \in 1..oh : start[m] = oh /\ start[m - 1] < oh
  IN  IF whole_rows(s, kernels).in_rows <= max_input_rows THEN <<0, oh>>
      ELSE IF start[oh] # oh THEN NONE
      ELSE [i \in 1..(n + 1) |-> start[i - 1]]

dense_feature_offset_safe(s, in_first) ==
  layout(s) = "Dense" => (in_first * input_row_stride(s)) % FEATURE_ATOM_BYTES = 0

(* Moves every inner boundary to the nearest row whose input starts on an  *)
(* atom, the earlier one of two as near: the boundaries after each turn of *)
(* the loop.                                                               *)
Distance(a, b) == IF a <= b THEN b - a ELSE a - b
Nearest(current, C) ==
  CHOOSE c \in C : \A d \in C :
    \/ Distance(c, current) < Distance(d, current)
    \/ Distance(c, current) = Distance(d, current) /\ c <= d

moved_boundaries(s, kernels, bounds) ==
  LET Moved[i \in 0..(Len(bounds) - 2)] ==
        IF i = 0 THEN bounds
        ELSE LET b == Moved[i - 1]
                 C == {c \in (b[i] + 1)..(b[i + 2] - 1) :
                         dense_feature_offset_safe(s, tile_in_first(s, kernels, c))}
             IN  IF b = NONE \/ C = {} THEN NONE
                 ELSE [b EXCEPT ![i + 1] = Nearest(@, C)]
  IN  Moved

realign_dense_row_tiles(s, kernels, bounds, max_input_rows) ==
  LET realigned == moved_boundaries(s, kernels, bounds)[Len(bounds) - 2]
  IN  IF layout(s) # "Dense" \/ Len(bounds) <= 2 THEN bounds
      ELSE IF realigned # NONE /\ AllFit(s, kernels, realigned, max_input_rows)
      THEN realigned ELSE NONE

(* The rows of one column: greedy and realigned, or else the fewest        *)
(* balanced tiles that fit and can be realigned.                           *)
row_tiles(s, kernels, max_input_rows) ==
  LET greedy == split_greedy_to_capacity(s, kernels, max_input_rows)
      Realigned(bounds) == realign_dense_row_tiles(s, kernels, bounds, max_input_rows)
      counts == {n \in 1..output_height(s, kernels) :
                   /\ AllFit(s, kernels, split(s, kernels, n), max_input_rows)
                   /\ Realigned(split(s, kernels, n)) # NONE}
  IN  CASE greedy = NONE -> NONE
        [] greedy # NONE /\ Realigned(greedy) # NONE -> Realigned(greedy)
        [] greedy # NONE /\ Realigned(greedy) = NONE /\ counts = {} -> NONE
        [] OTHER -> Realigned(split(s, kernels, CHOOSE n \in counts : \A m \in counts : n <= m))
-----------------------------------------------------------------------------
(* Grids.                                                                  *)

(* The sums of the first entries of a sequence of numbers, from none to    *)
(* all of them.                                                            *)
PartialSums(v) ==
  LET Sum[i \in 0..Len(v)] == IF i = 0 THEN 0 ELSE Sum[i - 1] + v[i] IN Sum

(* ColumnTile::split.                                                      *)
ColumnTiles(s, kernels, widths) ==
  LET first == PartialSums(widths)
  IN  [i \in 1..Len(widths) |-> from_output_range(s, kernels, first[i - 1], widths[i])]

(* One column of a grid, its rows cut at the boundaries, and the grid of   *)
(* all columns, one after the other.                                       *)
ColumnOf(s, kernels, column, bounds) ==
  [j \in 1..(Len(bounds) - 1) |-> [rows |-> RowTile(s, kernels, bounds, j), columns |-> column]]
GridOf(s, kernels, columns, bounds) ==
  FlattenSeq([i \in 1..Len(columns) |-> ColumnOf(s, kernels, columns[i], bounds[i])])

(* Tile2D::grid.                                                           *)
grid(s, kernels, widths, data_banks) ==
  LET columns == ColumnTiles(s, kernels, widths)
      bounds == [i \in 1..Len(columns) |->
                   split(s, kernels, min_tiles_for_width_and_data_banks(
                                       s, kernels, columns[i].in_cols, data_banks))]
  IN  GridOf(s, kernels, columns, bounds)

UsableGrid(s, kernels, columns, bounds) ==
  IF \E i \in 1..Len(columns) : columns[i].in_cols > max_tile_input_width(s) \/ bounds[i] = NONE
  THEN NONE ELSE GridOf(s, kernels, columns, bounds)
plan_grid(s, kernels, widths, data_banks) ==
  LET columns == ColumnTiles(s, kernels, widths)
  IN  UsableGrid(s, kernels, columns,
        [i \in 1..Len(columns) |->
           row_tiles(s, kernels, max_rows(s, kernels, columns[i].in_cols, data_banks))])

grid_fits(s, kernels, tiles, data_banks) ==
  \A i \in 1..Len(tiles) :
    LET t == tiles[i] IN
    /\ t.columns.in_cols <= max_tile_input_width(s)
    /\ t.rows.in_rows <= max_tile_input_rows_for_width_and_data_banks(
                           s, t.columns.in_cols, data_banks)
    /\ feature_grains(kernels, t.rows) <= MAX_FEATURE_GRAINS

captured_column_partition(s, kernels) ==
  IF /\ s.width = 256 /\ s.height = 32 /\ s.stride = 1 /\ s.out_channels = 64
     /\ s.precision = "fp16" /\ s.padding = <<>>
  THEN CASE kernels = <<9, 9>> /\ s.in_channels = 64 -> <<135, 121>>
         [] kernels = <<11, 11>> /\ s.in_channels = 48 -> <<137, 119>>
         [] kernels = <<11, 11>> /\ s.in_channels = 64 -> <<59, 54, 54, 54, 35>>
         [] OTHER -> NONE
  ELSE NONE
-----------------------------------------------------------------------------
(* The CBUF split.  A partition is <<data_banks, weight_banks>>; a refusal *)
(* is the empty sequence, and every refusal below has the code             *)
(* UnvalidatedConfiguration.                                               *)

try_demand_based_cbuf_partition(s, kernels) ==
  LET data == data_bank_demand(s)
      weights == weight_bank_demand(s, kernels)
      granted == IF data <= weights THEN data
                 ELSE Min2(data, saturating_sub(CBUF_BANKS, weights))
      data_banks == Min2(Max2(granted, 1), CBUF_BANKS - 1)
      weight_banks == CBUF_BANKS - data_banks
      preference == StreamedPreference(s, kernels)
      floor == Max2(weight_banks_floor(weight_channels(s)), preference)
      floored == Min2(floor, CBUF_BANKS - 1)
      whole_data == Min2(data, CBUF_BANKS - 1)
      WholeFits(banks) == whole_rows(s, kernels).in_rows
                            <= max_tile_input_rows_for_width_and_data_banks(s, s.width, banks)
  IN  CASE preference >= CBUF_BANKS -> NONE
        [] preference < CBUF_BANKS
             /\ \/ data_banks = 1 /\ weight_banks > preference /\ weights > preference
                \/ weight_banks < floor /\ weights > weight_banks
             -> <<CBUF_BANKS - floored, floored>>
        [] OTHER ->
             IF /\ whole_data > data_banks /\ CBUF_BANKS - whole_data >= floor
                /\ ~WholeFits(data_banks) /\ WholeFits(whole_data)
             THEN <<whole_data, CBUF_BANKS - whole_data>>
             ELSE <<data_banks, weight_banks>>

(* The ceilings on Cin, above which the NPU hangs; 5x5 has none.           *)
large_kernel_max_in_channels(p, kernel) ==
  CASE kernel <= 5 -> MAX_CHANNELS
    [] kernel = 9 -> 128
    [] kernel = 11 -> 64
    [] OTHER -> CASE p = "tf32" -> 96 [] p = "int4" -> 224 [] OTHER -> 208

check_large_kernel_plan_case(s, kernel, precision_neutral) ==
  /\ precision_neutral \/ s.precision = "fp16"
  /\ s.stride = 1
  /\ s.in_channels <= large_kernel_max_in_channels(s.precision, kernel)

(* Mutant: the captured split is used as it is.                            *)
unstarved_captured(s, kernels, captured) == captured
unstarved_large_kernel_partition(s, kernels, captured) ==
  LET weight_banks == Min2(Max2(captured[2], StreamedPreference(s, kernels)), CBUF_BANKS - 1)
  IN  <<CBUF_BANKS - weight_banks, weight_banks>>

MAX_EVEN_SQUARE_DEMAND_BASED_WEIGHT_BANKS == 8
even_square_cbuf_partition(s, kernels) ==
  IF s.stride = 1 /\ weight_bank_demand(s, kernels) <= MAX_EVEN_SQUARE_DEMAND_BASED_WEIGHT_BANKS
  THEN try_demand_based_cbuf_partition(s, kernels) ELSE NONE

non_square_cbuf_partition(s, kernels) ==
  LET both_even == kernels[1] % 2 = 0 /\ kernels[2] % 2 = 0
      limit == IF ~both_even THEN 5 ELSE IF s.precision = "fp16" THEN 6 ELSE 4
  IN  IF s.stride = 1 /\ weight_bank_demand(s, kernels) <= limit
      THEN try_demand_based_cbuf_partition(s, kernels) ELSE NONE

(* The policy try_new picks by the kernel.                                 *)
cbuf_partition(s, kernels) ==
  LET k == kernels[1]
      Checked(neutral, p) == IF check_large_kernel_plan_case(s, k, neutral) THEN p ELSE NONE
  IN  CASE kernels[1] # kernels[2] -> non_square_cbuf_partition(s, kernels)
        [] kernels[1] = kernels[2] /\ k \in {1, 3} -> try_demand_based_cbuf_partition(s, kernels)
        [] kernels[1] = kernels[2] /\ k \in {2, 4, 6, 8, 10} -> even_square_cbuf_partition(s, kernels)
        [] kernels[1] = kernels[2] /\ k = 5 ->
             Checked(TRUE, try_demand_based_cbuf_partition(s, kernels))
        [] kernels[1] = kernels[2] /\ k = 7 ->
             Checked(TRUE, IF weight_bank_demand(s, kernels) <= 7
                           THEN try_demand_based_cbuf_partition(s, kernels)
                           ELSE unstarved_large_kernel_partition(s, kernels, <<8, 4>>))
        [] kernels[1] = kernels[2] /\ k = 9 ->
             Checked(FALSE, unstarved_large_kernel_partition(
                              s, kernels, IF s.in_channels \in 33..48 THEN <<7, 5>> ELSE <<6, 6>>))
        [] kernels[1] = kernels[2] /\ k = 11 ->
             Checked(FALSE, unstarved_large_kernel_partition(
                              s, kernels, IF s.in_channels <= 32 THEN <<7, 5>>
                                          ELSE IF s.in_channels <= 48 THEN <<5, 7>> ELSE <<3, 9>>))
=============================================================================
