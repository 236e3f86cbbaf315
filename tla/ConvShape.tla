----------------------------- MODULE ConvShape -----------------------------
(***************************************************************************)
(* The convolution descriptor of rocket-core and the geometry derived from *)
(* it: element widths, channel padding, the coefficient footprint, the     *)
(* output extents and the CBUF banks feature data and weights ask for      *)
(* (rocket-core/src/conv.rs, Precision and Shape).                         *)
(*                                                                         *)
(* A shape is a record with the fields of the Rust struct; a precision is  *)
(* the name of its variant (the quantisation constants it carries do not   *)
(* reach any size); padding is <<>> for None and <<top, left>> for Some.   *)
(* A kernel is <<height, width>>, as in the source.                        *)
(*                                                                         *)
(* Sizes are u32 in the source.  The two products that reach 2^32 for      *)
(* accepted descriptors, the coefficient footprint and the feature-data    *)
(* demand, are computed in parts, so that the check of the first and the   *)
(* wrap of the second are the source's.                                    *)
(***************************************************************************)
EXTENDS Integers

FEATURE_ATOM_BYTES == 16
MAX_DENSE_CHANNELS == 4
MAX_CHANNELS == 4096            \* MAX_INPUT_CHANNELS and its seven siblings
MAX_DEPTHWISE_CHANNELS == 1792
CBUF_BANKS == 12
CBUF_BANK_BYTES == 32768
PIXELS_PER_BANK_STEP == 1024
CBUF_ATOMS_PER_ENTRY == 4
MAX_UNDIVIDED_WEIGHT_BANKS == CBUF_BANKS - 2
CBUF_ENTRY_BYTES == 128
CBUF_ENTRIES_PER_BANK == CBUF_BANK_BYTES \div CBUF_ENTRY_BYTES
MAX_DATA_ENTRIES == 32767
MAX_ENTRY_SLAB_BASE == 2047
MAX_FEATURE_GRAINS == 1023

Precisions ==
  {"fp16", "bf16", "int16", "fp16acc", "tf32", "int4", "int8", "int8acc"}

(* u32::div_ceil, u32::next_multiple_of and u32::saturating_sub.           *)
div_ceil(a, b) == (a + b - 1) \div b
next_multiple_of(a, b) == div_ceil(a, b) * b
saturating_sub(a, b) == IF a >= b THEN a - b ELSE 0
Min2(a, b) == IF a <= b THEN a ELSE b
Max2(a, b) == IF a >= b THEN a ELSE b

(* floor((2^32 - 1) / b) for b > 1, within TLC's 32-bit signed integers.   *)
u32_quotient(b) ==
  LET M == 2147483647 IN 2 * (M \div b) + (2 * (M % b) + 1) \div b
-----------------------------------------------------------------------------
(* Precision.                                                              *)

element_bits(p) ==
  CASE p = "tf32" -> 32
    [] p \in {"fp16", "fp16acc", "bf16", "int16"} -> 16
    [] p \in {"int8", "int8acc"} -> 8
    [] p = "int4" -> 4

bytes_for(p, elements) == (elements * element_bits(p)) \div 8

shares_fp16_layout(p) == element_bits(p) = 16

output_element_bytes(p) ==
  CASE p \in {"fp16", "bf16", "int16", "int4"} -> 2
    [] p = "int8" -> 1
    [] p \in {"int8acc", "tf32", "fp16acc"} -> 4

writes_accumulators(p) == p = "int8acc"
writes_fp32_result(p) == p \in {"tf32", "fp16acc"}
quantized(p) == p \in {"int8", "int8acc"}    \* Precision::quantization().is_some()

channels_per_atom(p) == (FEATURE_ATOM_BYTES * 8) \div element_bits(p)

precision_out_channel_granule(p) ==
  IF p = "tf32" THEN 16 ELSE 2 * channels_per_atom(p)

max_in_channels(p) == MAX_CHANNELS
max_out_channels(p) == MAX_CHANNELS
-----------------------------------------------------------------------------
(* The descriptor's constructors.  Each returns "ok" or the PlanErrorCode  *)
(* of its first refusal; `zero_point` says whether the quantisation of an  *)
(* Int8Accumulator carries a non-zero zero point.                          *)

try_with_precision(s, zero_point) ==
  IF 0 \in {s.width, s.height, s.stride, s.in_channels, s.out_channels}
  THEN "InvalidShape"
  ELSE IF \/ s.in_channels > max_in_channels(s.precision)
          \/ s.out_channels > max_out_channels(s.precision)
          \/ s.precision = "int4" /\ s.in_channels % (FEATURE_ATOM_BYTES * 2) # 0
  THEN "UnvalidatedConfiguration"
  ELSE IF writes_accumulators(s.precision) /\ zero_point THEN "UnsupportedSemantics"
  ELSE IF s.height > (2 ^ 28 - 1) \div s.width THEN "HardwareLimit"
  ELSE "ok"

try_with_padding(padding) ==
  IF \A i \in DOMAIN padding : padding[i] <= 15 THEN "ok" ELSE "HardwareLimit"

try_with_activation(p, activation) ==
  IF writes_accumulators(p) /\ activation # "none" THEN "UnsupportedSemantics"
  ELSE "ok"

try_with_depthwise(s) ==
  IF s.in_channels # s.out_channels THEN "UnsupportedSemantics"
  ELSE IF \/ s.in_channels > MAX_DEPTHWISE_CHANNELS
          \/ element_bits(s.precision) \notin {8, 16}
          \/ writes_fp32_result(s.precision)
  THEN "UnvalidatedConfiguration"
  ELSE "ok"
-----------------------------------------------------------------------------
(* Kernel programming.                                                     *)

kernel_programming(kernels, padding) ==
  [height |-> kernels[1], width |-> kernels[2],
   pad_top |-> IF padding = <<>> THEN kernels[1] \div 2 ELSE padding[1],
   pad_left |-> IF padding = <<>> THEN kernels[2] \div 2 ELSE padding[2]]

KernelOf(s, kernels) == kernel_programming(kernels, s.padding)

try_kernel_programming(kernels, padding) ==
  LET k == kernel_programming(kernels, padding) IN
  IF k.height \notin 1..11 \/ k.width \notin 1..11 THEN "UnvalidatedConfiguration"
  ELSE IF k.pad_top >= k.height \/ k.pad_left >= k.width THEN "InvalidShape"
  ELSE "ok"

check_extents_against(s, k) ==
  IF k.width > s.width + 2 * k.pad_left \/ k.height > s.height + 2 * k.pad_top
  THEN "InvalidShape" ELSE "ok"
-----------------------------------------------------------------------------
(* Channel padding and footprints.                                         *)

quad_atoms(atoms) == IF atoms % 4 = 3 THEN atoms + 1 ELSE atoms

out_channel_granule(s) ==
  (IF s.depthwise THEN 2 ELSE 1) * precision_out_channel_granule(s.precision)

feature_atoms(s) == Max2(1, div_ceil(s.in_channels, channels_per_atom(s.precision)))

padded_channels(s) == feature_atoms(s) * channels_per_atom(s.precision)

weight_channels(s) ==
  IF shares_fp16_layout(s.precision)
  THEN quad_atoms(feature_atoms(s)) * channels_per_atom(s.precision)
  ELSE padded_channels(s)

programmed_kernels(s) ==
  IF s.depthwise THEN 1
  ELSE IF element_bits(s.precision) >= 16 THEN s.out_channels
  ELSE next_multiple_of(s.out_channels, 2)

padded_out_channels(s) ==
  Max2(next_multiple_of(s.out_channels, out_channel_granule(s)), out_channel_granule(s))

cbuf_atoms(s) == quad_atoms(feature_atoms(s))

depthwise_padded_channels(s) == cbuf_atoms(s) * channels_per_atom(s.precision)

layout(s) == IF s.in_channels <= MAX_DENSE_CHANNELS THEN "Dense" ELSE "Surfaces"

(* Bytes of coefficients per kernel tap; weight_bytes is this times the    *)
(* taps of the kernel, and try_weight_bytes refuses it beyond u32.         *)
WeightBytesPerTap(s) ==
  bytes_for(s.precision, IF s.depthwise THEN depthwise_padded_channels(s)
                         ELSE weight_channels(s) * programmed_kernels(s))

Taps(kernels) == kernels[1] * kernels[2]

weight_bytes(s, kernels) == Taps(kernels) * WeightBytesPerTap(s)

try_weight_bytes(s, kernels) ==
  IF Taps(kernels) > 1 /\ WeightBytesPerTap(s) > u32_quotient(Taps(kernels))
  THEN "HardwareLimit" ELSE "ok"

(* ceil(weight_bytes / 32768), without forming weight_bytes.               *)
weight_bank_demand(s, kernels) ==
  LET b == WeightBytesPerTap(s)
  IN  Max2(1, (b \div CBUF_BANK_BYTES) * Taps(kernels)
                + div_ceil((b % CBUF_BANK_BYTES) * Taps(kernels), CBUF_BANK_BYTES))
-----------------------------------------------------------------------------
(* Output extents and strides.                                             *)

output_width(s, kernels) ==
  LET k == KernelOf(s, kernels)
  IN  (s.width + 2 * k.pad_left - k.width) \div s.stride + 1

output_height(s, kernels) ==
  LET k == KernelOf(s, kernels)
  IN  (s.height + 2 * k.pad_top - k.height) \div s.stride + 1

input_row_stride(s) ==
  IF layout(s) = "Dense" THEN s.width * bytes_for(s.precision, s.in_channels)
  ELSE s.width * FEATURE_ATOM_BYTES

cbuf_input_width(s, w) ==
  IF layout(s) = "Dense" THEN next_multiple_of(w, channels_per_atom(s.precision)) ELSE w

(* 1, 2, 4 or 4 channels: the ARGB storage classes.                        *)
dense_cbuf_pixel_bytes(s) ==
  bytes_for(s.precision, IF s.in_channels = 3 THEN 4 ELSE s.in_channels)

output_channel_block_bytes(s) ==
  IF writes_accumulators(s.precision) /\ s.depthwise
  THEN precision_out_channel_granule(s.precision) * output_element_bytes(s.precision)
  ELSE FEATURE_ATOM_BYTES

output_atom_bytes(s) ==
  IF writes_accumulators(s.precision) /\ s.depthwise
  THEN 2 * output_channel_block_bytes(s) ELSE output_channel_block_bytes(s)

output_row_stride(s, kernels) == output_width(s, kernels) * output_channel_block_bytes(s)

output_blocks_per_pixel(s) ==
  div_ceil(padded_out_channels(s) * output_element_bytes(s.precision), output_atom_bytes(s))

output_scratch_bytes(s, kernels) ==
  output_width(s, kernels) * output_height(s, kernels)
    * output_blocks_per_pixel(s) * output_atom_bytes(s)
-----------------------------------------------------------------------------
(* CBUF demand.                                                            *)

streamed_contraction_channels(s) == IF s.depthwise THEN 1 ELSE weight_channels(s)

(* Surfaces: width * height * atoms wraps at 2^32 in the source.  The      *)
(* product is 2048 * q + r, so its residue keeps q modulo 2^21.            *)
data_bank_demand(s) ==
  LET p == s.width * s.height
      low == (p % 2048) * cbuf_atoms(s)
      q == (p \div 2048) * cbuf_atoms(s) + low \div 2048
  IN  Max2(1, IF layout(s) = "Dense"
              THEN div_ceil(cbuf_input_width(s, s.width) * s.height * dense_cbuf_pixel_bytes(s),
                            8 * PIXELS_PER_BANK_STEP)
              ELSE (q % (2 ^ 21)) + (IF low % 2048 > 0 THEN 1 ELSE 0))

weight_banks_floor(channels) ==
  IF channels <= 256 THEN 3 ELSE Min2(3 + (channels - 256) \div 64, 5)

streamed_weight_bank_preference_for_group(channels, kernels, group_divisor, bits) ==
  LET working_set == (Taps(kernels) * channels * 64 * Max2(bits \div 16, 1)) \div group_divisor
      entries == div_ceil(working_set, CBUF_ENTRY_BYTES)
      banks == Max2(1, div_ceil(entries, CBUF_ENTRIES_PER_BANK))
      remainder == entries % CBUF_ENTRIES_PER_BANK
  IN  CASE group_divisor = 1 -> banks
        [] group_divisor > 1 /\ banks < 2 -> 2
        [] group_divisor > 1 /\ banks >= 2 ->
             IF remainder # 0 /\ CBUF_ENTRIES_PER_BANK % remainder # 0
             THEN banks + 1 ELSE banks

streamed_weight_bank_preference(channels, kernels, bits) ==
  LET undivided == streamed_weight_bank_preference_for_group(channels, kernels, 1, bits)
  IN  IF undivided <= MAX_UNDIVIDED_WEIGHT_BANKS THEN undivided
      ELSE streamed_weight_bank_preference_for_group(channels, kernels, 2, bits)

StreamedPreference(s, kernels) ==
  streamed_weight_bank_preference(streamed_contraction_channels(s), kernels,
                                  element_bits(s.precision))
=============================================================================
