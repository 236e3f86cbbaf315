----------------------------- MODULE Admission -----------------------------
(***************************************************************************)
(* What the compiler is willing to claim (rocket-core/src/admission.rs),   *)
(* and the fully-connected lowering that turns an [m,k] x [k,n] matmul     *)
(* into a convolution of width m and height one (rocket-core/src/fc.rs).   *)
(* A verdict is "ok" or the PlanErrorCode of the first refusal.            *)
(***************************************************************************)
EXTENDS ConvShape

MAX_ADMITTED_STRIDE == 4
MAX_ADMITTED_MATMUL_M == 4096

(* PrecisionClass::of is Some for these alone.                             *)
AdmittedClasses == {"fp16", "int8acc", "int8"}

Ceilings(i, o, floor) == [in_channels |-> i, out_channels |-> o, min_out_channels |-> floor]
NoCeilings == Ceilings(0, 0, 0)

(* Mutant: 3x3 rides the 1x1 ceilings.                                     *)
conv_ceilings_flat(p, depthwise, kernel, stride) ==
  IF stride \notin 1..MAX_ADMITTED_STRIDE \/ kernel \notin {1, 3} THEN NoCeilings
  ELSE Ceilings(IF depthwise THEN 1344 ELSE MAX_CHANNELS, MAX_CHANNELS, 1)

conv_ceilings(p, depthwise, kernel, stride) ==
  IF stride \notin 1..MAX_ADMITTED_STRIDE \/ kernel \notin {1, 3} THEN NoCeilings
  ELSE CASE p = "fp16" /\ depthwise -> Ceilings(1536, 1536, 1)
         [] p = "fp16" /\ ~depthwise /\ stride > 2 -> Ceilings(512, 512, 1)
         [] p = "fp16" /\ ~depthwise /\ stride <= 2 ->
              Ceilings(IF kernel = 1 THEN MAX_CHANNELS ELSE 1152, MAX_CHANNELS, 1)
         [] p \in {"int8acc", "int8"} /\ depthwise -> Ceilings(1344, 1344, 1)
         [] p = "int8acc" /\ ~depthwise ->
              IF kernel = 1 THEN Ceilings(MAX_CHANNELS, MAX_CHANNELS, 1)
              ELSE Ceilings(1152, 512, 1)
         [] p = "int8" /\ ~depthwise ->
              IF kernel = 1 THEN Ceilings(1344, 1792, 16) ELSE Ceilings(768, 768, 16)
         [] OTHER -> NoCeilings

admit_conv(s, kernels) ==
  LET c == conv_ceilings(s.precision, s.depthwise, kernels[1], s.stride)
  IN  IF \/ s.precision \notin AdmittedClasses
         \/ kernels[1] # kernels[2]
         \/ c = NoCeilings
      THEN "UnvalidatedConfiguration"
      ELSE IF s.in_channels = 0 \/ s.out_channels = 0 THEN "InvalidShape"
      ELSE IF \/ s.in_channels > c.in_channels
              \/ s.out_channels \notin c.min_out_channels..c.out_channels
      THEN "UnvalidatedConfiguration"
      ELSE IF s.depthwise /\ s.in_channels # s.out_channels THEN "UnsupportedSemantics"
      ELSE "ok"

admit_matmul(p, m, k, n) ==
  IF p # "fp16" THEN "UnvalidatedConfiguration"
  ELSE IF m = 0 \/ k = 0 \/ n = 0 THEN "InvalidShape"
  ELSE IF m > MAX_ADMITTED_MATMUL_M \/ k > MAX_CHANNELS \/ n > MAX_CHANNELS
  THEN "UnvalidatedConfiguration"
  ELSE "ok"

(* fc::Shape::try_as_conv_shape and fc::KERNELS.                           *)
as_conv_shape(m, k, n, p, activation) ==
  [width |-> m, height |-> 1, stride |-> 1, in_channels |-> k, out_channels |-> n,
   precision |-> p, padding |-> <<0, 0>>, activation |-> activation, depthwise |-> FALSE]
=============================================================================
