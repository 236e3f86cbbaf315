---------------------------- MODULE Executable -----------------------------
(***************************************************************************)
(* An executable from the compiler's target to the register programs of a  *)
(* dispatch:                                                               *)
(*                                                                         *)
(*  - RocketTarget.cpp checks the target's configuration and writes it as  *)
(*    a table of one export (serializeExecutable);                         *)
(*  - executable_cache.rs decodes a table, checks the template it carries  *)
(*    and creates the executable (prepare_executable);                     *)
(*  - dispatch reads the push constants into the template (executable.rs,  *)
(*    resolve_shape), checks the bindings, sizes the scratch cubes and     *)
(*    emits the programs (command_buffer.rs, dispatch_impl).               *)
(*                                                                         *)
(* A field of a target or a table that a kernel does not have keeps the    *)
(* value every table starts from.  A scale 2^n is named by n; three names  *)
(* stand for the scales that are none.  A 32-bit word is named by the      *)
(* signed integer of the same bits.  Convolutions and matmuls end here at  *)
(* the planner's verdict, which ConvPlanner models.                        *)
(***************************************************************************)
EXTENDS Pooling, Elementwise

CONSTANTS Targets,              \* the targets the compiler is given
          Foreign,              \* files another producer wrote
          DispatchesOf(_),      \* the dispatches a caller makes, knowing the target
          Buffers               \* the addresses of the scratch cubes

VARIABLES stage,                \* where the executable is
          target,               \* the target it was compiled from
          file,                 \* what prepare_executable is given
          exec,                 \* the decoded executable
          call,                 \* the dispatch being recorded
          resolved,             \* its shape
          tiles,                \* the columns of a pooling plan
          next,                 \* the next program to emit
          program,              \* the last one emitted
          status                \* what the last entry point returned

vars == <<stage, target, file, exec, call, resolved, tiles, next, program, status>>

NONE == <<>>
ZERO_SCALE == -1000
INFINITE_SCALE == 1000
NEGATIVE_SCALE == -1001
PositiveFinite(scale) == scale \in -126..127
-----------------------------------------------------------------------------
(* Names and codes.  The position of a name is its code in                 *)
(* rocket_executable_def.fbs, which the serializer writes.                 *)

RETIRED == "retired"
DimensionsOf(kernel) ==
  CASE kernel = "conv2d" -> <<"input_width", "input_height", "input_channels", RETIRED, RETIRED,
                              "output_channels", "weights_width", "weights_height">>
    [] kernel = "pooling" -> <<"input_width", "input_height", "channels", "kernel_width",
                               "kernel_height", "stride_x", "stride_y">>
    [] kernel \in {"matmul", "fully_connected"} -> <<"m", "k", "n">>
    [] OTHER -> <<"width", "height", "channels">>
DimNames(kernel) == {DimensionsOf(kernel)[i] : i \in DOMAIN DimensionsOf(kernel)} \ {RETIRED}
QuantParams == <<"output_scale", "input_zero_point", "output_zero_point">>
WirePrecisions == <<"int8", "fp16", "int8acc">>
Activations == <<"none", "relu", "relux">>
OpsOf(kernel) ==
  CASE kernel = "pooling" -> <<"avg", "max", "min">>
    [] kernel = "elementwise_unary" -> <<"abs", "neg", "floor", "ceil", "add_scalar">>
    [] kernel = "elementwise_binary" -> <<"add", "sub", "mul", "max", "min">>
    [] kernel = "elementwise_lut" -> <<"sigmoid", "tanh", "exp", "square", "erf", "sqrt", "rsqrt",
                                       "log", "reciprocal">>
    [] OTHER -> <<"none">>

Code(names, name) == (CHOOSE i \in DOMAIN names : names[i] = name) - 1
Kernels == {"conv2d", "pooling", "matmul", "fully_connected", "elementwise_unary",
            "elementwise_binary", "elementwise_lut"}
Elementwise(kernel) == kernel \in {"elementwise_unary", "elementwise_binary", "elementwise_lut"}
Listed(seq) == {seq[i] : i \in DOMAIN seq}
Distinct(seq) == Cardinality(Listed(seq)) = Len(seq)
-----------------------------------------------------------------------------
(* The serializer.                                                         *)

(* A dimension is zero in the template exactly when a dispatch supplies it.*)
DimensionsParse(t) ==
  /\ Distinct(t.runtime) /\ Listed(t.runtime) \subseteq DimNames(t.kernel)
  /\ \A n \in DimNames(t.kernel) : (n \in Listed(t.runtime)) <=> (t.dims[n] = 0)

Conv2dParses(t) ==
  /\ DimensionsParse(t)
  /\ t.epilogue \in {"none", "relu"}
  /\ t.precision = "int8acc" => t.activation = "none" /\ t.zps = <<0, 0, 0>>
  /\ t.quant # <<>> => t.precision = "int8"
  /\ Distinct(t.quant)
  /\ ("output_scale" \in Listed(t.quant)) <=> (t.scales[3] = ZERO_SCALE)
  /\ "input_zero_point" \in Listed(t.quant) => t.zps[1] = 0
  /\ "output_zero_point" \in Listed(t.quant) => t.zps[2] = 0

PoolingParses(t) ==
  /\ t.precision \in {"int8", "fp16"}
  /\ DimensionsParse(t)
  /\ IF t.runtime # <<>> THEN t.out = <<0, 0>> ELSE 0 \notin Listed(t.out)

LutParses(t) ==
  /\ DimensionsParse(t)
  /\ t.zps[1] \in {-128, -2, 0, 127} /\ t.zps[2] \in -128..127
  /\ \A scale \in {t.scales[1], t.scales[3]} : PositiveFinite(scale) \/ scale = INFINITE_SCALE

MatmulParses(t) == t.precision # "int8acc" /\ DimensionsParse(t)

(* The deprecated kind has no runtime dimensions.                          *)
FullyConnectedParses(t) ==
  t.precision # "int8acc" /\ \A n \in DimNames(t.kernel) : t.dims[n] # 0

UnaryParses(t) == DimensionsParse(t) /\ (t.operand # 0 => t.op = "add_scalar")
BinaryParses(t) == DimensionsParse(t)

(* build...ConfigFromTarget, by kernel.                                    *)
Parses(t) ==
  /\ ~(t.layout /\ t.dense_readers)
  /\ CASE t.kernel = "conv2d" -> Conv2dParses(t)
       [] t.kernel = "pooling" -> PoolingParses(t)
       [] t.kernel = "matmul" -> MatmulParses(t)
       [] t.kernel = "fully_connected" -> FullyConnectedParses(t)
       [] t.kernel = "elementwise_unary" -> UnaryParses(t)
       [] t.kernel = "elementwise_binary" -> BinaryParses(t)
       [] t.kernel = "elementwise_lut" -> LutParses(t)

(* Push constants of a dispatch: dimensions, quantisation, trailing word.  *)
Trailing(x) == x.layout \/ x.dense_readers
ConstantCount(x) == Len(x.runtime) + Len(x.quant) + Flag(Trailing(x))

Encode(t) ==
  [format |-> "rocket-flatbuffer-v1", header |-> TRUE, exports |-> 1, kernel |-> t.kernel,
   dims |-> t.dims, out |-> t.out, pads |-> t.pads, zps |-> t.zps, scales |-> t.scales,
   operand |-> t.operand, layout |-> t.layout, dense_readers |-> t.dense_readers,
   runtime |-> [i \in DOMAIN t.runtime |-> Code(DimensionsOf(t.kernel), t.runtime[i])],
   quant |-> [i \in DOMAIN t.quant |-> Code(QuantParams, t.quant[i])],
   precision |-> Code(WirePrecisions, t.precision),
   activation |-> Code(Activations, t.activation),
   epilogue |-> Code(Activations, t.epilogue),
   op |-> Code(OpsOf(t.kernel), t.op)]

Serialize(t) ==
  /\ stage = "none"
  /\ target' = t
  /\ IF Parses(t) /\ t.exports = 1 /\ t.constants = ConstantCount(t)
     THEN stage' = "file" /\ file' = Encode(t) /\ status' = "ok"
     ELSE stage' = "refused" /\ file' = NONE /\ status' = "compile_error"
  /\ UNCHANGED <<exec, call, resolved, tiles, next, program>>

(* A file the serializer did not write.                                    *)
Load(f) ==
  /\ stage = "none"
  /\ stage' = "file" /\ file' = f
  /\ UNCHANGED <<target, exec, call, resolved, tiles, next, program, status>>
-----------------------------------------------------------------------------
(* The decoder.  UNKNOWN is a code of a newer or an older schema.          *)

UNKNOWN == "unknown"
Named(code, names) == IF code + 1 \in DOMAIN names THEN names[code + 1] ELSE UNKNOWN

decode_dimension(kernel, code) ==
  CASE kernel = "conv2d" ->
         (CASE code = 0 -> "input_width" [] code = 1 -> "input_height"
            [] code = 2 -> "input_channels" [] code = 5 -> "output_channels"
            [] code = 6 -> "weights_width" [] code = 7 -> "weights_height"
            [] OTHER -> UNKNOWN)
    [] kernel = "pooling" ->
         Named(code, <<"input_width", "input_height", "channels", "kernel_width",
                       "kernel_height", "stride_x", "stride_y">>)
    [] kernel \in {"matmul", "fully_connected"} -> Named(code, <<"m", "k", "n">>)
    [] OTHER -> Named(code, <<"width", "height", "channels">>)

decode_quant_param(code) ==
  CASE code = 0 -> "output_scale" [] code = 1 -> "input_zero_point"
    [] code = 2 -> "output_zero_point" [] OTHER -> UNKNOWN

(* Mutant: the decoder predates the clamped activation.                    *)
decode_activation_unclamped(code) ==
  CASE code = 0 -> "none" [] code = 1 -> "relu" [] OTHER -> UNKNOWN

decode_activation(code) ==
  CASE code = 0 -> "none" [] code = 1 -> "relu" [] code = 2 -> "relux" [] OTHER -> UNKNOWN

decode_op(kernel, code) ==
  CASE kernel = "pooling" -> Named(code, <<"avg", "max", "min">>)
    [] kernel = "elementwise_unary" ->
         Named(code, <<"abs", "neg", "floor", "ceil", "add_scalar">>)
    [] kernel = "elementwise_binary" -> Named(code, <<"add", "sub", "mul", "max", "min">>)
    [] kernel = "elementwise_lut" ->
         Named(code, <<"sigmoid", "tanh", "exp", "square", "erf", "sqrt", "rsqrt", "log",
                       "reciprocal">>)
    [] OTHER -> "none"

(* Multiplier::try_from_ratio of 2^r: the shift is 14 - r.                 *)
try_from_ratio(r) == 14 - r \in 0..63

(* decode_precision: UNKNOWN for whatever it refuses.                      *)
decode_precision(f, runtime_output_scale) ==
  LET out == IF runtime_output_scale THEN 0 ELSE f.scales[3]
      Quantizes == /\ PositiveFinite(f.scales[1]) /\ PositiveFinite(f.scales[2])
                   /\ PositiveFinite(out)
                   /\ try_from_ratio(f.scales[1] + f.scales[2] - out)
  IN  CASE f.precision = 0 -> IF Quantizes THEN "int8" ELSE UNKNOWN
        [] f.precision = 1 -> "fp16"
        [] f.precision = 2 -> IF Quantizes /\ f.zps = <<0, 0, 0>> THEN "int8acc" ELSE UNKNOWN
        [] OTHER -> UNKNOWN

(* A pool has no scales to check.                                          *)
decode_pool_precision(code) ==
  CASE code = 0 -> "int8" [] code = 1 -> "fp16" [] OTHER -> UNKNOWN

(* The executable a table describes.  A fully connected layer is a matmul  *)
(* without runtime fields.                                                 *)
decode_flatbuffer_shape(f) ==
  LET fc == f.kernel = "fully_connected"
      quant == [i \in DOMAIN f.quant |-> decode_quant_param(f.quant[i])]
  IN [kernel |-> IF fc THEN "matmul" ELSE f.kernel,
      dims |-> f.dims, out |-> f.out, pads |-> f.pads, zps |-> f.zps, scales |-> f.scales,
      operand |-> f.operand,
      layout |-> ~fc /\ f.layout, dense_readers |-> ~fc /\ f.dense_readers,
      runtime |-> IF fc THEN <<>>
                  ELSE [i \in DOMAIN f.runtime |-> decode_dimension(f.kernel, f.runtime[i])],
      quant |-> IF f.kernel = "conv2d" THEN quant ELSE <<>>,
      precision |-> IF Elementwise(f.kernel)
                    THEN (IF f.kernel = "elementwise_lut" THEN "int8" ELSE "fp16")
                    ELSE IF f.kernel = "pooling" THEN decode_pool_precision(f.precision)
                    ELSE decode_precision(f, "output_scale" \in Listed(quant)),
      activation |-> IF f.kernel \in {"conv2d", "matmul", "fully_connected"}
                     THEN decode_activation(f.activation) ELSE "none",
      epilogue |-> IF f.kernel = "conv2d" /\ f.epilogue \notin {0, 1} THEN UNKNOWN
                   ELSE decode_activation(f.epilogue),
      op |-> decode_op(f.kernel, f.op)]

(* Every early return of the decoder before it validates the template.     *)
Decodes(f) ==
  /\ f.header /\ f.exports = 1
  /\ LET e == decode_flatbuffer_shape(f)
     IN  /\ UNKNOWN \notin Listed(e.runtime) \cup Listed(e.quant)
                             \cup {e.precision, e.activation, e.epilogue, e.op}
         /\ e.kernel = "matmul" => e.precision # "int8acc"
-----------------------------------------------------------------------------
(* Shapes of an executable once its dimensions are known.                  *)

PadFillOf(e) ==
  required_pad_fill([pad_left |-> e.pads[1], pad_top |-> e.pads[2], pad_right |-> e.pads[3],
                     pad_bottom |-> e.pads[4], method |-> e.op, precision |-> e.precision])

PoolingShapeOf(e, dims) ==
  LET Extent(axis, kernel, stride, before, after) ==
        IF dims[axis] + before + after < dims[kernel] THEN 0
        ELSE output_extent(dims[axis], dims[kernel], dims[stride], before, after)
  IN [input_width |-> dims["input_width"], input_height |-> dims["input_height"],
      input_channels |-> dims["channels"],
      output_width |-> Extent("input_width", "kernel_width", "stride_x", e.pads[1], e.pads[3]),
      output_height |-> Extent("input_height", "kernel_height", "stride_y", e.pads[2], e.pads[4]),
      kernel_width |-> dims["kernel_width"], kernel_height |-> dims["kernel_height"],
      stride_x |-> dims["stride_x"], stride_y |-> dims["stride_y"],
      pad_left |-> e.pads[1], pad_top |-> e.pads[2],
      pad_right |-> e.pads[3], pad_bottom |-> e.pads[4],
      method |-> e.op, precision |-> e.precision, pad_value |-> PadFillOf(e)]

(* floor_output_extent on both axes, the declared extents of a static pool *)
(* and PoolingShape::validate.                                             *)
PoolingResolves(e, s) ==
  /\ s.output_width > 0 /\ s.output_height > 0
  /\ (e.runtime = <<>> /\ e.out # <<0, 0>>) => e.out = <<s.output_width, s.output_height>>
  /\ validate(s)

(* (zero_point as u8 + 0x80) & 0xff.                                       *)
Biased(zero_point) == ((zero_point % 256) + 128) % 256

LutShapeOf(e, dims) ==
  [width |-> dims["width"], height |-> dims["height"], channels |-> dims["channels"],
   input_zero_point |-> Biased(e.zps[1]), output_zero_point |-> Biased(e.zps[2]),
   input_scale |-> e.scales[1], output_scale |-> e.scales[3]]
-----------------------------------------------------------------------------
(* validate_template.                                                      *)

TemplateRule(e) ==
  /\ Distinct(e.runtime)
  /\ \A i \in DOMAIN e.runtime : e.dims[e.runtime[i]] = 0
  /\ \A n \in DimNames(e.kernel) \ Listed(e.runtime) : e.dims[n] # 0

QuantRule(e) ==
  /\ Distinct(e.quant)
  /\ e.quant # <<>> => e.precision = "int8"
  /\ "input_zero_point" \in Listed(e.quant) => e.zps[1] = 0
  /\ "output_zero_point" \in Listed(e.quant) => e.zps[2] = 0

(* A static executable resolves its own template at once, from no push     *)
(* constants: one that declares a trailing word never does.                *)
StaticResolves(e) == (e.runtime = <<>>) => ~Trailing(e)

PoolingTemplate(e) ==
  /\ PadFillOf(e) # NOT_MEASURED
  /\ StaticResolves(e)
  /\ e.runtime = <<>> => PoolingResolves(e, PoolingShapeOf(e, e.dims))
UnaryTemplate(e) == e.operand # 0 => e.op = "add_scalar"
LutTemplate(e) ==
  /\ e.zps[1] \in {-128, -2, 0, 127} /\ e.zps[2] \in -128..127
  /\ PositiveFinite(e.scales[1]) /\ PositiveFinite(e.scales[3])

validate_template(e) ==
  /\ TemplateRule(e)
  /\ e.kernel = "conv2d" => QuantRule(e)
  /\ e.kernel = "matmul" => StaticResolves(e)
  /\ e.kernel = "pooling" => PoolingTemplate(e)
  /\ e.kernel = "elementwise_unary" => UnaryTemplate(e)
  /\ e.kernel = "elementwise_lut" => LutTemplate(e)

(* Whether validate_template asks the planner, whose verdict is open here. *)
AsksPlanner(e) == e.kernel \in {"conv2d", "matmul"} /\ e.runtime = <<>> /\ e.quant = <<>>
-----------------------------------------------------------------------------
(* prepare_executable.                                                     *)

Refuse(code) ==
  /\ stage' = "refused" /\ status' = code
  /\ UNCHANGED <<target, file, exec, call, resolved, tiles, next, program>>

Create(e) ==
  /\ stage' = "prepared" /\ exec' = e /\ status' = "ok"
  /\ UNCHANGED <<target, file, call, resolved, tiles, next, program>>

PrepareTable ==
  /\ stage = "file" /\ file.format = "rocket-flatbuffer-v1"
  /\ IF Decodes(file) /\ validate_template(decode_flatbuffer_shape(file))
     THEN \/ Create(decode_flatbuffer_shape(file))
          \/ AsksPlanner(decode_flatbuffer_shape(file)) /\ Refuse("INVALID_ARGUMENT")
     ELSE Refuse("INVALID_ARGUMENT")

(* The tagged format: a versioned payload under tag 3, a retired tag, and  *)
(* otherwise one of two fixed 4x4 convolutions.                            *)
CONV2D_V1_TAG == 3
PrepareTagged ==
  /\ stage = "file" /\ file.format = "rocket-conv2d-v1"
  /\ CASE file.tag = CONV2D_V1_TAG ->
            (file.payload # NONE /\ Create(file.payload)) \/ Refuse("INVALID_ARGUMENT")
       [] file.tag = 1 -> Refuse("INVALID_ARGUMENT")
       [] OTHER ->
            Create([kernel |-> "conv2d", op |-> "none", runtime |-> <<>>, quant |-> <<>>,
                    dims |-> [n \in DimNames("conv2d") |->
                                IF n \in {"input_width", "input_height"} THEN 4 ELSE 1],
                    precision |-> IF file.tag = 2 THEN "fp16" ELSE "int8",
                    zps |-> <<0, 0, 0>>, scales |-> <<0, 0, 0>>, activation |-> "none",
                    epilogue |-> "none", operand |-> 0, out |-> <<0, 0>>, pads |-> <<0, 0, 0, 0>>,
                    layout |-> FALSE, dense_readers |-> FALSE])

PrepareUnknown ==
  /\ stage = "file" /\ file.format \notin {"rocket-flatbuffer-v1", "rocket-conv2d-v1"}
  /\ Refuse(IF file.format = "" THEN "INVALID_ARGUMENT" ELSE "NOT_FOUND")
-----------------------------------------------------------------------------
(* resolve_shape: the push constants in the order the lists give.          *)

(* Mutant: the quantisation comes before the dimensions.                   *)
WordOf_quantized_first(e, words, name) ==
  LET listed == e.quant \o e.runtime
  IN  words[CHOOSE i \in DOMAIN listed : listed[i] = name]

WordOf(e, words, name) ==
  LET listed == e.runtime \o e.quant
  IN  words[CHOOSE i \in DOMAIN listed : listed[i] = name]

ZeroDimension(e, words) == \E i \in DOMAIN e.runtime : words[i] = 0

ResolvedDims(e, words) ==
  [n \in DOMAIN e.dims |-> IF n \in Listed(e.runtime) THEN WordOf(e, words, n) ELSE e.dims[n]]

ResolvedZeroPoint(e, words, name, i) ==
  IF name \in Listed(e.quant) THEN WordOf(e, words, name) ELSE e.zps[i]

(* The multiplier of the dispatch's own output scale.                      *)
ScaleResolves(e, words) ==
  "output_scale" \in Listed(e.quant) =>
    LET scale == WordOf(e, words, "output_scale")
    IN  PositiveFinite(scale) /\ try_from_ratio(e.scales[1] + e.scales[2] - scale)

(* trailing_layout and DispatchLayout::from_word: the packed inputs in the *)
(* low half of the word, their readers in the high half.                   *)
HalfWord == 65536

trailing_layout(e, words) ==
  IF ~Trailing(e) \/ words = <<>> THEN [packed_inputs |-> 0, packed_readers |-> 0]
  ELSE LET word == words[Len(words)]
       IN  IF e.layout
           THEN [packed_inputs |-> word % HalfWord, packed_readers |-> word \div HalfWord]
           ELSE [packed_inputs |-> 0, packed_readers |-> Min2(word, HalfWord - 1)]

ResolvedOf(e, words) ==
  [kernel |-> e.kernel, dims |-> ResolvedDims(e, words),
   zps |-> <<ResolvedZeroPoint(e, words, "input_zero_point", 1),
             ResolvedZeroPoint(e, words, "output_zero_point", 2), e.zps[3]>>,
   scale |-> IF "output_scale" \in Listed(e.quant) THEN WordOf(e, words, "output_scale")
             ELSE e.scales[3],
   layout |-> trailing_layout(e, words)]

resolve_shape(e, words) ==
  /\ Len(words) = ConstantCount(e)
  /\ ~ZeroDimension(e, words)
  /\ ScaleResolves(e, words)
  /\ e.kernel = "pooling" =>
       PoolingResolves(e, PoolingShapeOf(e, ResolvedDims(e, words)))

Fail(code) ==
  /\ stage' = "prepared" /\ status' = code /\ call' = NONE /\ resolved' = NONE
  /\ UNCHANGED <<target, file, exec, tiles, next, program>>

(* dispatch_impl up to the resolved shape.  The planner is asked again for *)
(* a convolution or a matmul, and takes over from here.                    *)
Dispatch(d) ==
  /\ stage = "prepared"
  /\ IF resolve_shape(exec, d.words)
     THEN \/ /\ stage' = IF exec.kernel \in {"conv2d", "matmul"} THEN "planned" ELSE "resolved"
             /\ call' = d /\ resolved' = ResolvedOf(exec, d.words) /\ status' = "ok"
             /\ tiles' = NONE /\ next' = 1 /\ program' = NONE
             /\ UNCHANGED <<target, file, exec>>
          \/ exec.kernel \in {"conv2d", "matmul"} /\ Fail("INVALID_ARGUMENT")
     ELSE Fail("INVALID_ARGUMENT")
-----------------------------------------------------------------------------
(* The cubes of a dispatch.                                                *)

Pooled == PoolingShapeOf(exec, resolved.dims)
ElementBytes == IF exec.precision = "fp16" THEN 2 ELSE 1
InputCube ==
  IF exec.kernel = "pooling"
  THEN cube_geometry("Pooling", ElementBytes, Pooled.input_width, Pooled.input_height,
                     Pooled.input_channels)
  ELSE cube_geometry("Elementwise", ElementBytes, resolved.dims["width"],
                     resolved.dims["height"], resolved.dims["channels"])
OutputCube ==
  IF exec.kernel = "pooling"
  THEN cube_geometry("Pooling", ElementBytes, Pooled.output_width, Pooled.output_height,
                     Pooled.input_channels)
  ELSE InputCube
BindingsNeeded == IF exec.kernel = "elementwise_binary" THEN 3 ELSE 2

(* The binding checks; call.short names the bindings too short for their   *)
(* tensor.                                                                 *)
Bind ==
  /\ stage = "resolved"
  /\ IF call.bindings >= BindingsNeeded /\ \A i \in 1..BindingsNeeded : i \notin call.short
     THEN /\ stage' = "bound"
          /\ UNCHANGED <<target, file, exec, call, resolved, tiles, next, program, status>>
     ELSE Fail("INVALID_ARGUMENT")

Panic ==
  /\ stage' = "aborted" /\ status' = "panic"
  /\ UNCHANGED <<target, file, exec, call, resolved, tiles, next, program>>

(* PoolingPlan::new.                                                       *)
Plan ==
  /\ stage = "bound" /\ exec.kernel = "pooling"
  /\ LET plan == PoolingTiles(Pooled)
     IN  IF \A i \in DOMAIN plan : WithinDirectLimits(Pooled, plan[i])
         THEN /\ tiles' = plan /\ stage' = "programs"
              /\ UNCHANGED <<target, file, exec, call, resolved, next, program, status>>
         ELSE Panic

Emitted(p, more) ==
  IF FieldsFit(p)
  THEN /\ program' = p /\ next' = next + 1
       /\ stage' = IF more THEN "programs" ELSE "recorded"
       /\ UNCHANGED <<target, file, exec, call, resolved, tiles, status>>
  ELSE Panic

EmitPoolingTile ==
  /\ stage = "programs"
  /\ IF PoolTileAsserts(Pooled, tiles[next], Buffers)
     THEN Emitted(build_pooling_tile_task(Pooled, tiles[next], Buffers), next < Len(tiles))
     ELSE Panic

EmitUnary ==
  /\ stage = "bound" /\ exec.kernel = "elementwise_unary"
  /\ IF UnaryAsserts(exec.op, exec.operand)
     THEN Emitted(build_unary_regcmd(resolved.dims, exec.op, exec.operand, Buffers), FALSE)
     ELSE Panic

EmitBinary ==
  /\ stage = "bound" /\ exec.kernel = "elementwise_binary"
  /\ Emitted(build_add_regcmd(resolved.dims, exec.op, FALSE, Buffers), FALSE)

EmitLut ==
  /\ stage = "bound" /\ exec.kernel = "elementwise_lut"
  /\ LET s == LutShapeOf(exec, resolved.dims)
     IN  IF LutAsserts(s) THEN Emitted(build_lut_regcmd(s, exec.op, Buffers), FALSE) ELSE Panic

(* The dispatch is recorded, or handed to the planner; the executable is   *)
(* there for the next one.                                                 *)
Return ==
  /\ stage \in {"recorded", "planned"}
  /\ stage' = "prepared" /\ status' = "ok"
  /\ call' = NONE /\ resolved' = NONE /\ tiles' = NONE /\ next' = 1 /\ program' = NONE
  /\ UNCHANGED <<target, file, exec>>
-----------------------------------------------------------------------------
(* What reaches the compiler and the runtime, whatever the constants are:  *)
(* a target with its attributes parsed, a file with its fields, and a call *)
(* that pushes one word for every name it was told of, dimensions first.   *)

Scales == -126..127 \cup {ZERO_SCALE, INFINITE_SCALE, NEGATIVE_SCALE}

Shaped(x) ==
  /\ x.dims \in [DimNames(x.kernel) -> Nat]
  /\ x.pads \in Seq(Nat) /\ Len(x.pads) = 4 /\ x.out \in Seq(Nat) /\ Len(x.out) = 2
  /\ x.zps \in Seq(Int) /\ Len(x.zps) = 3 /\ x.scales \in Seq(Scales) /\ Len(x.scales) = 3
  /\ x.operand \in Int /\ x.layout \in BOOLEAN /\ x.dense_readers \in BOOLEAN

IsTarget(t) ==
  /\ t.kernel \in Kernels /\ Shaped(t)
  /\ t.runtime \in Seq(STRING) /\ t.quant \in Seq(Listed(QuantParams))
  /\ t.precision \in Listed(WirePrecisions) /\ t.op \in Listed(OpsOf(t.kernel))
  /\ t.activation \in Listed(Activations) /\ t.epilogue \in Listed(Activations)
  /\ t.kernel # "conv2d" => t.quant = <<>>
  /\ t.kernel \notin {"conv2d", "matmul", "fully_connected"} => t.activation = "none"
  /\ Elementwise(t.kernel) =>
       t.precision = IF t.kernel = "elementwise_lut" THEN "int8" ELSE "fp16"
  /\ t.kernel = "fully_connected" => t.runtime = <<>> /\ ~Trailing(t)

IsTable(f) ==
  /\ f.kernel \in Kernels /\ Shaped(f)
  /\ f.runtime \in Seq(Nat) /\ f.quant \in Seq(Nat)
  /\ {f.precision, f.activation, f.epilogue, f.op} \subseteq Nat

IsFile(f) ==
  /\ f.format = "rocket-flatbuffer-v1" => IsTable(f)
  /\ f.format = "rocket-conv2d-v1" => f.payload = NONE \/ f.payload.kernel = "conv2d"

(* The words of a dispatch: dimensions are unsigned.                       *)
Pushes(d, x) ==
  /\ d.words \in Seq(Int)
  /\ \A i \in DOMAIN x.runtime \cap DOMAIN d.words : d.words[i] \in Nat

(* The caller's own account of them, when it pushes as many as it should.  *)
MeansItsWords(d, t) ==
  LET names == t.runtime \o t.quant
  IN  /\ DOMAIN d.values = Listed(names)
      /\ {d.inputs, d.readers} \subseteq 0..(HalfWord - 1)
      /\ Len(d.words) = ConstantCount(t) =>
           /\ \A i \in DOMAIN names : d.words[i] = d.values[names[i]]
           /\ Trailing(t) => d.words[Len(d.words)]
                               = IF t.layout THEN d.inputs + HalfWord * d.readers ELSE d.readers

ASSUME TargetsAssumption ==
  \A t \in Targets :
    NONE # t /\ IsTarget(t)
      /\ (Parses(t) => \A d \in DispatchesOf(t) : Pushes(d, t) /\ MeansItsWords(d, t))

ASSUME ForeignAssumption ==
  \A f \in Foreign :
    NONE # f /\ IsFile(f)
      /\ (f.format = "rocket-flatbuffer-v1" =>
            LET e == decode_flatbuffer_shape(f) IN \A d \in DispatchesOf(e) : Pushes(d, e))

ASSUME BuffersAssumption == \A b \in {Buffers.input, Buffers.output} : b \in Nat /\ b % 16 = 0
-----------------------------------------------------------------------------
(* What the caller compiled against: a file without a target is its own    *)
(* declaration.                                                            *)
Declared == IF target = NONE THEN exec ELSE target

Init ==
  /\ stage = "none" /\ target = NONE /\ file = NONE /\ exec = NONE /\ call = NONE
  /\ resolved = NONE /\ tiles = NONE /\ next = 1 /\ program = NONE /\ status = "ok"

Next ==
  \/ \E t \in Targets : Serialize(t)
  \/ \E f \in Foreign : Load(f)
  \/ PrepareTable \/ PrepareTagged \/ PrepareUnknown
  \/ (stage = "prepared" /\ \E d \in DispatchesOf(Declared) : Dispatch(d))
  \/ Bind \/ Plan \/ EmitPoolingTile \/ EmitUnary \/ EmitBinary \/ EmitLut \/ Return

Spec == Init /\ [][Next]_vars
-----------------------------------------------------------------------------
(* The value of a register's field in the program last emitted.            *)
P(reg, name) == Programmed(program, reg, name)

(* A dispatch runs what the compiler was asked for.  After the names became*)
(* codes, the codes names again and the words positions in two lists,      *)
(* every dimension, zero point, scale and layout of the resolved shape is  *)
(* the one the target fixed or the caller pushed under that name, and no   *)
(* dimension is zero.  A curve still answers in the target's own signed    *)
(* zero points, which the template biases to bytes and the builder must    *)
(* unbias before it folds them into its multiplier.                        *)
ResolvedAsMeant ==
  (target # NONE /\ resolved # NONE) =>
    LET Meant(name, fixed) == IF name \in DOMAIN call.values THEN call.values[name] ELSE fixed
    IN  /\ \A n \in DimNames(target.kernel) :
             resolved.dims[n] = Meant(n, target.dims[n]) /\ resolved.dims[n] >= 1
        /\ resolved.zps = <<Meant("input_zero_point", target.zps[1]),
                            Meant("output_zero_point", target.zps[2]), target.zps[3]>>
        /\ resolved.scale = Meant("output_scale", target.scales[3])
        /\ resolved.layout.packed_readers = IF Trailing(target) THEN call.readers ELSE 0
        /\ resolved.layout.packed_inputs = IF target.layout THEN call.inputs ELSE 0
        /\ <<exec.op, exec.precision, exec.activation, exec.epilogue>>
             = <<target.op, target.precision, target.activation, target.epilogue>>
        /\ (exec.kernel = "elementwise_lut" /\ program # NONE) =>
             /\ P(DpuBnAluCfg, "bn_alu_operand")
                  = -target.zps[1] * P(DpuBnMulCfg, "bn_mul_operand")
             /\ P(DpuOutCvtOffset, "out_cvt_offset") = target.zps[2]

(* Why the runtime may refuse a file the compiler wrote: the scales of an  *)
(* int8 kernel, which the compiler does not check; what the planner or the *)
(* pooling unit does not take; and a static pool or matmul that declares a *)
(* trailing word, which validate_template resolves without one.            *)
RuntimeOnly(t) ==
  LET out == IF "output_scale" \in Listed(t.quant) THEN 0 ELSE t.scales[3]
      ratio == t.scales[1] + t.scales[2] - out
  IN  CASE t.kernel \in {"conv2d", "matmul", "fully_connected"} ->
             \/ t.precision # "fp16" /\ \/ ratio \notin -49..14
                                         \/ \E scale \in {t.scales[1], t.scales[2], out} :
                                              ~PositiveFinite(scale)
             \/ t.runtime = <<>> /\ t.quant = <<>>
        [] t.kernel = "pooling" ->
             \/ t.pads # <<0, 0, 0, 0>> /\ t.op # "avg" /\ ~(t.op = "max" /\ t.precision = "fp16")
             \/ t.runtime = <<>> /\ (Trailing(t) \/ ~PoolingResolves(t, PoolingShapeOf(t, t.dims)))
        [] t.kernel = "elementwise_lut" -> INFINITE_SCALE \in {t.scales[1], t.scales[3]}
        [] OTHER -> FALSE

(* The compiler and the runtime, which check the same configuration in two *)
(* languages on the two sides of a file, agree on every target but those.  *)
TemplatesAgree == (stage = "refused" /\ target # NONE /\ file # NONE) => RuntimeOnly(target)
-----------------------------------------------------------------------------
PoolEmitted == program # NONE /\ exec.kernel = "pooling"

(* Every window of every tile of a pool covers the pixels it covers in the *)
(* image: a tap inside the tile's columns and rows is the image's pixel,   *)
(* and a tap outside them is outside the image and within the padding the  *)
(* tile was given.  The tiles follow one another over the whole output.    *)
PoolWindows ==
  PoolEmitted =>
    LET t == tiles[next - 1]
        s == Pooled
        left == P(PpuPoolingPaddingCfg, "pad_left")
        width == P(PpuRdmaCubeInWidth, "cube_in_width") + 1
        first == (P(PpuRdmaSrcBaseAddr, "src_base_addr") - Buffers.input) \div 16
        (* A tap at `local` of an axis whose tile starts at image position `at`. *)
        Tap(local, image, at, extent, before, after, whole) ==
          /\ local >= -before /\ local < extent + after
          /\ IF local \in 0..(extent - 1) THEN image = at + local
             ELSE image \notin 0..(whole - 1)
    IN  /\ tiles[1].output_first = 0
        /\ t.output_first + t.output_width
             = IF next - 1 = Len(tiles) THEN s.output_width ELSE tiles[next].output_first
        /\ \A x \in 0..(t.output_width - 1), k \in 0..(s.kernel_width - 1) :
             Tap(x * s.stride_x - left + k,
                 (t.output_first + x) * s.stride_x - s.pad_left + k, first, width, left,
                 P(PpuPoolingPaddingCfg, "pad_right"), s.input_width)
        /\ \A y \in 0..(s.output_height - 1), k \in 0..(s.kernel_height - 1) :
             LET row == y * s.stride_y - s.pad_top + k
             IN  Tap(row, row, 0, P(PpuRdmaCubeInHeight, "cube_in_height") + 1, s.pad_top,
                     P(PpuPoolingPaddingCfg, "pad_bottom"), s.input_height)

(* The byte of the input scratch at which the unit fetches the atom of a   *)
(* pixel, and the byte of the output scratch at which it leaves one.       *)
ReadAddress(row, column, block) ==
  IF exec.kernel = "pooling"
  THEN P(PpuRdmaSrcBaseAddr, "src_base_addr") - Buffers.input
         + (block * P(PpuRdmaSrcSurfStride, "src_surf_stride")
              + row * P(PpuRdmaSrcLineStride, "src_line_stride") + column) * 16
  ELSE P(DpuRdmaSrcBaseAddr, "src_base_addr") - Buffers.input
         + (block * P(DpuSurfaceAdd, "surf_add")
              + row * (P(DpuRdmaDataCubeWidth, "width") + 1) + column) * 16

WriteAddress(row, column, block) ==
  IF exec.kernel = "pooling"
  THEN P(PpuDstBaseAddr, "dst_base_addr") * 16 - Buffers.output
         + (block * P(PpuDstSurfStride, "dst_surf_stride")
              + row * (P(PpuDataCubeOutWidth, "cube_out_width") + 1
                       + P(PpuOperationModeCfg, "notch_addr")) + column) * 16
  ELSE P(DpuDstBaseAddr, "dst_base_addr") - Buffers.output
         + (block * P(DpuDstSurfStride, "dst_surf_stride")
              + row * (P(DpuDataCubeWidth, "width") + 1) + column) * 16

ProgrammedChannels ==
  1 + (IF exec.kernel = "pooling" THEN P(PpuDataCubeOutChannel, "cube_out_channel")
       ELSE P(DpuDataCubeChannel, "channel"))

(* An address is where the packed layout keeps the atom, inside the cube.  *)
InCube(address, g, pixel, block) ==
  /\ address = SourceByte(g.surface_pixel_count, 16, pixel, block * 16)
  /\ address + 16 <= nc1hwc2_storage_size(g.surface_pixel_count, g.packed_bytes_per_pixel)

(* A program reads the cube the driver packed and writes the cube it       *)
(* compacts: at the corners of every surface the addresses the unit steps  *)
(* through are those of the packed layout, none past the scratch, and no   *)
(* field of its words clobbers another.                                    *)
KernelReadsWritten ==
  program # NONE =>
    LET t == tiles[next - 1]
        d == resolved.dims
        pool == exec.kernel = "pooling"
        in == IF pool THEN [rows |-> Pooled.input_height, columns |-> t.input_width,
                            at |-> t.input_first, pitch |-> Pooled.input_width]
              ELSE [rows |-> d["height"], columns |-> d["width"], at |-> 0, pitch |-> d["width"]]
        out == IF pool THEN [rows |-> Pooled.output_height, columns |-> t.output_width,
                             at |-> t.output_first, pitch |-> Pooled.output_width]
               ELSE in
    IN  /\ ReadsBack(program)
        /\ \A g \in {InputCube, OutputCube} :
             ProgrammedChannels * ElementBytes = packed_surfaces(g) * 16
        /\ \A row \in {0, in.rows - 1}, column \in {0, in.columns - 1},
              block \in {0, packed_surfaces(InputCube) - 1} :
             InCube(ReadAddress(row, column, block), InputCube,
                    row * in.pitch + in.at + column, block)
        /\ \A row \in {0, out.rows - 1}, column \in {0, out.columns - 1},
              block \in {0, packed_surfaces(OutputCube) - 1} :
             InCube(WriteAddress(row, column, block), OutputCube,
                    row * out.pitch + out.at + column, block)

(* What the boundary tests of the builders cover.  A pool: every tile's    *)
(* input within the measured width, no window wholly in the padding, an    *)
(* fp16 average of two or more.  The rest: extents and shifts the          *)
(* registers can name.                                                     *)
Measured ==
  CASE exec.kernel = "pooling" ->
         LET s == Pooled
             widest == div_ceil(s.output_width, tile_count(s))
                         + Flag(avoid_equal_int8_k2_tiles(s))
         IN  /\ (widest - 1) * s.stride_x + s.kernel_width <= direct_width_limits(s)[1]
             /\ s.pad_left < s.kernel_width /\ s.pad_right < s.kernel_width
             /\ s.pad_top < s.kernel_height /\ s.pad_bottom < s.kernel_height
             /\ (s.method = "avg" /\ s.precision = "fp16") =>
                  s.kernel_width > 1 /\ s.kernel_height > 1
    [] Elementwise(exec.kernel) ->
         /\ \A n \in DimNames(exec.kernel) : resolved.dims[n] <= 8192
         /\ exec.kernel = "elementwise_lut" =>
              /\ bn_scale_k(exec.op)[2] + exec.scales[1] \in -49..14
              /\ exec.scales[3] >= -29

(* A dispatch inside that class is never one the builders assert about:    *)
(* `dispatch` is entered from C, where a panic ends the process.           *)
MeasuredNeverPanics == status = "panic" => ~Measured

(* A pool the compiler's matchers admit is planned at every width:         *)
(* rocket_conv2d_transform_spec.mlir says of them "Wider images are not    *)
(* excluded: `PoolingPlan` splits them into tiles the hardware is measured *)
(* to run".                                                                *)
SplitsWide ==
  (status = "panic" /\ exec.kernel = "pooling") =>
    ~(/\ Pooled.precision = "fp16" /\ Unpadded(Pooled)
      /\ Pooled.kernel_width \in 2..8 /\ Pooled.kernel_height \in 2..8
      /\ \/ <<Pooled.stride_x, Pooled.stride_y>> = <<1, 1>>
         \/ <<Pooled.stride_x, Pooled.stride_y>> = <<2, 2>> /\ Pooled.method # "avg")
=============================================================================
