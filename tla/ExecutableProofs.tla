-------------------------- MODULE ExecutableProofs --------------------------
(* The life of an executable proved for every target, foreign file, call    *)
(* and scratch address: the inductive invariant of Executable, and from it   *)
(* the agreement of the compiler and the runtime, the meaning of what a      *)
(* dispatch resolves, the windows of a pool's tiles and the addresses a      *)
(* program reads and writes.                                                 *)
EXTENDS Executable, FiniteSetTheorems, WellFoundedInduction, TLAPS
-----------------------------------------------------------------------------
(* The code of a listed name is its position, counted from zero.           *)
LEMMA CodeOf ==
  ASSUME NEW names, DOMAIN names \subseteq Nat, NEW name \in Listed(names)
  PROVE  /\ Code(names, name) \in Int /\ Code(names, name) + 1 \in DOMAIN names
         /\ names[Code(names, name) + 1] = name
<1> DEFINE c == CHOOSE i \in DOMAIN names : names[i] = name
<1>1. PICK i \in DOMAIN names : names[i] = name
  BY DEF Listed
<1>2. c \in DOMAIN names /\ names[c] = name
  BY <1>1
<1>3. Code(names, name) = c - 1
  BY DEF Code
<1> HIDE DEF c
<1> QED BY <1>2, <1>3

(* Reading a code back through the same list gives the name.               *)
LEMMA NamedIs ==
  ASSUME NEW names, DOMAIN names \subseteq Nat, NEW name \in Listed(names)
  PROVE  Named(Code(names, name), names) = name
  BY CodeOf DEF Named

(* The name lists are short, and start at one.                             *)
LEMMA Domains == \A k \in Kernels : DOMAIN DimensionsOf(k) \subseteq 1..8 /\ DOMAIN OpsOf(k) \subseteq 1..9
  BY DEF DimensionsOf, OpsOf, Kernels

(* decode_dimension reads a dimension's code back.                         *)
LEMMA DimensionNamed == ASSUME NEW k \in Kernels, NEW n \in DimNames(k)
  PROVE  decode_dimension(k, Code(DimensionsOf(k), n)) = n
<1> DEFINE s == DimensionsOf(k)
           c == Code(s, n)
<1>1. n \in Listed(s) /\ n # RETIRED /\ DOMAIN s \subseteq Nat
  BY Domains DEF DimNames, Listed
<1>2. CASE k = "conv2d"
  <2>2. s = <<"input_width", "input_height", "input_channels", RETIRED, RETIRED,
                              "output_channels", "weights_width", "weights_height">>
    BY <1>2 DEF DimensionsOf
  <2>3. DOMAIN s = 1..8
    BY <2>2
  <2>4. c \in Int /\ c + 1 \in 1..8 /\ s[c + 1] = n
    <3> HIDE DEF s
    <3> QED  BY <1>1, <2>3, CodeOf
  <2>5. c \in 0..7
    <3> HIDE DEF c
    <3> QED  BY <2>4
  <2>6. decode_dimension(k, c) = n
    <3> HIDE DEF c
    <3> QED  BY <1>1, <1>2, <2>2, <2>4, <2>5 DEF decode_dimension
  <2> QED BY <2>6
<1>3. CASE k # "conv2d"
  <2>1. Named(c, s) = n
    BY <1>1, NamedIs
  <2>2. decode_dimension(k, c) = Named(c, s)
    BY <1>3 DEF decode_dimension, DimensionsOf, Kernels
  <2> QED BY <2>1, <2>2
<1> QED BY <1>2, <1>3

(* decode_op reads an operation's code back.                               *)
LEMMA OpNamed == ASSUME NEW k \in Kernels, NEW op \in Listed(OpsOf(k))
  PROVE  decode_op(k, Code(OpsOf(k), op)) = op
<1>1. Named(Code(OpsOf(k), op), OpsOf(k)) = op
  BY Domains, NamedIs
<1>2. CASE k \in {"pooling", "elementwise_unary", "elementwise_binary", "elementwise_lut"}
  BY <1>1, <1>2 DEF decode_op, OpsOf
<1>3. CASE k \in {"conv2d", "matmul", "fully_connected"}
  BY <1>3 DEF decode_op, OpsOf, Listed
<1> QED BY <1>2, <1>3 DEF Kernels

(* The codes of the short lists, one by one.                               *)
LEMMA SmallCodes ==
  /\ Code(WirePrecisions, "int8") = 0 /\ Code(WirePrecisions, "fp16") = 1 /\ Code(WirePrecisions, "int8acc") = 2
  /\ Code(Activations, "none") = 0 /\ Code(Activations, "relu") = 1 /\ Code(Activations, "relux") = 2
  /\ Code(QuantParams, "output_scale") = 0 /\ Code(QuantParams, "input_zero_point") = 1 /\ Code(QuantParams, "output_zero_point") = 2
<1>1. \A x, y, z : x # y /\ y # z /\ x # z => Code(<<x,y,z>>, x) = 0 /\ Code(<<x,y,z>>, y) = 1 /\ Code(<<x,y,z>>, z) = 2
  <2> SUFFICES ASSUME NEW x, NEW y, NEW z, x # y /\ y # z /\ x # z PROVE Code(<<x,y,z>>, x) = 0 /\ Code(<<x,y,z>>, y) = 1 /\ Code(<<x,y,z>>, z) = 2
   OBVIOUS
  <2> DEFINE s == <<x, y, z>>
  <2>1. DOMAIN s = 1..3 /\ s[1] = x /\ s[2] = y /\ s[3] = z
    OBVIOUS
  <2> HIDE DEF s
  <2>2. x \in Listed(s) /\ y \in Listed(s) /\ z \in Listed(s) /\ DOMAIN s \subseteq Nat
    BY <2>1 DEF Listed
  <2>3. \A w \in Listed(s) : Code(s, w) \in Int /\ Code(s, w) + 1 \in 1..3 /\ s[Code(s, w) + 1] = w
    BY <2>1, <2>2, CodeOf
  <2>4. \A i \in Int : i + 1 \in 1..3 => i \in {0, 1, 2}
    OBVIOUS
  <2> QED  BY <2>1, <2>2, <2>3, <2>4 DEF s
<1> QED BY <1>1 DEF WirePrecisions, Activations, QuantParams

Faithful(e, t) ==
  /\ e.kernel = IF t.kernel = "fully_connected" THEN "matmul" ELSE t.kernel
  /\ e.dims = t.dims /\ e.out = t.out /\ e.pads = t.pads /\ e.zps = t.zps
  /\ e.scales = t.scales /\ e.operand = t.operand
  /\ e.layout = t.layout /\ e.dense_readers = t.dense_readers
  /\ e.runtime = t.runtime /\ e.quant = t.quant
  /\ e.activation = t.activation /\ e.epilogue = t.epilogue /\ e.op = t.op

(* What the serializer checked of the names a dispatch supplies.           *)
LEMMA ParsedRuntime ==
  ASSUME NEW t, IsTarget(t), Parses(t)
  PROVE  /\ Listed(t.runtime) \subseteq DimNames(t.kernel) /\ Distinct(t.runtime)
         /\ \A n \in DimNames(t.kernel) : (n \in Listed(t.runtime)) <=> (t.dims[n] = 0)
<1>1. CASE t.kernel # "fully_connected"
  <2>1. DimensionsParse(t)
    BY <1>1 DEF Parses, IsTarget, Kernels, Conv2dParses, PoolingParses, MatmulParses, UnaryParses,
                BinaryParses, LutParses
  <2> QED  BY <2>1 DEF DimensionsParse
<1>2. CASE t.kernel = "fully_connected"
  <2>1. t.runtime = <<>> /\ \A n \in DimNames(t.kernel) : t.dims[n] # 0
    BY <1>2 DEF Parses, IsTarget, FullyConnectedParses
  <2>2. Listed(t.runtime) = {}
    BY <2>1 DEF Listed
  <2>3. Cardinality({}) = 0 /\ Len(t.runtime) = 0
    BY <2>1, FS_EmptySet
  <2> QED  BY <2>1, <2>2, <2>3 DEF Distinct
<1> QED  BY <1>1, <1>2

(* A parsed target survives the file: every field decodes to itself.       *)
LEMMA ParsedFaithful ==
  ASSUME NEW t, IsTarget(t), Parses(t)
  PROVE  Faithful(decode_flatbuffer_shape(Encode(t)), t)
<1> DEFINE f == Encode(t)
           e == decode_flatbuffer_shape(f)
           k == t.kernel
<1>1. k \in Kernels /\ t.runtime \in Seq(STRING) /\ t.quant \in Seq(Listed(QuantParams))
      /\ t.activation \in Listed(Activations) /\ t.epilogue \in Listed(Activations)
      /\ t.op \in Listed(OpsOf(k)) /\ (k = "fully_connected" => t.runtime = <<>> /\ t.layout = FALSE /\ t.dense_readers = FALSE)
      /\ (k # "conv2d" => t.quant = <<>>)
      /\ (k \notin {"conv2d", "matmul", "fully_connected"} => t.activation = "none")
      /\ t.layout \in BOOLEAN /\ t.dense_readers \in BOOLEAN
  BY DEF IsTarget, Trailing, Shaped
<1>2. /\ f.kernel = k /\ f.dims = t.dims /\ f.out = t.out /\ f.pads = t.pads /\ f.zps = t.zps
      /\ f.scales = t.scales /\ f.operand = t.operand
      /\ f.layout = t.layout /\ f.dense_readers = t.dense_readers
      /\ f.runtime = [i \in DOMAIN t.runtime |-> Code(DimensionsOf(t.kernel), t.runtime[i])]
      /\ f.quant = [i \in DOMAIN t.quant |-> Code(QuantParams, t.quant[i])]
      /\ f.activation = Code(Activations, t.activation) /\ f.epilogue = Code(Activations, t.epilogue)
      /\ f.op = Code(OpsOf(k), t.op)
  BY DEF Encode
<1>3. \A a \in Listed(Activations) : decode_activation(Code(Activations, a)) = a
  <2>1. Listed(Activations) = {"none", "relu", "relux"}
    BY DEF Listed, Activations
  <2> QED  BY <2>1, SmallCodes DEF decode_activation
<1>4. \A q \in Listed(QuantParams) : decode_quant_param(Code(QuantParams, q)) = q
  <2>1. Listed(QuantParams) = {"output_scale", "input_zero_point", "output_zero_point"}
    BY DEF Listed, QuantParams
  <2> QED  BY <2>1, SmallCodes DEF decode_quant_param
<1>5. decode_op(k, f.op) = t.op
  BY <1>1, <1>2, OpNamed
<1>6. [i \in DOMAIN f.quant |-> decode_quant_param(f.quant[i])] = t.quant
  <2>1. \A i \in DOMAIN t.quant : t.quant[i] \in Listed(QuantParams)
    BY <1>1
  <2>2. DOMAIN f.quant = DOMAIN t.quant /\ \A i \in DOMAIN t.quant : f.quant[i] = Code(QuantParams, t.quant[i])
    BY <1>2
  <2>3. \A i \in DOMAIN t.quant : decode_quant_param(f.quant[i]) = t.quant[i]
    BY <2>1, <2>2, <1>4
  <2>4. t.quant = [i \in DOMAIN t.quant |-> t.quant[i]]
    BY <1>1
  <2> HIDE DEF f
  <2> QED  BY <2>2, <2>3, <2>4
<1>7. [i \in DOMAIN f.runtime |-> decode_dimension(f.kernel, f.runtime[i])] = t.runtime
  <2>1. \A i \in DOMAIN t.runtime : t.runtime[i] \in DimNames(k)
    BY ParsedRuntime DEF Listed
  <2>2. DOMAIN f.runtime = DOMAIN t.runtime
        /\ \A i \in DOMAIN t.runtime : f.runtime[i] = Code(DimensionsOf(k), t.runtime[i])
    BY <1>2
  <2>3. \A i \in DOMAIN t.runtime : decode_dimension(k, f.runtime[i]) = t.runtime[i]
    BY <1>1, <2>1, <2>2, DimensionNamed
  <2>4. t.runtime = [i \in DOMAIN t.runtime |-> t.runtime[i]]
    BY <1>1
  <2>5. f.kernel = k
    BY <1>2
  <2> HIDE DEF f, k
  <2> QED  BY <2>2, <2>3, <2>4, <2>5
<1>8. e.kernel = (IF k = "fully_connected" THEN "matmul" ELSE k)
      /\ e.dims = f.dims /\ e.out = f.out /\ e.pads = f.pads /\ e.zps = f.zps
      /\ e.scales = f.scales /\ e.operand = f.operand
      /\ e.layout = (k # "fully_connected" /\ f.layout) 
      /\ e.dense_readers = (k # "fully_connected" /\ f.dense_readers)
      /\ e.runtime = (IF k = "fully_connected" THEN <<>>
                  ELSE [i \in DOMAIN f.runtime |-> decode_dimension(f.kernel, f.runtime[i])])
      /\ e.quant = (IF k = "conv2d" THEN [i \in DOMAIN f.quant |-> decode_quant_param(f.quant[i])] ELSE <<>>)
      /\ e.op = decode_op(k, f.op)
  <2> HIDE DEF f
  <2> QED  BY <1>2 DEF decode_flatbuffer_shape
<1>9. e.activation = t.activation
  <2>1. e.activation = IF k \in {"conv2d", "matmul", "fully_connected"} THEN decode_activation(f.activation) ELSE "none"
    <3> HIDE DEF f
    <3> QED  BY <1>2 DEF decode_flatbuffer_shape
  <2> QED  BY <2>1, <1>1, <1>2, <1>3
<1>10. e.epilogue = t.epilogue
  <2>1. e.epilogue = IF k = "conv2d" /\ f.epilogue \notin {0, 1} THEN UNKNOWN ELSE decode_activation(f.epilogue)
    <3> HIDE DEF f
    <3> QED  BY <1>2 DEF decode_flatbuffer_shape
  <2>2. k = "conv2d" => t.epilogue \in {"none", "relu"}
    BY DEF Parses, Conv2dParses
  <2>3. k = "conv2d" => f.epilogue \in {0, 1}
    BY <2>2, <1>2, SmallCodes
  <2>4. decode_activation(f.epilogue) = t.epilogue
    BY <1>1, <1>2, <1>3
  <2> HIDE DEF f, e
  <2> QED  BY <2>1, <2>3, <2>4
<1>11. Faithful(e, t)
  <2> HIDE DEF e, f
  <2> QED  BY <1>1, <1>2, <1>5, <1>6, <1>7, <1>8, <1>9, <1>10 DEF Faithful
<1> QED  BY <1>11

(* The precision survives the file unless the runtime alone refuses the scales. *)
LEMMA PrecisionKept ==
  ASSUME NEW t, IsTarget(t), Parses(t)
  PROVE  LET e == decode_flatbuffer_shape(Encode(t))
         IN  e.precision \in {t.precision, UNKNOWN} /\ (~RuntimeOnly(t) => e.precision = t.precision)
<1> DEFINE f == Encode(t)
           e == decode_flatbuffer_shape(f)
           k == t.kernel
           quant == [i \in DOMAIN f.quant |-> decode_quant_param(f.quant[i])]
           runtime_scale == "output_scale" \in Listed(t.quant)
           out == IF runtime_scale THEN 0 ELSE t.scales[3]
           ratio == t.scales[1] + t.scales[2] - out
<1>1. /\ k \in Kernels /\ t.precision \in {"int8", "fp16", "int8acc"}
      /\ (Elementwise(k) => t.precision = IF k = "elementwise_lut" THEN "int8" ELSE "fp16")
      /\ (k # "conv2d" => t.quant = <<>>)
  BY DEF IsTarget, WirePrecisions, Listed
<1>2. /\ f.kernel = k /\ f.precision = Code(WirePrecisions, t.precision) /\ f.scales = t.scales
      /\ f.zps = t.zps
  BY DEF Encode
<1>3. Faithful(e, t)
  BY ParsedFaithful
<1>4. CASE k \in {"conv2d", "matmul", "fully_connected"}
  <2>1. e.precision = decode_precision(f, "output_scale" \in Listed(quant))
    <3> HIDE DEF f
    <3> QED  BY <1>2, <1>4 DEF decode_flatbuffer_shape, Elementwise
  <2>2. ("output_scale" \in Listed(quant)) = runtime_scale
    <3>1. CASE k = "conv2d"
      <4>1. e.quant = quant
        <5> HIDE DEF f
        <5> QED  BY <1>2, <3>1 DEF decode_flatbuffer_shape
      <4>2. e.quant = t.quant
        BY <1>3 DEF Faithful
      <4> QED  BY <4>1, <4>2
    <3>2. CASE k # "conv2d"
      <4>1. t.quant = <<>> /\ f.quant = [i \in DOMAIN t.quant |-> Code(QuantParams, t.quant[i])]
        BY <1>1, <3>2 DEF Encode
      <4>2. DOMAIN f.quant = {}
        <5> HIDE DEF f
        <5> QED  BY <4>1
      <4>3. Listed(quant) = {} /\ Listed(t.quant) = {}
        <5> HIDE DEF f
        <5> QED  BY <4>1, <4>2 DEF Listed
      <4> QED  BY <4>3
    <3> QED  BY <3>1, <3>2
  <2>3. decode_precision(f, runtime_scale)
          = LET Quantizes == /\ PositiveFinite(t.scales[1]) /\ PositiveFinite(t.scales[2])
                             /\ PositiveFinite(out) /\ try_from_ratio(ratio)
            IN  CASE f.precision = 0 -> IF Quantizes THEN "int8" ELSE UNKNOWN
                  [] f.precision = 1 -> "fp16"
                  [] f.precision = 2 -> IF Quantizes /\ t.zps = <<0, 0, 0>> THEN "int8acc" ELSE UNKNOWN
                  [] OTHER -> UNKNOWN
    <3> HIDE DEF f
    <3> QED  BY <1>2 DEF decode_precision
  <2>4. t.precision = "int8acc" => t.zps = <<0, 0, 0>>
    BY <1>4 DEF Parses, Conv2dParses, MatmulParses, FullyConnectedParses
  <2>5. ~RuntimeOnly(t) => t.precision = "fp16" \/
           (PositiveFinite(t.scales[1]) /\ PositiveFinite(t.scales[2]) /\ PositiveFinite(out) /\ ratio \in -49..14)
    BY <1>4 DEF RuntimeOnly
  <2>6. ratio \in -49..14 => try_from_ratio(ratio)
    <3> HIDE DEF ratio
    <3> QED  BY DEF try_from_ratio
  <2> DEFINE Q == PositiveFinite(t.scales[1]) /\ PositiveFinite(t.scales[2]) /\ PositiveFinite(out)
                    /\ try_from_ratio(ratio)
  <2>7. ~RuntimeOnly(t) => t.precision = "fp16" \/ Q
    BY <2>5, <2>6
  <2>8. e.precision = CASE f.precision = 0 -> IF Q THEN "int8" ELSE UNKNOWN
                  [] f.precision = 1 -> "fp16"
                  [] f.precision = 2 -> IF Q /\ t.zps = <<0, 0, 0>> THEN "int8acc" ELSE UNKNOWN
                  [] OTHER -> UNKNOWN
    BY <2>1, <2>2, <2>3
  <2>9. f.precision = IF t.precision = "int8" THEN 0 ELSE IF t.precision = "fp16" THEN 1 ELSE 2
    BY <1>1, <1>2, SmallCodes
  <2>10. e.precision \in {t.precision, UNKNOWN} /\ (~RuntimeOnly(t) => e.precision = t.precision)
    <3> HIDE DEF e, f, Q
    <3> QED  BY <1>1, <2>4, <2>7, <2>8, <2>9
  <2> QED  BY <2>10
<1>5. CASE k = "pooling"
  <2>1. t.precision \in {"int8", "fp16"}
    BY <1>5 DEF Parses, PoolingParses
  <2>2. e.precision = decode_pool_precision(f.precision)
    <3> HIDE DEF f
    <3> QED  BY <1>2, <1>5 DEF decode_flatbuffer_shape, Elementwise
  <2>3. e.precision = t.precision
    <3> HIDE DEF e
    <3> QED  BY <1>2, <2>1, <2>2, SmallCodes DEF decode_pool_precision
  <2> QED  BY <2>3
<1>6. CASE Elementwise(k)
  <2>1. e.precision = IF k = "elementwise_lut" THEN "int8" ELSE "fp16"
    <3> HIDE DEF f
    <3> QED  BY <1>2, <1>6 DEF decode_flatbuffer_shape
  <2> QED  BY <1>1, <1>6, <2>1
<1> QED  BY <1>1, <1>4, <1>5, <1>6 DEF Kernels, Elementwise

(* What the runtime refuses of what the compiler wrote is what RuntimeOnly says. *)
LEMMA Agreement ==
  ASSUME NEW t, IsTarget(t), Parses(t), ~RuntimeOnly(t)
  PROVE  Decodes(Encode(t)) /\ validate_template(decode_flatbuffer_shape(Encode(t)))
<1> DEFINE f == Encode(t)
           e == decode_flatbuffer_shape(f)
           k == t.kernel
<1>1. /\ k \in Kernels /\ t.precision \in {"int8", "fp16", "int8acc"} /\ t.runtime \in Seq(STRING)
      /\ t.quant \in Seq(Listed(QuantParams)) /\ t.activation \in Listed(Activations)
      /\ t.epilogue \in Listed(Activations) /\ t.op \in Listed(OpsOf(k)) /\ Shaped(t)
      /\ (k # "conv2d" => t.quant = <<>>)
      /\ (k = "fully_connected" => t.runtime = <<>> /\ ~Trailing(t))
  BY DEF IsTarget, WirePrecisions, Listed
<1>2. Faithful(e, t) /\ e.precision = t.precision
  BY ParsedFaithful, PrecisionKept
<1>3. f.header /\ f.exports = 1
  BY DEF Encode
<1> HIDE DEF e, f
<1>4. Listed(t.runtime) \subseteq DimNames(k) /\ Distinct(t.runtime)
         /\ \A n \in DimNames(k) : (n \in Listed(t.runtime)) <=> (t.dims[n] = 0)
  BY ParsedRuntime
<1>5. Decodes(f)
  <2>1. UNKNOWN \notin Listed(e.runtime)
    <3>1. \A q \in Kernels : UNKNOWN \notin DimNames(q)
      BY DEF UNKNOWN, DimNames, DimensionsOf, Kernels, RETIRED
    <3> QED  BY <1>1, <1>2, <1>4, <3>1 DEF Faithful
  <2>2. UNKNOWN \notin Listed(e.quant)
    <3>1. UNKNOWN \notin Listed(QuantParams)
      BY DEF UNKNOWN, Listed, QuantParams
    <3>2. Listed(t.quant) \subseteq Listed(QuantParams)
      BY <1>1 DEF Listed
    <3> QED  BY <1>2, <3>1, <3>2 DEF Faithful
  <2>3. UNKNOWN \notin {e.precision, e.activation, e.epilogue}
    BY <1>1, <1>2 DEF UNKNOWN, Faithful, Listed, Activations
  <2>4. UNKNOWN # e.op
    BY <1>1, <1>2 DEF UNKNOWN, Faithful, Listed, OpsOf, Kernels
  <2>5. e.kernel = "matmul" => e.precision # "int8acc"
    <3>1. k \in {"matmul", "fully_connected"} => t.precision # "int8acc"
      BY DEF Parses, MatmulParses, FullyConnectedParses
    <3> QED  BY <1>1, <1>2, <3>1 DEF Faithful
  <2> QED  BY <1>3, <2>1, <2>2, <2>3, <2>4, <2>5 DEF Decodes, e
<1>6. TemplateRule(e)
  <2>1. DimNames(e.kernel) = DimNames(k)
    BY <1>1, <1>2 DEF Faithful, DimNames, DimensionsOf
  <2>2. \A i \in DOMAIN e.runtime : e.dims[e.runtime[i]] = 0
    BY <1>2, <1>4 DEF Faithful, Listed
  <2> QED  BY <1>2, <1>4, <2>1, <2>2 DEF Faithful, TemplateRule
<1>7. e.kernel = "conv2d" => QuantRule(e)
  <2>1. k = "conv2d" => Conv2dParses(t)
    BY DEF Parses
  <2> QED  BY <1>1, <1>2, <2>1 DEF Faithful, QuantRule, Conv2dParses
<1>8. e.kernel = "matmul" => StaticResolves(e)
  <2>1. k \in {"matmul", "fully_connected"} => ~(t.runtime = <<>> /\ t.quant = <<>>)
    BY DEF RuntimeOnly
  <2> QED  BY <1>1, <1>2, <2>1 DEF Faithful, StaticResolves
<1>9. e.kernel = "pooling" => PoolingTemplate(e)
  <2> SUFFICES ASSUME k = "pooling" PROVE PoolingTemplate(e)
    BY <1>2 DEF Faithful
  <2>1. ~(t.pads # <<0, 0, 0, 0>> /\ t.op # "avg" /\ ~(t.op = "max" /\ t.precision = "fp16"))
        /\ ~(t.runtime = <<>> /\ (Trailing(t) \/ ~PoolingResolves(t, PoolingShapeOf(t, t.dims))))
    BY DEF RuntimeOnly
  <2>2. PadFillOf(e) # NOT_MEASURED
    <3>1. PadFillOf(e) = required_pad_fill([pad_left |-> t.pads[1], pad_top |-> t.pads[2], pad_right |-> t.pads[3],
                     pad_bottom |-> t.pads[4], method |-> t.op, precision |-> t.precision])
      BY <1>2 DEF Faithful, PadFillOf
    <3>2. CASE t.pads = <<0, 0, 0, 0>>
      BY <3>1, <3>2 DEF required_pad_fill, Unpadded, NOT_MEASURED
    <3>3. CASE t.op = "avg" \/ (t.op = "max" /\ t.precision = "fp16")
      BY <3>1, <3>3 DEF required_pad_fill, pad_fill_value, NOT_MEASURED
    <3> QED  BY <2>1, <3>2, <3>3
  <2>3. PadFillOf(e) = PadFillOf(t)
    BY <1>2 DEF Faithful, PadFillOf
  <2>4. PoolingShapeOf(e, e.dims) = PoolingShapeOf(t, t.dims)
    BY <1>2, <2>3 DEF Faithful, PoolingShapeOf
  <2>5. e.runtime = <<>> => ~Trailing(e) /\ PoolingResolves(e, PoolingShapeOf(e, e.dims))
    BY <1>2, <2>1, <2>4 DEF Faithful, Trailing, PoolingResolves
  <2> QED  BY <2>2, <2>5 DEF PoolingTemplate, StaticResolves
<1>10. e.kernel = "elementwise_unary" => UnaryTemplate(e)
  BY <1>2 DEF Faithful, UnaryTemplate, Parses, UnaryParses
<1>11. e.kernel = "elementwise_lut" => LutTemplate(e)
  <2> SUFFICES ASSUME k = "elementwise_lut" PROVE LutTemplate(e)
    BY <1>2 DEF Faithful
  <2>1. LutParses(t) /\ INFINITE_SCALE \notin {t.scales[1], t.scales[3]}
    BY DEF Parses, RuntimeOnly
  <2> QED  BY <1>2, <2>1 DEF Faithful, LutTemplate, LutParses
<1> QED  BY <1>5, <1>6, <1>7, <1>8, <1>9, <1>10, <1>11 DEF validate_template, e, f

(* A file the compiler wrote is a table with a known shape.                *)
LEMMA EncodedTable ==
  ASSUME NEW t, IsTarget(t), Parses(t)
  PROVE  IsTable(Encode(t))
<1> DEFINE f == Encode(t)
           k == t.kernel
<1>1. \A s, x : (DOMAIN s \subseteq Nat \ {0} /\ x \in Listed(s)) => Code(s, x) \in Nat
  <2> SUFFICES ASSUME NEW s, NEW x, DOMAIN s \subseteq Nat \ {0}, x \in Listed(s) PROVE Code(s, x) \in Nat
    OBVIOUS
  <2>1. Code(s, x) \in Int /\ Code(s, x) + 1 \in Nat \ {0}
    BY CodeOf
  <2> QED  BY <2>1
<1>2. /\ k \in Kernels /\ Shaped(t) /\ t.runtime \in Seq(STRING) /\ t.quant \in Seq(Listed(QuantParams))
      /\ t.precision \in Listed(WirePrecisions) /\ t.op \in Listed(OpsOf(k))
      /\ t.activation \in Listed(Activations) /\ t.epilogue \in Listed(Activations)
  BY DEF IsTarget
<1>3. /\ DOMAIN WirePrecisions \subseteq Nat \ {0} /\ DOMAIN Activations \subseteq Nat \ {0}
      /\ DOMAIN QuantParams \subseteq Nat \ {0}
  BY DEF WirePrecisions, Activations, QuantParams
<1>4. DOMAIN OpsOf(k) \subseteq Nat \ {0} /\ DOMAIN DimensionsOf(k) \subseteq Nat \ {0}
  BY <1>2, Domains
<1>5. {Code(WirePrecisions, t.precision), Code(Activations, t.activation),
       Code(Activations, t.epilogue), Code(OpsOf(k), t.op)} \subseteq Nat
  BY <1>1, <1>2, <1>3, <1>4
<1>6. \A i \in DOMAIN t.runtime : Code(DimensionsOf(k), t.runtime[i]) \in Nat
  <2>1. \A i \in DOMAIN t.runtime : t.runtime[i] \in Listed(DimensionsOf(k))
    BY ParsedRuntime DEF Listed, DimNames
  <2> QED  BY <1>1, <1>4, <2>1
<1>7. \A i \in DOMAIN t.quant : Code(QuantParams, t.quant[i]) \in Nat
  BY <1>1, <1>2, <1>3
<1>8. f.runtime \in Seq(Nat) /\ f.quant \in Seq(Nat)
  <2>1. f.runtime = [i \in DOMAIN t.runtime |-> Code(DimensionsOf(k), t.runtime[i])]
        /\ f.quant = [i \in DOMAIN t.quant |-> Code(QuantParams, t.quant[i])]
    BY DEF Encode
  <2>2. DOMAIN t.runtime = 1..Len(t.runtime) /\ Len(t.runtime) \in Nat
        /\ DOMAIN t.quant = 1..Len(t.quant) /\ Len(t.quant) \in Nat
    BY <1>2
  <2> HIDE DEF f
  <2> QED  BY <1>6, <1>7, <2>1, <2>2
<1>9. /\ f.kernel = k /\ f.dims = t.dims /\ f.out = t.out /\ f.pads = t.pads /\ f.zps = t.zps
      /\ f.scales = t.scales /\ f.operand = t.operand
      /\ f.layout = t.layout /\ f.dense_readers = t.dense_readers
      /\ f.precision = Code(WirePrecisions, t.precision)
      /\ f.activation = Code(Activations, t.activation) /\ f.epilogue = Code(Activations, t.epilogue)
      /\ f.op = Code(OpsOf(k), t.op)
  BY DEF Encode
<1>10. IsTable(f)
  <2> HIDE DEF f
  <2> QED  BY <1>2, <1>5, <1>8, <1>9 DEF IsTable, Shaped
<1> QED  BY <1>10

(* What prepare_executable creates from a table. *)
Prepared(e) ==
  /\ e.kernel \in Kernels \ {"fully_connected"} /\ Shaped(e)
  /\ e.runtime \in Seq(DimNames(e.kernel)) /\ e.quant \in Seq(Listed(QuantParams))
  /\ e.precision # UNKNOWN /\ e.op # UNKNOWN
  /\ validate_template(e)

(* What prepare_executable keeps of any table is a prepared executable.    *)
LEMMA TablePrepared ==
  ASSUME NEW f, IsTable(f), Decodes(f), validate_template(decode_flatbuffer_shape(f))
  PROVE  Prepared(decode_flatbuffer_shape(f))
<1> DEFINE e == decode_flatbuffer_shape(f)
           k == f.kernel
<1>1. /\ k \in Kernels /\ Shaped(f) /\ f.runtime \in Seq(Nat) /\ f.quant \in Seq(Nat)
  BY DEF IsTable
<1>2. /\ UNKNOWN \notin Listed(e.runtime) /\ UNKNOWN \notin Listed(e.quant) /\ e.precision # UNKNOWN
      /\ e.op # UNKNOWN
  BY DEF Decodes
<1>3. /\ e.kernel = (IF k = "fully_connected" THEN "matmul" ELSE k)
      /\ e.dims = f.dims /\ e.out = f.out /\ e.pads = f.pads /\ e.zps = f.zps
      /\ e.scales = f.scales /\ e.operand = f.operand
      /\ e.layout \in BOOLEAN /\ e.dense_readers \in BOOLEAN
      /\ e.runtime = (IF k = "fully_connected" THEN <<>>
                  ELSE [i \in DOMAIN f.runtime |-> decode_dimension(f.kernel, f.runtime[i])])
      /\ e.quant = (IF k = "conv2d" THEN [i \in DOMAIN f.quant |-> decode_quant_param(f.quant[i])] ELSE <<>>)
  BY DEF decode_flatbuffer_shape
<1> HIDE DEF e
<1>4. DimNames(e.kernel) = DimNames(k) /\ e.kernel \in Kernels \ {"fully_connected"}
  BY <1>1, <1>3 DEF DimNames, DimensionsOf, Kernels
<1>5. Shaped(e)
  BY <1>1, <1>3, <1>4 DEF Shaped
<1>6. e.runtime \in Seq(DimNames(e.kernel))
  <2>1. CASE k = "fully_connected"
    BY <1>3, <2>1
  <2>2. CASE k # "fully_connected"
    <3>1. \A c \in Nat : decode_dimension(k, c) \in DimNames(k) \cup {UNKNOWN}
      <4>1. ASSUME NEW names, DOMAIN names \subseteq Nat, NEW c \in Nat
            PROVE  Named(c, names) \in Listed(names) \cup {UNKNOWN}
        BY DEF Named, Listed
      <4>2. CASE k = "conv2d"
        <5> USE <4>2
        <5>1. {"input_width", "input_height", "input_channels", "output_channels", "weights_width",
               "weights_height"} \subseteq DimNames(k)
          <6> DEFINE q == DimensionsOf(k)
          <6>1. DOMAIN q = 1..8 /\ q[1] = "input_width" /\ q[2] = "input_height" /\ q[3] = "input_channels"
                /\ q[6] = "output_channels" /\ q[7] = "weights_width" /\ q[8] = "weights_height"
            BY DEF DimensionsOf
          <6> HIDE DEF q
          <6> QED  BY <6>1 DEF DimNames, RETIRED, q
        <5> QED  BY <5>1 DEF decode_dimension
      <4>3. CASE k # "conv2d"
        <5>1. DimNames(k) = Listed(DimensionsOf(k))
          <6>1. RETIRED \notin Listed(DimensionsOf(k))
            BY <1>1, <4>3 DEF DimensionsOf, Listed, RETIRED, Kernels
          <6> QED  BY <6>1 DEF DimNames, Listed
        <5>2. \A c \in Nat : decode_dimension(k, c) = Named(c, DimensionsOf(k))
          BY <1>1, <4>3 DEF decode_dimension, DimensionsOf, Kernels
        <5>3. DOMAIN DimensionsOf(k) \subseteq Nat
          BY <1>1, Domains
        <5> HIDE DEF k
        <5> QED  BY <4>1, <5>1, <5>2, <5>3
      <4> QED  BY <4>2, <4>3
    <3>2. e.runtime = [i \in 1..Len(f.runtime) |-> decode_dimension(k, f.runtime[i])]
      BY <1>1, <1>3, <2>2
    <3>3. Len(f.runtime) \in Nat /\ \A i \in 1..Len(f.runtime) : f.runtime[i] \in Nat
      BY <1>1
    <3>4. \A i \in 1..Len(f.runtime) : e.runtime[i] \in DimNames(k)
      <4>1. \A i \in 1..Len(f.runtime) : e.runtime[i] \in DimNames(k) \cup {UNKNOWN}
        BY <3>1, <3>2, <3>3
      <4>2. \A i \in 1..Len(f.runtime) : e.runtime[i] # UNKNOWN
        BY <1>2, <3>2 DEF Listed
      <4> QED  BY <4>1, <4>2
    <3> QED  BY <1>4, <3>2, <3>3, <3>4
  <2> QED  BY <2>1, <2>2
<1>7. e.quant \in Seq(Listed(QuantParams))
  <2>1. CASE k = "conv2d"
    <3>1. \A c \in Nat : decode_quant_param(c) \in Listed(QuantParams) \cup {UNKNOWN}
      <4>1. Listed(QuantParams) = {"output_scale", "input_zero_point", "output_zero_point"}
        BY DEF Listed, QuantParams
      <4> QED  BY <4>1 DEF decode_quant_param
    <3>2. e.quant = [i \in 1..Len(f.quant) |-> decode_quant_param(f.quant[i])]
      BY <1>1, <1>3, <2>1
    <3>3. Len(f.quant) \in Nat /\ \A i \in 1..Len(f.quant) : f.quant[i] \in Nat
      BY <1>1
    <3>4. \A i \in 1..Len(f.quant) : e.quant[i] \in Listed(QuantParams)
      <4>1. \A i \in 1..Len(f.quant) : e.quant[i] \in Listed(QuantParams) \cup {UNKNOWN}
        BY <3>1, <3>2, <3>3
      <4>2. \A i \in 1..Len(f.quant) : e.quant[i] # UNKNOWN
        BY <1>2, <3>2 DEF Listed
      <4> QED  BY <4>1, <4>2
    <3> QED  BY <3>2, <3>3, <3>4
  <2>2. CASE k # "conv2d"
    BY <1>3, <2>2
  <2> QED  BY <2>1, <2>2
<1> QED  BY <1>2, <1>4, <1>5, <1>6, <1>7 DEF Prepared, e

(* Two sequences laid end to end.                                          *)
LEMMA JoinedIs ==
  ASSUME NEW S, NEW a \in Seq(S), NEW b \in Seq(S)
  PROVE  /\ a \o b \in Seq(S) /\ Len(a \o b) = Len(a) + Len(b)
         /\ DOMAIN (a \o b) = 1..(Len(a) + Len(b))
         /\ \A i \in 1..Len(a) : (a \o b)[i] = a[i]
         /\ \A i \in 1..Len(b) : (a \o b)[Len(a) + i] = b[i]
  OBVIOUS

(* The first position of a name, which CHOOSE picks. *)
Position(names, name) == CHOOSE i \in DOMAIN names : names[i] = name

(* The chosen position of a listed name holds that name.                   *)
LEMMA PositionOf ==
  ASSUME NEW S, NEW a \in Seq(S), NEW b \in Seq(S), NEW words \in Seq(Int),
         Len(words) >= Len(a) + Len(b), NEW name \in Listed(a) \cup Listed(b)
  PROVE  LET c == Position(a \o b, name)
         IN  /\ c \in DOMAIN (a \o b) /\ (a \o b)[c] = name /\ c \in DOMAIN words
             /\ c \in DOMAIN a \/ name \in Listed(b)
<1> DEFINE listed == a \o b
           c == Position(listed, name)
           m == Len(a)
           n == Len(b)
<1>1. /\ DOMAIN listed = 1..(m + n)
      /\ \A i \in 1..m : listed[i] = a[i]
      /\ \A i \in 1..n : listed[m + i] = b[i]
  BY JoinedIs
<1>2. /\ m \in Nat /\ n \in Nat /\ DOMAIN a = 1..m /\ DOMAIN b = 1..n
      /\ DOMAIN words = 1..Len(words) /\ Len(words) \in Nat /\ Len(words) >= m + n
  OBVIOUS
<1> HIDE DEF listed, m, n
<1>3. \E i \in DOMAIN listed : listed[i] = name
  <2>1. CASE name \in Listed(a)
    <3>1. PICK i \in 1..m : a[i] = name
      BY <1>2, <2>1 DEF Listed
    <3>2. i \in 1..(m + n)
      BY <1>2
    <3> QED  BY <1>1, <3>1, <3>2
  <2>2. CASE name \in Listed(b)
    <3>1. PICK i \in 1..n : b[i] = name
      BY <1>2, <2>2 DEF Listed
    <3>2. m + i \in 1..(m + n)
      BY <1>2
    <3> QED  BY <1>1, <3>1, <3>2
  <2> QED BY <2>1, <2>2
<1>4. c \in DOMAIN listed /\ listed[c] = name
  BY <1>3 DEF Position
<1> HIDE DEF c
<1>5. c \in DOMAIN a \/ name \in Listed(b)
  <2>1. CASE c <= m
    BY <1>1, <1>2, <1>4, <2>1
  <2>2. CASE c > m
    <3>1. c - m \in 1..n /\ m + (c - m) = c
      BY <1>1, <1>2, <1>4, <2>2
    <3>2. b[c - m] = name
      BY <1>1, <1>4, <3>1
    <3> QED  BY <1>2, <3>1, <3>2 DEF Listed
  <2> QED  BY <1>1, <1>2, <1>4, <2>1, <2>2
<1>6. c \in DOMAIN words
  BY <1>1, <1>2, <1>4
<1> QED  BY <1>4, <1>5, <1>6 DEF c, listed

(* A word stands for the name it was pushed under. *)
LEMMA WordAt ==
  ASSUME NEW e, NEW S, e.runtime \in Seq(S), e.quant \in Seq(S), NEW words, words \in Seq(Int),
         Len(words) = ConstantCount(e), NEW name \in Listed(e.runtime) \cup Listed(e.quant)
  PROVE  \E i \in DOMAIN (e.runtime \o e.quant) :
           /\ (e.runtime \o e.quant)[i] = name /\ WordOf(e, words, name) = words[i]
           /\ i \in DOMAIN words
           /\ i \in DOMAIN e.runtime \/ name \in Listed(e.quant)
<1> DEFINE a == e.runtime
           b == e.quant
           c == Position(a \o b, name)
<1>1. ConstantCount(e) = Len(a) + Len(b) + Flag(Trailing(e)) /\ Flag(Trailing(e)) \in {0, 1}
  BY DEF ConstantCount, Flag
<1>0. a \in Seq(S) /\ b \in Seq(S) /\ words \in Seq(Int) /\ name \in Listed(a) \cup Listed(b)
  OBVIOUS
<1>3. WordOf(e, words, name) = words[c]
  BY DEF WordOf, Position
<1> HIDE DEF a, b
<1>4. Len(words) >= Len(a) + Len(b)
  <2>1. Len(a) \in Nat /\ Len(b) \in Nat
    BY <1>0
  <2> QED  BY <1>1, <2>1
<1>2. /\ c \in DOMAIN (a \o b) /\ (a \o b)[c] = name
      /\ c \in DOMAIN words /\ (c \in DOMAIN a \/ name \in Listed(b))
  BY <1>0, <1>4, PositionOf
<1> HIDE DEF c
<1>5. \E i \in DOMAIN (a \o b) :
           /\ (a \o b)[i] = name /\ WordOf(e, words, name) = words[i]
           /\ i \in DOMAIN words
           /\ i \in DOMAIN a \/ name \in Listed(b)
  BY <1>2, <1>3
<1> QED  BY <1>5 DEF a, b

(* No dimension of a resolved shape is zero. *)
LEMMA DimsResolved ==
  ASSUME NEW e, Prepared(e), NEW d, Pushes(d, e), resolve_shape(e, d.words)
  PROVE  ResolvedDims(e, d.words) \in [DimNames(e.kernel) -> Nat \ {0}]
<1> DEFINE words == d.words
           S == DimNames(e.kernel) \cup Listed(QuantParams)
           D == ResolvedDims(e, words)
<1>1. /\ e.dims \in [DimNames(e.kernel) -> Nat] /\ e.runtime \in Seq(S) /\ e.quant \in Seq(S)
      /\ words \in Seq(Int) /\ Len(words) = ConstantCount(e)
      /\ \A i \in DOMAIN e.runtime : words[i] # 0
      /\ \A i \in DOMAIN e.runtime \cap DOMAIN words : words[i] \in Nat
      /\ \A n \in DimNames(e.kernel) \ Listed(e.runtime) : e.dims[n] # 0
      /\ e.kernel \in Kernels
  BY DEF Prepared, Shaped, Pushes, resolve_shape, ZeroDimension, validate_template, TemplateRule
<1>2. ASSUME NEW n \in DimNames(e.kernel) PROVE D[n] \in Nat \ {0}
  <2>1. D[n] = IF n \in Listed(e.runtime) THEN WordOf(e, words, n) ELSE e.dims[n]
    BY <1>1 DEF ResolvedDims
  <2>2. CASE n \in Listed(e.runtime)
    <3>1. n \notin Listed(e.quant)
      <4>1. Listed(e.quant) \subseteq Listed(QuantParams)
        BY DEF Prepared, Listed
      <4>2. n \notin Listed(QuantParams)
        BY <1>1 DEF Listed, QuantParams, DimNames, DimensionsOf, Kernels, RETIRED
      <4> QED  BY <4>1, <4>2
    <3>2. PICK i \in DOMAIN e.runtime : WordOf(e, words, n) = words[i] /\ i \in DOMAIN words
      <4> HIDE DEF S, words
      <4> QED  BY <1>1, <2>2, <3>1, WordAt
    <3> QED  BY <1>1, <2>1, <2>2, <3>2
  <2>3. CASE n \notin Listed(e.runtime)
    BY <1>1, <2>1, <2>3
  <2> QED  BY <2>2, <2>3
<1>3. D = [n \in DimNames(e.kernel) |-> D[n]]
  BY <1>1 DEF ResolvedDims
<1> HIDE DEF D
<1>4. D \in [DimNames(e.kernel) -> Nat \ {0}]
  BY <1>2, <1>3
<1> QED  BY <1>4 DEF D
-----------------------------------------------------------------------------
(* A record is never NONE.                                                 *)
LEMMA Records ==
  /\ \A t : Encode(t) # NONE
  /\ \A f : decode_flatbuffer_shape(f) # NONE
  /\ \A e, w : ResolvedOf(e, w) # NONE
  BY DEF Encode, decode_flatbuffer_shape, ResolvedOf, NONE

FileInv ==
  /\ target # NONE => target \in Targets
  /\ (target # NONE /\ file # NONE) => Parses(target) /\ file = Encode(target)
  /\ (target = NONE /\ file # NONE) => file \in Foreign
  /\ stage = "none" => target = NONE /\ file = NONE
  /\ stage \notin {"none", "refused"} => file # NONE
  /\ (exec = NONE) <=> (stage \in {"none", "file", "refused"})

Decoded ==
  /\ file.format = "rocket-flatbuffer-v1"
  /\ Decodes(file) /\ exec = decode_flatbuffer_shape(file) /\ validate_template(exec)

ExecInv == exec # NONE => Decoded \/ (target = NONE /\ exec.kernel = "conv2d")

CallInv ==
  /\ (resolved # NONE)
       <=> (stage \in {"resolved", "planned", "bound", "programs", "recorded", "aborted"})
  /\ resolved # NONE =>
       /\ call \in DispatchesOf(Declared) /\ resolve_shape(exec, call.words)
       /\ resolved = ResolvedOf(exec, call.words)
       /\ (exec.kernel \in {"conv2d", "matmul"}) <=> (stage = "planned")

PlanInv ==
  /\ stage \notin {"programs", "recorded", "aborted"} => tiles = NONE /\ next = 1 /\ program = NONE
  /\ stage = "programs" => exec.kernel = "pooling" /\ next \in 1..Len(tiles)
  /\ ((stage = "programs" \/ program # NONE) /\ exec.kernel = "pooling") =>
       /\ tiles = PoolingTiles(Pooled)
       /\ \A i \in DOMAIN tiles : WithinDirectLimits(Pooled, tiles[i])

ProgramInv ==
  program # NONE =>
    /\ FieldsFit(program)
    /\ exec.kernel = "pooling" =>
         /\ next - 1 \in 1..Len(tiles) /\ next \in Nat
         /\ PoolTileAsserts(Pooled, tiles[next - 1], Buffers)
         /\ program = build_pooling_tile_task(Pooled, tiles[next - 1], Buffers)
    /\ exec.kernel = "elementwise_unary" =>
         program = build_unary_regcmd(resolved.dims, exec.op, exec.operand, Buffers)
    /\ exec.kernel = "elementwise_binary" =>
         program = build_add_regcmd(resolved.dims, exec.op, FALSE, Buffers)
    /\ exec.kernel = "elementwise_lut" =>
         program = build_lut_regcmd(LutShapeOf(exec, resolved.dims), exec.op, Buffers)

PoolTaken(i) ==
  LET t == PoolingTiles(Pooled)[i]
  IN  PoolTileAsserts(Pooled, t, Buffers) /\ FieldsFit(build_pooling_tile_task(Pooled, t, Buffers))

PanicInv ==
  status = "panic" =>
    /\ stage = "aborted"
    /\ \/ exec.kernel = "pooling" /\ \E i \in DOMAIN PoolingTiles(Pooled) : ~PoolTaken(i)
       \/ /\ exec.kernel = "elementwise_unary"
          /\ ~(/\ UnaryAsserts(exec.op, exec.operand)
               /\ FieldsFit(build_unary_regcmd(resolved.dims, exec.op, exec.operand, Buffers)))
       \/ /\ exec.kernel = "elementwise_binary"
          /\ ~FieldsFit(build_add_regcmd(resolved.dims, exec.op, FALSE, Buffers))
       \/ /\ exec.kernel = "elementwise_lut"
          /\ ~(/\ LutAsserts(LutShapeOf(exec, resolved.dims))
               /\ FieldsFit(build_lut_regcmd(LutShapeOf(exec, resolved.dims), exec.op, Buffers)))

IInv == FileInv /\ ExecInv /\ CallInv /\ PlanInv /\ ProgramInv /\ PanicInv

(* Before anything is compiled the invariant holds.                        *)
LEMMA InitIInv == Init => IInv
  BY DEF Init, IInv, FileInv, ExecInv, CallInv, PlanInv, ProgramInv, PanicInv, NONE

(* Nothing downstream of the file exists before there is an executable.    *)
LEMMA Early ==
  ASSUME IInv, stage \in {"none", "file"}
  PROVE  /\ exec = NONE /\ resolved = NONE /\ tiles = NONE /\ next = 1 /\ program = NONE
         /\ status # "panic"
  BY DEF IInv, FileInv, CallInv, PlanInv, PanicInv

(* A step that leaves nothing downstream of the file keeps the invariant.  *)
LEMMA StillEarly ==
  ASSUME exec' = NONE, resolved' = NONE, tiles' = NONE, next' = 1, program' = NONE,
         status' # "panic", stage' \in {"file", "refused"}, FileInv'
  PROVE  IInv'
  BY DEF IInv, ExecInv, CallInv, PlanInv, ProgramInv, PanicInv

(* Writing the file keeps the invariant.                                   *)
LEMMA SerializeStep ==
  ASSUME IInv, NEW t \in Targets, Serialize(t)
  PROVE  IInv'
<1>1. stage = "none"
  BY DEF Serialize
<1>2. /\ exec = NONE /\ resolved = NONE /\ tiles = NONE /\ next = 1 /\ program = NONE
  BY <1>1, Early
<1>3. t # NONE
  BY TargetsAssumption
<1>4. CASE Parses(t) /\ t.exports = 1 /\ t.constants = ConstantCount(t)
  <2>1. stage' = "file" /\ file' = Encode(t) /\ status' = "ok" /\ target' = t
        /\ UNCHANGED <<exec, call, resolved, tiles, next, program>>
    BY <1>4 DEF Serialize
  <2>2. FileInv'
    BY <1>2, <1>3, <1>4, <2>1, Records DEF FileInv
  <2> QED  BY <1>2, <2>1, <2>2, StillEarly
<1>5. CASE ~(Parses(t) /\ t.exports = 1 /\ t.constants = ConstantCount(t))
  <2>1. stage' = "refused" /\ file' = NONE /\ status' = "compile_error" /\ target' = t
        /\ UNCHANGED <<exec, call, resolved, tiles, next, program>>
    BY <1>5 DEF Serialize
  <2>2. FileInv'
    BY <1>2, <1>3, <2>1 DEF FileInv
  <2> QED  BY <1>2, <2>1, <2>2, StillEarly
<1> QED  BY <1>4, <1>5

(* A foreign file keeps it.                                                *)
LEMMA LoadStep ==
  ASSUME IInv, NEW f \in Foreign, Load(f)
  PROVE  IInv'
<1>1. stage = "none" /\ stage' = "file" /\ file' = f
      /\ UNCHANGED <<target, exec, call, resolved, tiles, next, program, status>>
  BY DEF Load
<1>2. /\ exec = NONE /\ resolved = NONE /\ tiles = NONE /\ next = 1 /\ program = NONE
      /\ status # "panic"
  BY <1>1, Early
<1>3. f # NONE
  BY ForeignAssumption
<1>4. FileInv'
  BY <1>1, <1>2, <1>3 DEF FileInv, IInv
<1> QED  BY <1>1, <1>2, <1>4, StillEarly

(* Refusing a file keeps it.                                               *)
LEMMA RefuseStep ==
  ASSUME IInv, stage = "file", NEW code, code # "panic", Refuse(code)
  PROVE  IInv'
<1>1. stage' = "refused" /\ status' = code
      /\ UNCHANGED <<target, file, exec, call, resolved, tiles, next, program>>
  BY DEF Refuse
<1>2. /\ exec = NONE /\ resolved = NONE /\ tiles = NONE /\ next = 1 /\ program = NONE
  BY Early
<1>3. FileInv'
  BY <1>1, <1>2 DEF FileInv, IInv
<1> QED  BY <1>1, <1>2, <1>3, StillEarly

(* Creating an executable that came from the file keeps it.                *)
LEMMA CreateStep ==
  ASSUME IInv, stage = "file", NEW e, e # NONE, Create(e),
         \/ /\ file.format = "rocket-flatbuffer-v1" /\ Decodes(file)
            /\ e = decode_flatbuffer_shape(file) /\ validate_template(e)
         \/ target = NONE /\ e.kernel = "conv2d"
  PROVE  IInv'
<1>1. /\ stage' = "prepared" /\ exec' = e /\ status' = "ok"
      /\ UNCHANGED <<target, file, call, resolved, tiles, next, program>>
  BY DEF Create
<1>2. /\ exec = NONE /\ resolved = NONE /\ tiles = NONE /\ next = 1 /\ program = NONE
  BY Early
<1>3. FileInv'
  BY <1>1 DEF FileInv, IInv
<1>4. ExecInv'
  BY <1>1 DEF ExecInv, Decoded
<1>5. CallInv' /\ PlanInv' /\ ProgramInv' /\ PanicInv'
  BY <1>1, <1>2 DEF CallInv, PlanInv, ProgramInv, PanicInv
<1> QED  BY <1>3, <1>4, <1>5 DEF IInv

(* prepare_executable keeps it, whatever the format of the file.           *)
LEMMA PrepareStep ==
  ASSUME IInv, PrepareTable \/ PrepareTagged \/ PrepareUnknown
  PROVE  IInv'
<1>1. stage = "file"
  BY DEF PrepareTable, PrepareTagged, PrepareUnknown
<1>2. target # NONE => file.format = "rocket-flatbuffer-v1"
  BY <1>1 DEF IInv, FileInv, Encode
<1>3. ASSUME PrepareTable PROVE IInv'
  <2>1. file.format = "rocket-flatbuffer-v1" /\ decode_flatbuffer_shape(file) # NONE
    BY <1>3, Records DEF PrepareTable
  <2>2. CASE Refuse("INVALID_ARGUMENT")
    BY <1>1, <2>2, RefuseStep
  <2>3. CASE /\ Decodes(file) /\ validate_template(decode_flatbuffer_shape(file))
             /\ Create(decode_flatbuffer_shape(file))
    BY <1>1, <2>1, <2>3, CreateStep
  <2> QED  BY <1>3, <2>2, <2>3 DEF PrepareTable
<1>4. ASSUME PrepareTagged PROVE IInv'
  <2>1. file.format = "rocket-conv2d-v1" /\ target = NONE
    BY <1>2, <1>4 DEF PrepareTagged
  <2>2. file \in Foreign /\ IsFile(file)
    BY <1>1, <2>1, ForeignAssumption DEF IInv, FileInv
  <2>3. file.payload = NONE \/ file.payload.kernel = "conv2d"
    BY <2>1, <2>2 DEF IsFile
  <2>4. CASE Refuse("INVALID_ARGUMENT")
    BY <1>1, <2>4, RefuseStep
  <2>5. CASE file.payload # NONE /\ Create(file.payload)
    BY <1>1, <2>1, <2>3, <2>5, CreateStep
  <2> DEFINE fixed ==
        [kernel |-> "conv2d", op |-> "none", runtime |-> <<>>, quant |-> <<>>,
                    dims |-> [n \in DimNames("conv2d") |->
                                IF n \in {"input_width", "input_height"} THEN 4 ELSE 1],
                    precision |-> IF file.tag = 2 THEN "fp16" ELSE "int8",
                    zps |-> <<0, 0, 0>>, scales |-> <<0, 0, 0>>, activation |-> "none",
                    epilogue |-> "none", operand |-> 0, out |-> <<0, 0>>, pads |-> <<0, 0, 0, 0>>,
                    layout |-> FALSE, dense_readers |-> FALSE]
  <2>6. fixed # NONE /\ fixed.kernel = "conv2d"
    BY DEF NONE
  <2>7. \/ Refuse("INVALID_ARGUMENT") \/ (file.payload # NONE /\ Create(file.payload))
        \/ Create(fixed)
    BY <1>4 DEF PrepareTagged
  <2> HIDE DEF fixed
  <2>8. CASE Create(fixed)
    BY <1>1, <2>1, <2>6, <2>8, CreateStep
  <2> QED  BY <2>4, <2>5, <2>7, <2>8
<1>5. ASSUME PrepareUnknown PROVE IInv'
  <2> DEFINE code == IF file.format = "" THEN "INVALID_ARGUMENT" ELSE "NOT_FOUND"
  <2>1. Refuse(code) /\ code # "panic"
    BY <1>5 DEF PrepareUnknown
  <2> HIDE DEF code
  <2> QED  BY <1>1, <2>1, RefuseStep
<1> QED  BY <1>3, <1>4, <1>5
-----------------------------------------------------------------------------
(* A declared executable is a prepared one, and its call pushes its words. *)
LEMMA ExecPrepared ==
  ASSUME IInv, exec # NONE, exec.kernel # "conv2d" \/ target # NONE
  PROVE  Prepared(exec) /\ Decoded /\ IsTable(file)
<1>1. Decoded /\ file # NONE
  BY DEF IInv, ExecInv, FileInv
<1>2. IsTable(file)
  <2>1. CASE target = NONE
    <3>1. file \in Foreign
      BY <1>1, <2>1 DEF IInv, FileInv
    <3> QED  BY <1>1, <3>1, ForeignAssumption DEF IsFile, Decoded
  <2>2. CASE target # NONE
    <3>1. IsTarget(target) /\ Parses(target) /\ file = Encode(target)
      BY <1>1, <2>2, TargetsAssumption DEF IInv, FileInv
    <3> QED  BY <3>1, EncodedTable
  <2> QED  BY <2>1, <2>2
<1>3. Prepared(exec)
  BY <1>1, <1>2, TablePrepared DEF Decoded
<1> QED  BY <1>1, <1>2, <1>3

(* A dispatch pushes words the executable can read.                        *)
LEMMA CallPushes ==
  ASSUME IInv, resolved # NONE, exec.kernel # "conv2d" \/ target # NONE
  PROVE  Pushes(call, exec) /\ exec # NONE
<1>1. exec # NONE
  BY DEF IInv, FileInv, CallInv
<1>2. Decoded /\ file # NONE /\ call \in DispatchesOf(Declared)
  BY <1>1 DEF IInv, ExecInv, FileInv, CallInv
<1>3. CASE target = NONE
  <2>1. file \in Foreign /\ Declared = exec
    BY <1>2, <1>3 DEF IInv, FileInv, Declared
  <2> QED  BY <1>1, <1>2, <2>1, ForeignAssumption DEF Decoded
<1>4. CASE target # NONE
  <2>1. /\ IsTarget(target) /\ Parses(target) /\ file = Encode(target) /\ Declared = target
        /\ target \in Targets
    BY <1>2, <1>4, TargetsAssumption DEF IInv, FileInv, Declared
  <2>2. Pushes(call, target)
    BY <1>2, <2>1, TargetsAssumption
  <2>3. exec.runtime = target.runtime
    BY <1>2, <2>1, ParsedFaithful DEF Decoded, Faithful
  <2> QED  BY <1>1, <2>2, <2>3 DEF Pushes
<1> QED  BY <1>3, <1>4

(* The ranges PoolingShape::validate leaves the fields of a shape.         *)
Extent(v) == v \in Nat /\ v >= 1 /\ v <= 8192

(* The extents of a pool that validates.                                   *)
LEMMA ValidExtents ==
  ASSUME NEW s, validate(s)
  PROVE  /\ Extent(s.input_width) /\ Extent(s.input_height) /\ Extent(s.input_channels)
         /\ Extent(s.output_width) /\ Extent(s.output_height)
<1>1. \A v \in {s.input_width, s.input_height, s.input_channels,
                s.output_width, s.output_height} : v \in 1..MAX_PPU_EXTENT
  BY DEF validate
<1>2. \A n \in Nat : \A v \in 1..n : v \in Nat /\ v >= 1 /\ v <= n
  OBVIOUS
<1>3. \A v \in 1..MAX_PPU_EXTENT : v \in Nat /\ v >= 1 /\ v <= MAX_PPU_EXTENT
  <2>1. MAX_PPU_EXTENT \in Nat
    BY DEF MAX_PPU_EXTENT
  <2> QED  BY <1>2, <2>1
<1>4. \A v \in 1..MAX_PPU_EXTENT : Extent(v)
  <2>1. MAX_PPU_EXTENT = 8192
    BY DEF MAX_PPU_EXTENT
  <2> QED  BY <1>3, <2>1 DEF Extent
<1> QED  BY <1>1, <1>4

(* Its window.                                                             *)
LEMMA ValidWindow ==
  ASSUME NEW s, validate(s)
  PROVE  /\ s.kernel_width \in 1..8 /\ s.kernel_height \in 1..8
         /\ s.stride_x \in 1..16 /\ s.stride_y \in 1..16
<1>1. \A v \in {s.kernel_width, s.kernel_height, s.stride_x, s.stride_y} :
        v \in 1..MAX_PPU_KERNEL_OR_STRIDE
  BY DEF validate
<1> DEFINE R == 1..16
<1>2. R = 1..MAX_PPU_KERNEL_OR_STRIDE
  BY DEF MAX_PPU_KERNEL_OR_STRIDE
<1> HIDE DEF R
<1>3. /\ s.kernel_width \in R /\ s.kernel_height \in R /\ s.stride_x \in R /\ s.stride_y \in R
  BY <1>1, <1>2
<1>4. s.kernel_width <= 8 /\ s.kernel_height <= 8
  BY DEF validate, MAX_DIRECT_KERNEL
<1>5. \A k : k \in R /\ k <= 8 => k \in 1..8
  BY DEF R
<1>6. s.kernel_width \in 1..8 /\ s.kernel_height \in 1..8
  BY <1>3, <1>4, <1>5
<1> QED  BY <1>3, <1>6 DEF R

(* Its padding.                                                            *)
LEMMA ValidPads ==
  ASSUME NEW s, validate(s)
  PROVE  /\ s.pad_left \in 0..7 /\ s.pad_top \in 0..7 /\ s.pad_right \in 0..7 /\ s.pad_bottom \in 0..7
<1>1. \A v \in {s.pad_left, s.pad_top, s.pad_right, s.pad_bottom} : v \in 0..MAX_PPU_PADDING
  BY DEF validate
<1> DEFINE R == 0..7
<1>2. R = 0..MAX_PPU_PADDING
  BY DEF MAX_PPU_PADDING
<1> HIDE DEF R
<1>3. s.pad_left \in R /\ s.pad_top \in R /\ s.pad_right \in R /\ s.pad_bottom \in R
  BY <1>1, <1>2
<1> QED  BY <1>3 DEF R

(* A pool past its dispatch is one PoolingShape::validate admits.          *)
LEMMA PoolIs ==
  ASSUME IInv, resolved # NONE, exec.kernel = "pooling"
  PROVE  /\ validate(Pooled) /\ Pooled.precision \in {"int8", "fp16"}
         /\ Pooled.method \in {"avg", "max", "min"}
         /\ Pooled.pad_value \in Int /\ Pooled.precision = exec.precision
         /\ Pooled.input_width \in Nat
<1>1. /\ exec # NONE /\ resolve_shape(exec, call.words) /\ resolved = ResolvedOf(exec, call.words)
  BY DEF IInv, CallInv, FileInv
<1>2. Decoded /\ IsTable(file)
  BY <1>1, ExecPrepared
<1>3. validate(Pooled)
  <2>1. resolved.dims = ResolvedDims(exec, call.words)
    BY <1>1 DEF ResolvedOf
  <2>2. Pooled = PoolingShapeOf(exec, ResolvedDims(exec, call.words))
    BY <2>1 DEF Pooled
  <2> HIDE DEF Pooled
  <2> QED  BY <1>1, <2>2 DEF resolve_shape, PoolingResolves
<1>4. file.kernel = "pooling"
  <2>1. exec.kernel = IF file.kernel = "fully_connected" THEN "matmul" ELSE file.kernel
    BY <1>2 DEF Decoded, decode_flatbuffer_shape
  <2> QED  BY <2>1
<1>5. exec.precision = decode_pool_precision(file.precision) /\ exec.precision # UNKNOWN
  <2>1. exec.precision = decode_pool_precision(file.precision)
    BY <1>2, <1>4 DEF Decoded, decode_flatbuffer_shape, Elementwise
  <2>2. exec.precision # UNKNOWN
    BY <1>2 DEF Decoded, Decodes
  <2> QED  BY <2>1, <2>2
<1>6. exec.precision \in {"int8", "fp16"}
  BY <1>5 DEF decode_pool_precision
<1>7. exec.op = Named(file.op, <<"avg", "max", "min">>) /\ exec.op # UNKNOWN
  <2>1. exec.op = decode_op(file.kernel, file.op)
    BY <1>2 DEF Decoded, decode_flatbuffer_shape
  <2>2. exec.op # UNKNOWN
    BY <1>2 DEF Decoded, Decodes
  <2> QED  BY <1>4, <2>1, <2>2 DEF decode_op
<1>8. exec.op \in {"avg", "max", "min"}
  <2>1. \A c : Named(c, <<"avg", "max", "min">>) \in {"avg", "max", "min", UNKNOWN}
    BY DEF Named
  <2> QED  BY <1>7, <2>1
<1>9. Pooled.precision = exec.precision /\ Pooled.method = exec.op /\ Pooled.pad_value = PadFillOf(exec)
      /\ Pooled.input_width = resolved.dims["input_width"]
  BY DEF Pooled, PoolingShapeOf
<1>10. PadFillOf(exec) \in Int
  BY <1>6, <1>8 DEF PadFillOf, required_pad_fill, pad_fill_value, NOT_MEASURED
<1>11. Pooled.input_width \in Nat
  BY <1>3, ValidExtents DEF Extent
<1> QED  BY <1>3, <1>6, <1>8, <1>9, <1>10, <1>11

(* The widest input the pooling unit was measured with is a number.        *)
LEMMA Limits ==
  ASSUME NEW s, s.precision \in {"int8", "fp16"}
  PROVE  direct_width_limits(s) \in {<<256, 128>>, <<130, 65>>, <<34, 31>>, <<20, 13>>, <<129, 64>>}
  BY DEF direct_width_limits, overlapping_window_width_limits

(* A plan has a number of tiles.                                           *)
LEMMA TileCount ==
  ASSUME NEW s, validate(s), s.precision \in {"int8", "fp16"}
  PROVE  /\ tile_count(s) \in Nat \ {0} /\ DOMAIN PoolingTiles(s) = 1..tile_count(s)
         /\ Len(PoolingTiles(s)) = tile_count(s)
         /\ tile_count(s) <= s.output_width
<1>1. Extent(s.output_width)
  BY ValidExtents
<1>2. PICK w \in {128, 65, 31, 13, 64} : direct_width_limits(s)[2] = w
  BY Limits
<1>3. tile_count(s) = div_ceil(s.output_width, w)
  BY <1>2 DEF tile_count
<1>4. tile_count(s) \in Nat \ {0} /\ tile_count(s) <= s.output_width
  <2> DEFINE o == s.output_width
  <2>1. o \in Nat /\ o >= 1
    BY <1>1 DEF Extent
  <2> HIDE DEF o
  <2>2. div_ceil(o, w) \in Nat \ {0} /\ div_ceil(o, w) <= o
    BY <2>1 DEF div_ceil
  <2> QED  BY <1>3, <2>2 DEF o
<1> DEFINE n == tile_count(s)
<1> HIDE DEF n
<1>5. PoolingTiles(s) = [i \in 1..n |-> PoolingTile(s, i - 1)]
  BY DEF PoolingTiles, n
<1>6. n \in Nat /\ DOMAIN PoolingTiles(s) = 1..n /\ Len(PoolingTiles(s)) = n
  BY <1>4, <1>5 DEF n
<1> QED  BY <1>4, <1>6 DEF n

(* A plan has a tile to start with.                                        *)
LEMMA PlanNotEmpty ==
  ASSUME IInv, stage \in {"bound", "programs"}, exec.kernel = "pooling"
  PROVE  /\ Len(PoolingTiles(Pooled)) \in Nat \ {0}
         /\ DOMAIN PoolingTiles(Pooled) = 1..Len(PoolingTiles(Pooled))
<1>1. resolved # NONE
  BY DEF IInv, CallInv
<1>2. validate(Pooled) /\ Pooled.precision \in {"int8", "fp16"}
  BY <1>1, PoolIs
<1> QED  BY <1>2, TileCount

(* A dispatch that fails leaves the executable for the next one.           *)
LEMMA FailStep ==
  ASSUME IInv, stage \in {"prepared", "resolved"}, NEW code, code # "panic", Fail(code)
  PROVE  IInv'
<1>1. stage' = "prepared" /\ status' = code /\ resolved' = NONE
      /\ UNCHANGED <<target, file, exec, tiles, next, program>>
  BY DEF Fail
<1>2. tiles = NONE /\ next = 1 /\ program = NONE
  BY DEF IInv, PlanInv
<1>3. FileInv' /\ ExecInv'
  BY <1>1 DEF FileInv, ExecInv, Decoded, IInv
<1>4. CallInv' /\ PlanInv' /\ ProgramInv' /\ PanicInv'
  BY <1>1, <1>2 DEF CallInv, PlanInv, ProgramInv, PanicInv
<1> QED  BY <1>3, <1>4 DEF IInv

(* Resolving a dispatch keeps the invariant.                               *)
LEMMA DispatchStep ==
  ASSUME IInv, NEW d \in DispatchesOf(Declared), Dispatch(d)
  PROVE  IInv'
<1>1. stage = "prepared"
  BY DEF Dispatch
<1>2. CASE Fail("INVALID_ARGUMENT")
  BY <1>1, <1>2, FailStep
<1>3. CASE /\ resolve_shape(exec, d.words)
           /\ stage' = IF exec.kernel \in {"conv2d", "matmul"} THEN "planned" ELSE "resolved"
           /\ call' = d /\ resolved' = ResolvedOf(exec, d.words) /\ status' = "ok"
           /\ tiles' = NONE /\ next' = 1 /\ program' = NONE
           /\ UNCHANGED <<target, file, exec>>
  <2>1. stage' \in {"planned", "resolved"}
        /\ ((exec.kernel \in {"conv2d", "matmul"}) <=> (stage' = "planned"))
    BY <1>3
  <2>2. FileInv' /\ ExecInv'
    BY <1>1, <1>3, <2>1 DEF FileInv, ExecInv, Decoded, IInv
  <2>3. CallInv'
    <3>1. Declared' = Declared
      BY <1>3 DEF Declared
    <3> QED  BY <1>3, <2>1, <3>1, Records DEF CallInv
  <2>4. PlanInv' /\ ProgramInv' /\ PanicInv'
    BY <1>3, <2>1 DEF PlanInv, ProgramInv, PanicInv
  <2> QED  BY <2>2, <2>3, <2>4 DEF IInv
<1> QED  BY <1>2, <1>3 DEF Dispatch

(* What an action past the resolved shape leaves alone.                    *)
Fixed == <<target, file, exec, call, resolved>>

(* A step that keeps the executable and the call keeps what was said of    *)
(* them.                                                                   *)
LEMMA Kept ==
  ASSUME IInv, UNCHANGED Fixed,
         stage \in {"resolved", "bound", "programs", "recorded"},
         stage' \in {"resolved", "bound", "programs", "recorded", "aborted"}
  PROVE  FileInv' /\ ExecInv' /\ CallInv' /\ Pooled' = Pooled
<1>1. /\ target' = target /\ file' = file /\ exec' = exec /\ call' = call /\ resolved' = resolved
  BY DEF Fixed
<1>2. FileInv' /\ ExecInv'
  BY <1>1 DEF FileInv, ExecInv, Decoded, IInv
<1>3. CallInv'
  <2>1. Declared' = Declared
    BY <1>1 DEF Declared
  <2>2. CallInv
    BY DEF IInv
  <2> QED  BY <1>1, <2>1, <2>2 DEF CallInv
<1>4. Pooled' = Pooled
  BY <1>1 DEF Pooled
<1> QED  BY <1>2, <1>3, <1>4

(* Checking the bindings keeps it.                                         *)
LEMMA BindStep ==
  ASSUME IInv, Bind
  PROVE  IInv'
<1>1. stage = "resolved"
  BY DEF Bind
<1>2. CASE Fail("INVALID_ARGUMENT")
  BY <1>1, <1>2, FailStep
<1>3. CASE /\ stage' = "bound"
           /\ UNCHANGED <<target, file, exec, call, resolved, tiles, next, program, status>>
  <2>1. FileInv' /\ ExecInv' /\ CallInv'
    BY <1>1, <1>3, Kept DEF Fixed
  <2>2. tiles = NONE /\ next = 1 /\ program = NONE /\ status # "panic"
    BY <1>1 DEF IInv, PlanInv, PanicInv
  <2>3. PlanInv' /\ ProgramInv' /\ PanicInv'
    BY <1>3, <2>2 DEF PlanInv, ProgramInv, PanicInv
  <2> QED  BY <2>1, <2>3 DEF IInv
<1> QED  BY <1>2, <1>3 DEF Bind

Cause ==
  \/ exec.kernel = "pooling" /\ \E i \in DOMAIN PoolingTiles(Pooled) : ~PoolTaken(i)
  \/ /\ exec.kernel = "elementwise_unary"
     /\ ~(/\ UnaryAsserts(exec.op, exec.operand)
          /\ FieldsFit(build_unary_regcmd(resolved.dims, exec.op, exec.operand, Buffers)))
  \/ /\ exec.kernel = "elementwise_binary"
     /\ ~FieldsFit(build_add_regcmd(resolved.dims, exec.op, FALSE, Buffers))
  \/ /\ exec.kernel = "elementwise_lut"
     /\ ~(/\ LutAsserts(LutShapeOf(exec, resolved.dims))
          /\ FieldsFit(build_lut_regcmd(LutShapeOf(exec, resolved.dims), exec.op, Buffers)))

(* A panic with a cause keeps it.                                          *)
LEMMA PanicStep ==
  ASSUME IInv, stage \in {"bound", "programs"}, Panic, Cause
  PROVE  IInv'
<1>1. /\ stage' = "aborted" /\ status' = "panic"
      /\ UNCHANGED <<target, file, exec, call, resolved, tiles, next, program>>
  BY DEF Panic
<1>2. FileInv' /\ ExecInv' /\ CallInv' /\ Pooled' = Pooled
  BY <1>1, Kept DEF Fixed
<1>3. PlanInv'
  <2>1. PlanInv
    BY DEF IInv
  <2> QED  BY <1>1, <1>2, <2>1 DEF PlanInv
<1>4. ProgramInv'
  <2>1. ProgramInv
    BY DEF IInv
  <2> QED  BY <1>1, <1>2, <2>1 DEF ProgramInv
<1>5. PanicInv'
  <2>1. Cause'
    BY <1>1, <1>2 DEF Cause, PoolTaken
  <2> QED  BY <1>1, <2>1 DEF PanicInv, Cause
<1> QED  BY <1>2, <1>3, <1>4, <1>5 DEF IInv

(* PoolingPlan::new keeps it.                                              *)
LEMMA PlanStep ==
  ASSUME IInv, Plan
  PROVE  IInv'
<1> DEFINE plan == PoolingTiles(Pooled)
<1>1. stage = "bound" /\ exec.kernel = "pooling"
  BY DEF Plan
<1>2. CASE \E i \in DOMAIN plan : ~WithinDirectLimits(Pooled, plan[i])
  <2>1. Panic
    BY <1>2 DEF Plan
  <2>2. Cause
    BY <1>1, <1>2 DEF Cause, PoolTaken, PoolTileAsserts
  <2> QED  BY <1>1, <2>1, <2>2, PanicStep
<1>3. CASE \A i \in DOMAIN plan : WithinDirectLimits(Pooled, plan[i])
  <2>1. /\ tiles' = plan /\ stage' = "programs"
        /\ UNCHANGED <<target, file, exec, call, resolved, next, program, status>>
    BY <1>3 DEF Plan
  <2>2. FileInv' /\ ExecInv' /\ CallInv' /\ Pooled' = Pooled
    BY <1>1, <2>1, Kept DEF Fixed
  <2>3. next = 1 /\ program = NONE /\ status # "panic"
    BY <1>1 DEF IInv, PlanInv, PanicInv
  <2>4. 1 \in 1..Len(plan)
    BY <1>1, PlanNotEmpty DEF IInv
  <2>5. PlanInv'
    BY <1>1, <1>3, <2>1, <2>2, <2>3, <2>4 DEF PlanInv
  <2>6. ProgramInv' /\ PanicInv'
    BY <2>1, <2>3 DEF ProgramInv, PanicInv
  <2> QED  BY <2>2, <2>5, <2>6 DEF IInv
<1> QED  BY <1>2, <1>3

(* A program emitted is the last one, or is followed by the next tile's.   *)
LEMMA EmittedStep ==
  ASSUME IInv, stage \in {"bound", "programs"}, NEW p, NEW more \in BOOLEAN, Emitted(p, more),
         FieldsFit(p),
         (stage = "programs" <=> exec.kernel = "pooling"), (more => next < Len(tiles)),
         (more => exec.kernel = "pooling"),
         exec.kernel = "pooling" =>
           /\ PoolTileAsserts(Pooled, tiles[next], Buffers)
           /\ p = build_pooling_tile_task(Pooled, tiles[next], Buffers),
         exec.kernel = "elementwise_unary" =>
           p = build_unary_regcmd(resolved.dims, exec.op, exec.operand, Buffers),
         exec.kernel = "elementwise_binary" =>
           p = build_add_regcmd(resolved.dims, exec.op, FALSE, Buffers),
         exec.kernel = "elementwise_lut" =>
           p = build_lut_regcmd(LutShapeOf(exec, resolved.dims), exec.op, Buffers)
  PROVE  IInv'
<1>1. /\ program' = p /\ next' = next + 1
      /\ stage' = IF more THEN "programs" ELSE "recorded"
      /\ UNCHANGED <<target, file, exec, call, resolved, tiles, status>>
  BY DEF Emitted
<1>2. FileInv' /\ ExecInv' /\ CallInv' /\ Pooled' = Pooled
  BY <1>1, Kept DEF Fixed
<1>3. PlanInv /\ status # "panic"
  BY DEF IInv, PanicInv
<1>4. exec.kernel = "pooling" =>
        /\ tiles = PoolingTiles(Pooled) /\ next \in 1..Len(tiles)
        /\ \A i \in DOMAIN tiles : WithinDirectLimits(Pooled, tiles[i])
        /\ next \in Nat /\ next >= 1 /\ Len(tiles) \in Nat
  <2> SUFFICES ASSUME exec.kernel = "pooling"
               PROVE  /\ tiles = PoolingTiles(Pooled) /\ next \in 1..Len(tiles)
                      /\ \A i \in DOMAIN tiles : WithinDirectLimits(Pooled, tiles[i])
                      /\ next \in Nat /\ next >= 1 /\ Len(tiles) \in Nat
    OBVIOUS
  <2>1. /\ tiles = PoolingTiles(Pooled) /\ next \in 1..Len(tiles)
        /\ \A i \in DOMAIN tiles : WithinDirectLimits(Pooled, tiles[i])
    BY <1>3 DEF PlanInv
  <2>2. Len(tiles) \in Nat
    BY <2>1, PlanNotEmpty
  <2> QED  BY <2>1, <2>2
<1>5. PlanInv'
  <2>1. CASE exec.kernel = "pooling"
    <3>1. more => next + 1 \in 1..Len(tiles)
      BY <1>4, <2>1
    <3> QED  BY <1>1, <1>2, <1>4, <2>1, <3>1 DEF PlanInv
  <2>2. CASE exec.kernel # "pooling"
    BY <1>1, <2>2 DEF PlanInv
  <2> QED  BY <2>1, <2>2
<1>6. ProgramInv'
  <2>1. exec.kernel = "pooling" => (next + 1) - 1 = next /\ next + 1 \in Nat
    BY <1>4
  <2> QED  BY <1>1, <1>2, <1>4, <2>1 DEF ProgramInv
<1>7. PanicInv'
  BY <1>1, <1>3 DEF PanicInv
<1> QED  BY <1>2, <1>5, <1>6, <1>7 DEF IInv

(* Emitting a program keeps it, whatever the kernel.                       *)
LEMMA EmitStep ==
  ASSUME IInv, EmitPoolingTile \/ EmitUnary \/ EmitBinary \/ EmitLut
  PROVE  IInv'
<1>1. ASSUME EmitPoolingTile PROVE IInv'
  <2> DEFINE p == build_pooling_tile_task(Pooled, tiles[next], Buffers)
  <2>1. stage = "programs"
    BY <1>1 DEF EmitPoolingTile
  <2>2. /\ exec.kernel = "pooling" /\ next \in 1..Len(tiles) /\ tiles = PoolingTiles(Pooled)
    BY <2>1 DEF IInv, PlanInv
  <2>3. next \in DOMAIN PoolingTiles(Pooled)
    BY <2>2, PlanNotEmpty
  <2>4. CASE PoolTileAsserts(Pooled, tiles[next], Buffers) /\ FieldsFit(p)
    <3>1. Emitted(p, next < Len(tiles))
      BY <1>1, <2>4 DEF EmitPoolingTile
    <3>2. (next < Len(tiles)) \in BOOLEAN
      OBVIOUS
    <3> HIDE DEF p
    <3>3. exec.kernel \notin {"elementwise_unary", "elementwise_binary", "elementwise_lut"}
      BY <2>2
    <3> QED  BY <2>1, <2>2, <2>4, <3>1, <3>2, <3>3, EmittedStep DEF p
  <2>5. CASE ~(PoolTileAsserts(Pooled, tiles[next], Buffers) /\ FieldsFit(p))
    <3>1. Panic
      BY <1>1, <2>5 DEF EmitPoolingTile, Emitted
    <3>2. ~PoolTaken(next)
      BY <2>2, <2>5 DEF PoolTaken
    <3>3. Cause
      BY <2>2, <2>3, <3>2 DEF Cause
    <3> QED  BY <2>1, <3>1, <3>3, PanicStep
  <2> QED  BY <2>4, <2>5
<1>2. ASSUME EmitUnary PROVE IInv'
  <2> DEFINE p == build_unary_regcmd(resolved.dims, exec.op, exec.operand, Buffers)
  <2>1. stage = "bound" /\ exec.kernel = "elementwise_unary"
    BY <1>2 DEF EmitUnary
  <2>2. CASE UnaryAsserts(exec.op, exec.operand) /\ FieldsFit(p)
    <3>1. Emitted(p, FALSE)
      BY <1>2, <2>2 DEF EmitUnary
    <3> HIDE DEF p
    <3> QED  BY <2>1, <2>2, <3>1, EmittedStep DEF p
  <2>3. CASE ~(UnaryAsserts(exec.op, exec.operand) /\ FieldsFit(p))
    <3>1. Panic
      BY <1>2, <2>3 DEF EmitUnary, Emitted
    <3>2. Cause
      BY <2>1, <2>3 DEF Cause
    <3> QED  BY <2>1, <3>1, <3>2, PanicStep
  <2> QED  BY <2>2, <2>3
<1>3. ASSUME EmitBinary PROVE IInv'
  <2> DEFINE p == build_add_regcmd(resolved.dims, exec.op, FALSE, Buffers)
  <2>1. stage = "bound" /\ exec.kernel = "elementwise_binary" /\ Emitted(p, FALSE)
    BY <1>3 DEF EmitBinary
  <2>2. CASE FieldsFit(p)
    <3> HIDE DEF p
    <3> QED  BY <2>1, <2>2, EmittedStep DEF p
  <2>3. CASE ~FieldsFit(p)
    <3>1. Panic
      BY <2>1, <2>3 DEF Emitted
    <3>2. Cause
      BY <2>1, <2>3 DEF Cause
    <3> QED  BY <2>1, <3>1, <3>2, PanicStep
  <2> QED  BY <2>2, <2>3
<1>4. ASSUME EmitLut PROVE IInv'
  <2> DEFINE s == LutShapeOf(exec, resolved.dims)
             p == build_lut_regcmd(s, exec.op, Buffers)
  <2>1. stage = "bound" /\ exec.kernel = "elementwise_lut"
    BY <1>4 DEF EmitLut
  <2>2. CASE LutAsserts(s) /\ FieldsFit(p)
    <3>1. Emitted(p, FALSE)
      BY <1>4, <2>2 DEF EmitLut
    <3> HIDE DEF p
    <3> QED  BY <2>1, <2>2, <3>1, EmittedStep DEF p
  <2>3. CASE ~(LutAsserts(s) /\ FieldsFit(p))
    <3>1. Panic
      BY <1>4, <2>3 DEF EmitLut, Emitted
    <3>2. Cause
      BY <2>1, <2>3 DEF Cause
    <3> QED  BY <2>1, <3>1, <3>2, PanicStep
  <2> QED  BY <2>2, <2>3
<1> QED  BY <1>1, <1>2, <1>3, <1>4

(* Returning to the caller keeps it.                                       *)
LEMMA ReturnStep ==
  ASSUME IInv, Return
  PROVE  IInv'
<1>1. /\ stage \in {"recorded", "planned"} /\ stage' = "prepared" /\ status' = "ok"
      /\ resolved' = NONE /\ tiles' = NONE /\ next' = 1 /\ program' = NONE
      /\ UNCHANGED <<target, file, exec>>
  BY DEF Return
<1>2. FileInv' /\ ExecInv'
  BY <1>1 DEF FileInv, ExecInv, Decoded, IInv
<1>3. CallInv' /\ PlanInv' /\ ProgramInv' /\ PanicInv'
  BY <1>1 DEF CallInv, PlanInv, ProgramInv, PanicInv
<1> QED  BY <1>2, <1>3 DEF IInv

(* A stuttering step keeps it.                                             *)
LEMMA StutterStep ==
  ASSUME IInv, UNCHANGED vars
  PROVE  IInv'
<1>1. /\ stage' = stage /\ target' = target /\ file' = file /\ exec' = exec /\ call' = call
      /\ resolved' = resolved /\ tiles' = tiles /\ next' = next /\ program' = program
      /\ status' = status
  BY DEF vars
<1>2. Pooled' = Pooled /\ Declared' = Declared
  BY <1>1 DEF Pooled, Declared
<1>3. FileInv' /\ ExecInv'
  BY <1>1 DEF IInv, FileInv, ExecInv, Decoded
<1>4. CallInv'
  BY <1>1, <1>2 DEF IInv, CallInv
<1>5. PlanInv'
  BY <1>1, <1>2 DEF IInv, PlanInv
<1>6. ProgramInv'
  BY <1>1, <1>2 DEF IInv, ProgramInv
<1>7. PanicInv'
  BY <1>1, <1>2 DEF IInv, PanicInv, PoolTaken
<1> QED  BY <1>3, <1>4, <1>5, <1>6, <1>7 DEF IInv

(* Every step of the executable keeps the invariant.                       *)
LEMMA NextIInv == IInv /\ [Next]_vars => IInv'
<1> SUFFICES ASSUME IInv, [Next]_vars PROVE IInv'
  OBVIOUS
<1>1. CASE \E t \in Targets : Serialize(t)
  BY <1>1, SerializeStep
<1>2. CASE \E f \in Foreign : Load(f)
  BY <1>2, LoadStep
<1>3. CASE PrepareTable \/ PrepareTagged \/ PrepareUnknown
  BY <1>3, PrepareStep
<1>4. CASE \E d \in DispatchesOf(Declared) : Dispatch(d)
  BY <1>4, DispatchStep
<1>5. CASE Bind \/ Plan
  BY <1>5, BindStep, PlanStep
<1>6. CASE EmitPoolingTile \/ EmitUnary \/ EmitBinary \/ EmitLut
  BY <1>6, EmitStep
<1>7. CASE Return
  BY <1>7, ReturnStep
<1>8. CASE UNCHANGED vars
  BY <1>8, StutterStep
<1> QED  BY <1>1, <1>2, <1>3, <1>4, <1>5, <1>6, <1>7, <1>8 DEF Next

(* From the target to the program: what is in the file is the target's     *)
(* encoding or a foreign table, what is prepared is what the file decodes  *)
(* to, what is dispatched is what it resolves to, and what is emitted is   *)
(* what the builder of the kernel builds for it; a panic has the cause the *)
(* code gives it.                                                          *)
THEOREM ExecutableInvariant == Spec => []IInv
  BY InitIInv, NextIInv, PTL DEF Spec
-----------------------------------------------------------------------------
(* A step to "refused" is taken by prepare_executable, on a file the       *)
(* compiler wrote only where the compiler could not have known.            *)
LEMMA NextTemplates == IInv /\ TemplatesAgree /\ [Next]_vars => TemplatesAgree'
<1> SUFFICES ASSUME IInv, TemplatesAgree, [Next]_vars, stage' = "refused", target' # NONE, file' # NONE
             PROVE  RuntimeOnly(target)' 
  BY DEF TemplatesAgree
<1>1. CASE UNCHANGED vars
  <2>1. target' = target /\ stage' = stage /\ file' = file
    BY <1>1 DEF vars
  <2>2. RuntimeOnly(target)
    BY <2>1 DEF TemplatesAgree
  <2> QED  BY <2>1, <2>2
<1>2. CASE \E t \in Targets : Serialize(t)
  <2>1. PICK t \in Targets : Serialize(t)
    BY <1>2
  <2> QED  BY <2>1 DEF Serialize
<1>3. CASE PrepareTable \/ PrepareTagged \/ PrepareUnknown
  <2>1. stage = "file" /\ target' = target /\ file' = file
    BY <1>3 DEF PrepareTable, PrepareTagged, PrepareUnknown, Refuse, Create
  <2>2. IsTarget(target) /\ Parses(target) /\ file = Encode(target)
    BY <2>1, TargetsAssumption DEF IInv, FileInv
  <2>3. file.format = "rocket-flatbuffer-v1"
    BY <2>2 DEF Encode
  <2>4. PrepareTable
    BY <1>3, <2>3 DEF PrepareTagged, PrepareUnknown
  <2>5. ~(Decodes(file) /\ validate_template(decode_flatbuffer_shape(file)))
          \/ AsksPlanner(decode_flatbuffer_shape(file))
    BY <2>4 DEF PrepareTable, Create
  <2>6. AsksPlanner(decode_flatbuffer_shape(file)) => RuntimeOnly(target)
    <3> DEFINE e == decode_flatbuffer_shape(file)
    <3>1. Faithful(e, target)
      BY <2>2, ParsedFaithful
    <3> HIDE DEF e
    <3> SUFFICES ASSUME AsksPlanner(e) PROVE RuntimeOnly(target)
      BY DEF e
    <3>2. target.kernel \in {"conv2d", "matmul", "fully_connected"}
          /\ target.runtime = <<>> /\ target.quant = <<>>
      BY <3>1 DEF AsksPlanner, Faithful
    <3> QED  BY <3>2 DEF RuntimeOnly
  <2>7. RuntimeOnly(target)
    BY <2>2, <2>5, <2>6, Agreement
  <2> QED  BY <2>1, <2>7
<1>4. CASE \/ \E f \in Foreign : Load(f)
           \/ \E d \in DispatchesOf(Declared) : Dispatch(d)
           \/ Bind \/ Plan \/ EmitPoolingTile \/ EmitUnary \/ EmitBinary \/ EmitLut \/ Return
  BY <1>4 DEF Load, Dispatch, Fail, Bind, Plan, Panic, EmitPoolingTile, EmitUnary, EmitBinary, EmitLut,
              Emitted, Return
<1> QED  BY <1>1, <1>2, <1>3, <1>4 DEF Next

(* The compiler's parser and the runtime's decoder and validator check the *)
(* same target in two languages: for every target, whatever its kernel,    *)
(* names, shape and scales, a file the compiler wrote is refused only for  *)
(* what RuntimeOnly lists.                                                 *)
THEOREM TemplatesAgreeAlways == Spec => []TemplatesAgree
<1>1. Init => TemplatesAgree
  BY DEF Init, TemplatesAgree
<1> QED  BY <1>1, ExecutableInvariant, NextTemplates, PTL DEF Spec
-----------------------------------------------------------------------------
(* Programs.                                                               *)
IsProgram(p) == p \in Seq(Listed(p))
Sole(p, reg, c) ==
  \E i \in 1..Len(p) : /\ p[i] = c /\ c.reg.offset = reg.offset
                       /\ \A j \in 1..Len(p) : p[j].reg.offset = reg.offset => j = i
Absent(p, reg) == \A j \in 1..Len(p) : p[j].reg.offset # reg.offset

(* Two programs one after the other are a program.                         *)
LEMMA ConcatProgram ==
  ASSUME NEW a, NEW b, IsProgram(a), IsProgram(b)
  PROVE  /\ IsProgram(a \o b) /\ Len(a \o b) = Len(a) + Len(b)
         /\ Len(a) \in Nat /\ Len(b) \in Nat
         /\ \A i \in 1..Len(a) : (a \o b)[i] = a[i]
         /\ \A i \in 1..Len(b) : (a \o b)[Len(a) + i] = b[i]
<1> DEFINE S == Listed(a) \cup Listed(b)
<1>1. a \in Seq(S) /\ b \in Seq(S)
  BY DEF IsProgram
<1> HIDE DEF S
<1>2. /\ a \o b \in Seq(S) /\ Len(a \o b) = Len(a) + Len(b)
      /\ \A i \in 1..Len(a) : (a \o b)[i] = a[i]
      /\ \A i \in 1..Len(b) : (a \o b)[Len(a) + i] = b[i]
  BY <1>1, JoinedIs
<1>3. \A q \in Seq(S) : IsProgram(q)
  BY DEF Listed, IsProgram
<1>4. Len(a) \in Nat /\ Len(b) \in Nat
  BY <1>1
<1> QED BY <1>2, <1>3, <1>4

(* A position of two sequences laid end to end is one of the first or of the second. *)
LEMMA SplitAt ==
  ASSUME NEW m \in Nat, NEW n \in Nat, NEW i \in 1..(m + n)
  PROVE  i \in 1..m \/ (i - m \in 1..n /\ m + (i - m) = i)
  OBVIOUS

(* A register only the first of two programs writes keeps what it wrote.   *)
LEMMA SoleFirst ==
  ASSUME NEW a, NEW b, IsProgram(a), IsProgram(b), NEW reg, NEW c, Sole(a, reg, c), Absent(b, reg)
  PROVE  Sole(a \o b, reg, c)
<1> DEFINE p == a \o b
           m == Len(a)
           n == Len(b)
<1>1. /\ Len(p) = m + n /\ m \in Nat /\ n \in Nat
      /\ \A i \in 1..m : p[i] = a[i]
      /\ \A i \in 1..n : p[m + i] = b[i]
  BY ConcatProgram
<1>2. PICK i \in 1..m : /\ a[i] = c /\ c.reg.offset = reg.offset
                        /\ \A j \in 1..m : a[j].reg.offset = reg.offset => j = i
  BY DEF Sole
<1>3. \A j \in 1..n : b[j].reg.offset # reg.offset
  BY DEF Absent
<1> HIDE DEF p, m, n
<1>4. i \in 1..Len(p) /\ p[i] = c
  BY <1>1, <1>2
<1>5. ASSUME NEW j \in 1..Len(p), p[j].reg.offset = reg.offset PROVE j = i
  <2>1. j \in 1..m \/ (j - m \in 1..n /\ m + (j - m) = j)
    BY <1>1, SplitAt
  <2>2. CASE j \in 1..m
    BY <1>1, <1>2, <1>5, <2>2
  <2>3. CASE j - m \in 1..n /\ m + (j - m) = j
    <3>1. p[j] = b[j - m]
      BY <1>1, <2>3
    <3> QED  BY <1>3, <1>5, <2>3, <3>1
  <2> QED  BY <2>1, <2>2, <2>3
<1>6. Sole(p, reg, c)
  BY <1>2, <1>4, <1>5 DEF Sole
<1> QED  BY <1>6 DEF p

(* A register only the second of two programs writes keeps what it wrote.  *)
LEMMA SoleSecond ==
  ASSUME NEW a, NEW b, IsProgram(a), IsProgram(b), NEW reg, NEW c, Absent(a, reg), Sole(b, reg, c)
  PROVE  Sole(a \o b, reg, c)
<1> DEFINE p == a \o b
           m == Len(a)
           n == Len(b)
<1>1. /\ Len(p) = m + n /\ m \in Nat /\ n \in Nat
      /\ \A i \in 1..m : p[i] = a[i]
      /\ \A i \in 1..n : p[m + i] = b[i]
  BY ConcatProgram
<1>2. PICK i \in 1..n : /\ b[i] = c /\ c.reg.offset = reg.offset
                        /\ \A j \in 1..n : b[j].reg.offset = reg.offset => j = i
  BY DEF Sole
<1>3. \A j \in 1..m : a[j].reg.offset # reg.offset
  BY DEF Absent
<1> HIDE DEF p, m, n
<1>4. m + i \in 1..Len(p) /\ p[m + i] = c
  BY <1>1, <1>2
<1>5. ASSUME NEW j \in 1..Len(p), p[j].reg.offset = reg.offset PROVE j = m + i
  <2>1. j \in 1..m \/ (j - m \in 1..n /\ m + (j - m) = j)
    BY <1>1, SplitAt
  <2>2. CASE j \in 1..m
    BY <1>1, <1>3, <1>5, <2>2
  <2>3. CASE j - m \in 1..n /\ m + (j - m) = j
    <3>1. p[j] = b[j - m]
      BY <1>1, <2>3
    <3>2. j - m = i
      BY <1>2, <1>5, <2>3, <3>1
    <3> QED  BY <2>3, <3>2
  <2> QED  BY <2>1, <2>2, <2>3
<1>6. Sole(p, reg, c)
  BY <1>2, <1>4, <1>5 DEF Sole
<1> QED  BY <1>6 DEF p

(* A register neither of two programs writes stays unwritten.              *)
LEMMA AbsentBoth ==
  ASSUME NEW a, NEW b, IsProgram(a), IsProgram(b), NEW reg, Absent(a, reg), Absent(b, reg)
  PROVE  Absent(a \o b, reg)
<1> DEFINE p == a \o b
           m == Len(a)
           n == Len(b)
<1>1. /\ Len(p) = m + n /\ m \in Nat /\ n \in Nat
      /\ \A i \in 1..m : p[i] = a[i]
      /\ \A i \in 1..n : p[m + i] = b[i]
  BY ConcatProgram
<1>2. /\ \A j \in 1..m : a[j].reg.offset # reg.offset
      /\ \A j \in 1..n : b[j].reg.offset # reg.offset
  BY DEF Absent
<1> HIDE DEF p, m, n
<1>3. ASSUME NEW j \in 1..Len(p) PROVE p[j].reg.offset # reg.offset
  <2>1. j \in 1..m \/ (j - m \in 1..n /\ m + (j - m) = j)
    BY <1>1, SplitAt
  <2>2. CASE j \in 1..m
    BY <1>1, <1>2, <2>2
  <2>3. CASE j - m \in 1..n /\ m + (j - m) = j
    <3>1. p[j] = b[j - m]
      BY <1>1, <2>3
    <3> QED  BY <1>2, <2>3, <3>1
  <2> QED  BY <2>1, <2>2, <2>3
<1>4. Absent(p, reg)
  BY <1>3 DEF Absent
<1> QED  BY <1>4 DEF p

(* What a register holds after a program that writes it once.              *)
LEMMA SoleIs ==
  ASSUME NEW p, NEW reg, NEW c, NEW name, Sole(p, reg, c)
  PROVE  Programmed(p, reg, name) = ValueOf(c, name)
<1>1. PICK i \in 1..Len(p) : /\ p[i] = c /\ c.reg.offset = reg.offset
                             /\ \A j \in 1..Len(p) : p[j].reg.offset = reg.offset => j = i
  BY DEF Sole
<1>2. Matches(p, reg) = {i}
  BY <1>1 DEF Matches
<1>3. (CHOOSE k \in {i} : \A j \in {i} : j <= k) = i
  <2>1. i <= i
    <3>1. i \in Int
      OBVIOUS
    <3> QED  BY <3>1
  <2> QED  BY <2>1
<1> QED BY <1>1, <1>2, <1>3 DEF Programmed
-----------------------------------------------------------------------------
(* The entries of a literal list. *)
LEMMA Tuple1 ==
  \A x1 :
    LET q == <<x1>>
    IN  /\ Len(q) = 1 /\ IsProgram(q)
        /\ q[1] = x1
  BY DEF Listed, IsProgram

(* The entries of a list of 2.                                             *)
LEMMA Tuple2 ==
  \A x1, x2 :
    LET q == <<x1, x2>>
    IN  /\ Len(q) = 2 /\ IsProgram(q)
        /\ q[1] = x1 /\ q[2] = x2
  BY DEF Listed, IsProgram

(* The entries of a list of 3.                                             *)
LEMMA Tuple3 ==
  \A x1, x2, x3 :
    LET q == <<x1, x2, x3>>
    IN  /\ Len(q) = 3 /\ IsProgram(q)
        /\ q[1] = x1 /\ q[2] = x2 /\ q[3] = x3
  BY DEF Listed, IsProgram

(* The entries of a list of 5.                                             *)
LEMMA Tuple5 ==
  \A x1, x2, x3, x4, x5 :
    LET q == <<x1, x2, x3, x4, x5>>
    IN  /\ Len(q) = 5 /\ IsProgram(q)
        /\ q[1] = x1 /\ q[2] = x2 /\ q[3] = x3 /\ q[4] = x4 /\ q[5] = x5
  BY DEF Listed, IsProgram

(* The entries of a list of 7.                                             *)
LEMMA Tuple7 ==
  \A x1, x2, x3, x4, x5, x6, x7 :
    LET q == <<x1, x2, x3, x4, x5, x6, x7>>
    IN  /\ Len(q) = 7 /\ IsProgram(q)
        /\ q[1] = x1 /\ q[2] = x2 /\ q[3] = x3 /\ q[4] = x4 /\ q[5] = x5 /\ q[6] = x6 /\ q[7] = x7
  BY DEF Listed, IsProgram

(* The entries of a list of 8.                                             *)
LEMMA Tuple8 ==
  \A x1, x2, x3, x4, x5, x6, x7, x8 :
    LET q == <<x1, x2, x3, x4, x5, x6, x7, x8>>
    IN  /\ Len(q) = 8 /\ IsProgram(q)
        /\ q[1] = x1 /\ q[2] = x2 /\ q[3] = x3 /\ q[4] = x4 /\ q[5] = x5 /\ q[6] = x6 /\ q[7] = x7
        /\ q[8] = x8
  BY DEF Listed, IsProgram

(* The entries of a list of 9.                                             *)
LEMMA Tuple9 ==
  \A x1, x2, x3, x4, x5, x6, x7, x8, x9 :
    LET q == <<x1, x2, x3, x4, x5, x6, x7, x8, x9>>
    IN  /\ Len(q) = 9 /\ IsProgram(q)
        /\ q[1] = x1 /\ q[2] = x2 /\ q[3] = x3 /\ q[4] = x4 /\ q[5] = x5 /\ q[6] = x6 /\ q[7] = x7
        /\ q[8] = x8 /\ q[9] = x9
  BY DEF Listed, IsProgram

(* The entries of a list of 14.                                            *)
LEMMA Tuple14 ==
  \A x1, x2, x3, x4, x5, x6, x7, x8, x9, x10, x11, x12, x13, x14 :
    LET q == <<x1, x2, x3, x4, x5, x6, x7, x8, x9, x10, x11, x12, x13, x14>>
    IN  /\ Len(q) = 14 /\ IsProgram(q)
        /\ q[1] = x1 /\ q[2] = x2 /\ q[3] = x3 /\ q[4] = x4 /\ q[5] = x5 /\ q[6] = x6 /\ q[7] = x7
        /\ q[8] = x8 /\ q[9] = x9 /\ q[10] = x10 /\ q[11] = x11 /\ q[12] = x12 /\ q[13] = x13
        /\ q[14] = x14
  BY DEF Listed, IsProgram

(* The entries of a list of 16.                                            *)
LEMMA Tuple16 ==
  \A x1, x2, x3, x4, x5, x6, x7, x8, x9, x10, x11, x12, x13, x14, x15, x16 :
    LET q == <<x1, x2, x3, x4, x5, x6, x7, x8, x9, x10, x11, x12, x13, x14, x15, x16>>
    IN  /\ Len(q) = 16 /\ IsProgram(q)
        /\ q[1] = x1 /\ q[2] = x2 /\ q[3] = x3 /\ q[4] = x4 /\ q[5] = x5 /\ q[6] = x6 /\ q[7] = x7
        /\ q[8] = x8 /\ q[9] = x9 /\ q[10] = x10 /\ q[11] = x11 /\ q[12] = x12 /\ q[13] = x13
        /\ q[14] = x14 /\ q[15] = x15 /\ q[16] = x16
  BY DEF Listed, IsProgram

(* The register and the fields of a command.                               *)
LEMMA CmdIs == \A reg, sets : Cmd(reg, sets).reg = reg /\ Cmd(reg, sets).sets = sets
  BY DEF Cmd

(* The offsets a list of commands writes, in order. *)
Writes(q, offsets) ==
  /\ IsProgram(q) /\ Len(q) = Len(offsets) /\ Len(offsets) \in Nat
  /\ \A j \in 1..Len(offsets) : q[j].reg.offset = offsets[j]

(* A register a list of commands writes at one offset only.                *)
LEMMA SoleAt ==
  ASSUME NEW q, NEW offsets, Writes(q, offsets), NEW reg, NEW i \in 1..Len(offsets),
         offsets[i] = reg.offset, \A j \in 1..Len(offsets) : offsets[j] = reg.offset => j = i
  PROVE  Sole(q, reg, q[i])
  BY DEF Writes, Sole

(* A register whose offset a list of commands does not write.              *)
LEMMA AbsentFrom ==
  ASSUME NEW q, NEW offsets, Writes(q, offsets), NEW reg,
         \A j \in 1..Len(offsets) : offsets[j] # reg.offset
  PROVE  Absent(q, reg)
  BY DEF Writes, Absent

CubeOutOffsets ==
  <<\h4004, \h5004, \h400c, \h4020, \h4024, \h4030, \h4034, \h4038, \h403c, \h4050, \h4058,
    \h405c, \h4078, \h40c0>>

(* The registers CubeOut writes.                                           *)
LEMMA CubeOutWrites ==
  ASSUME NEW s, NEW output
  PROVE  Writes(CubeOut(s, output), CubeOutOffsets)
<1> DEFINE q == CubeOut(s, output)
<1>1. /\ Len(q) = 14 /\ IsProgram(q)
      /\ q[1].reg = DpuSPointer /\ q[2].reg = DpuRdmaSPointer /\ q[3].reg = DpuFeatureModeCfg
      /\ q[4].reg = DpuDstBaseAddr /\ q[5].reg = DpuDstSurfStride /\ q[6].reg = DpuDataCubeWidth
      /\ q[7].reg = DpuDataCubeHeight /\ q[8].reg = DpuDataCubeNotchAddr
      /\ q[9].reg = DpuDataCubeChannel /\ q[10].reg = DpuBsOwCfg /\ q[11].reg = DpuWdmaSize0
      /\ q[12].reg = DpuWdmaSize1 /\ q[13].reg = DpuEwCvtScaleValue /\ q[14].reg = DpuSurfaceAdd
  BY Tuple14, CmdIs DEF CubeOut, zero
<1>2. Len(CubeOutOffsets) = 14
  BY DEF CubeOutOffsets
<1> HIDE DEF q
<1>3. /\ DpuBsOwCfg.offset = \h4050 /\ DpuDataCubeChannel.offset = \h403c
      /\ DpuDataCubeHeight.offset = \h4034 /\ DpuDataCubeNotchAddr.offset = \h4038
      /\ DpuDataCubeWidth.offset = \h4030 /\ DpuDstBaseAddr.offset = \h4020
      /\ DpuDstSurfStride.offset = \h4024 /\ DpuEwCvtScaleValue.offset = \h4078
      /\ DpuFeatureModeCfg.offset = \h400c /\ DpuRdmaSPointer.offset = \h5004
      /\ DpuSPointer.offset = \h4004 /\ DpuSurfaceAdd.offset = \h40c0
      /\ DpuWdmaSize0.offset = \h4058 /\ DpuWdmaSize1.offset = \h405c
  BY DEF Reg, DpuBsOwCfg, DpuDataCubeChannel, DpuDataCubeHeight, DpuDataCubeNotchAddr,
            DpuDataCubeWidth, DpuDstBaseAddr, DpuDstSurfStride, DpuEwCvtScaleValue,
            DpuFeatureModeCfg, DpuRdmaSPointer, DpuSPointer, DpuSurfaceAdd, DpuWdmaSize0,
            DpuWdmaSize1
<1>4. \A j \in 1..14 : q[j].reg.offset = CubeOutOffsets[j]
  BY <1>1, <1>3 DEF CubeOutOffsets
<1> QED  BY <1>1, <1>2, <1>4 DEF Writes, q

LutStagesOffsets ==
  <<\h4010, \h4040, \h4060, \h4064, \h4068, \h4070, \h4080, \h4084, \h4088>>

(* The registers LutStages writes.                                         *)
LEMMA LutStagesWrites ==
  ASSUME NEW s, NEW function
  PROVE  Writes(LutStages(s, function), LutStagesOffsets)
<1> DEFINE q == LutStages(s, function)
<1>1. /\ Len(q) = 9 /\ IsProgram(q)
      /\ q[1].reg = DpuDataFormat /\ q[2].reg = DpuBsCfg /\ q[3].reg = DpuBnCfg
      /\ q[4].reg = DpuBnAluCfg /\ q[5].reg = DpuBnMulCfg /\ q[6].reg = DpuEwCfg
      /\ q[7].reg = DpuOutCvtOffset /\ q[8].reg = DpuOutCvtScale /\ q[9].reg = DpuOutCvtShift
  BY Tuple9, CmdIs DEF LutStages
<1>2. Len(LutStagesOffsets) = 9
  BY DEF LutStagesOffsets
<1> HIDE DEF q
<1>3. /\ DpuBnAluCfg.offset = \h4064 /\ DpuBnCfg.offset = \h4060 /\ DpuBnMulCfg.offset = \h4068
      /\ DpuBsCfg.offset = \h4040 /\ DpuDataFormat.offset = \h4010 /\ DpuEwCfg.offset = \h4070
      /\ DpuOutCvtOffset.offset = \h4080 /\ DpuOutCvtScale.offset = \h4084
      /\ DpuOutCvtShift.offset = \h4088
  BY DEF Reg, DpuBnAluCfg, DpuBnCfg, DpuBnMulCfg, DpuBsCfg, DpuDataFormat, DpuEwCfg,
            DpuOutCvtOffset, DpuOutCvtScale, DpuOutCvtShift
<1>4. \A j \in 1..9 : q[j].reg.offset = LutStagesOffsets[j]
  BY <1>1, <1>3 DEF LutStagesOffsets
<1> QED  BY <1>1, <1>2, <1>4 DEF Writes, q

LutCommandsOffsets ==
  <<\h4100, \h4100, \h4108, \h410c, \h4110, \h411c, \h4120, \h4124>>

(* The registers LutCommands writes.                                       *)
LEMMA LutCommandsWrites ==
  ASSUME NEW function
  PROVE  Writes(LutCommands(function), LutCommandsOffsets)
<1> DEFINE q == LutCommands(function)
<1>1. /\ Len(q) = 8 /\ IsProgram(q)
      /\ q[1].reg = DpuLutAccessCfg /\ q[2].reg = DpuLutAccessCfg /\ q[3].reg = DpuLutCfg
      /\ q[4].reg = DpuLutInfo /\ q[5].reg = DpuLutLeStart /\ q[6].reg = DpuLutLoEnd
      /\ q[7].reg = DpuLutLeSlopeScale /\ q[8].reg = DpuLutLeSlopeShift
  BY Tuple8, CmdIs DEF LutCommands
<1>2. Len(LutCommandsOffsets) = 8
  BY DEF LutCommandsOffsets
<1> HIDE DEF q
<1>3. /\ DpuLutAccessCfg.offset = \h4100 /\ DpuLutCfg.offset = \h4108
      /\ DpuLutInfo.offset = \h410c /\ DpuLutLeSlopeScale.offset = \h4120
      /\ DpuLutLeSlopeShift.offset = \h4124 /\ DpuLutLeStart.offset = \h4110
      /\ DpuLutLoEnd.offset = \h411c
  BY DEF Reg, DpuLutAccessCfg, DpuLutCfg, DpuLutInfo, DpuLutLeSlopeScale, DpuLutLeSlopeShift,
            DpuLutLeStart, DpuLutLoEnd
<1>4. \A j \in 1..8 : q[j].reg.offset = LutCommandsOffsets[j]
  BY <1>1, <1>3 DEF LutCommandsOffsets
<1> QED  BY <1>1, <1>2, <1>4 DEF Writes, q

CubeInOffsets ==
  <<\h500c, \h5010, \h5014, \h5018, \h5068>>

(* The registers CubeIn writes.                                            *)
LEMMA CubeInWrites ==
  ASSUME NEW s, NEW input
  PROVE  Writes(CubeIn(s, input), CubeInOffsets)
<1> DEFINE q == CubeIn(s, input)
<1>1. /\ Len(q) = 5 /\ IsProgram(q)
      /\ q[1].reg = DpuRdmaDataCubeWidth /\ q[2].reg = DpuRdmaDataCubeHeight
      /\ q[3].reg = DpuRdmaDataCubeChannel /\ q[4].reg = DpuRdmaSrcBaseAddr
      /\ q[5].reg = DpuRdmaWeight
  BY Tuple5, CmdIs DEF CubeIn
<1>2. Len(CubeInOffsets) = 5
  BY DEF CubeInOffsets
<1> HIDE DEF q
<1>3. /\ DpuRdmaDataCubeChannel.offset = \h5014 /\ DpuRdmaDataCubeHeight.offset = \h5010
      /\ DpuRdmaDataCubeWidth.offset = \h500c /\ DpuRdmaSrcBaseAddr.offset = \h5018
      /\ DpuRdmaWeight.offset = \h5068
  BY DEF Reg, DpuRdmaDataCubeChannel, DpuRdmaDataCubeHeight, DpuRdmaDataCubeWidth,
            DpuRdmaSrcBaseAddr, DpuRdmaWeight
<1>4. \A j \in 1..5 : q[j].reg.offset = CubeInOffsets[j]
  BY <1>1, <1>3 DEF CubeInOffsets
<1> QED  BY <1>1, <1>2, <1>4 DEF Writes, q

PpuCommandsOffsets ==
  <<\h600c, \h6010, \h6014, \h6018, \h601c, \h6020, \h6024, \h6034, \h6038, \h603c, \h6040,
    \h6044, \h6070, \h607c, \h6084, \h60dc>>

(* The registers PpuCommands writes.                                       *)
LEMMA PpuCommandsWrites ==
  ASSUME NEW s, NEW t, NEW output_addr
  PROVE  Writes(PpuCommands(s, t, output_addr), PpuCommandsOffsets)
<1> DEFINE q == PpuCommands(s, t, output_addr)
<1>1. /\ Len(q) = 16 /\ IsProgram(q)
      /\ q[1].reg = PpuDataCubeInWidth /\ q[2].reg = PpuDataCubeInHeight
      /\ q[3].reg = PpuDataCubeInChannel /\ q[4].reg = PpuDataCubeOutWidth
      /\ q[5].reg = PpuDataCubeOutHeight /\ q[6].reg = PpuDataCubeOutChannel
      /\ q[7].reg = PpuOperationModeCfg /\ q[8].reg = PpuPoolingKernelCfg
      /\ q[9].reg = PpuRecipKernelWidth /\ q[10].reg = PpuRecipKernelHeight
      /\ q[11].reg = PpuPoolingPaddingCfg /\ q[12].reg = PpuPaddingValue1Cfg
      /\ q[13].reg = PpuDstBaseAddr /\ q[14].reg = PpuDstSurfStride /\ q[15].reg = PpuDataFormat
      /\ q[16].reg = PpuMiscCtrl
  BY Tuple16, CmdIs DEF PpuCommands
<1>2. Len(PpuCommandsOffsets) = 16
  BY DEF PpuCommandsOffsets
<1> HIDE DEF q
<1>3. /\ PpuDataCubeInChannel.offset = \h6014 /\ PpuDataCubeInHeight.offset = \h6010
      /\ PpuDataCubeInWidth.offset = \h600c /\ PpuDataCubeOutChannel.offset = \h6020
      /\ PpuDataCubeOutHeight.offset = \h601c /\ PpuDataCubeOutWidth.offset = \h6018
      /\ PpuDataFormat.offset = \h6084 /\ PpuDstBaseAddr.offset = \h6070
      /\ PpuDstSurfStride.offset = \h607c /\ PpuMiscCtrl.offset = \h60dc
      /\ PpuOperationModeCfg.offset = \h6024 /\ PpuPaddingValue1Cfg.offset = \h6044
      /\ PpuPoolingKernelCfg.offset = \h6034 /\ PpuPoolingPaddingCfg.offset = \h6040
      /\ PpuRecipKernelHeight.offset = \h603c /\ PpuRecipKernelWidth.offset = \h6038
  BY DEF Reg, PpuDataCubeInChannel, PpuDataCubeInHeight, PpuDataCubeInWidth, PpuDataCubeOutChannel,
            PpuDataCubeOutHeight, PpuDataCubeOutWidth, PpuDataFormat, PpuDstBaseAddr,
            PpuDstSurfStride, PpuMiscCtrl, PpuOperationModeCfg, PpuPaddingValue1Cfg,
            PpuPoolingKernelCfg, PpuPoolingPaddingCfg, PpuRecipKernelHeight, PpuRecipKernelWidth
<1>4. \A j \in 1..16 : q[j].reg.offset = PpuCommandsOffsets[j]
  BY <1>1, <1>3 DEF PpuCommandsOffsets
<1> QED  BY <1>1, <1>2, <1>4 DEF Writes, q

PpuRdmaCommandsOffsets ==
  <<\h700c, \h7010, \h7014, \h701c, \h7024, \h7028, \h7030>>

(* The registers PpuRdmaCommands writes.                                   *)
LEMMA PpuRdmaCommandsWrites ==
  ASSUME NEW s, NEW t, NEW input_addr
  PROVE  Writes(PpuRdmaCommands(s, t, input_addr), PpuRdmaCommandsOffsets)
<1> DEFINE q == PpuRdmaCommands(s, t, input_addr)
<1>1. /\ Len(q) = 7 /\ IsProgram(q)
      /\ q[1].reg = PpuRdmaCubeInWidth /\ q[2].reg = PpuRdmaCubeInHeight
      /\ q[3].reg = PpuRdmaCubeInChannel /\ q[4].reg = PpuRdmaSrcBaseAddr
      /\ q[5].reg = PpuRdmaSrcLineStride /\ q[6].reg = PpuRdmaSrcSurfStride
      /\ q[7].reg = PpuRdmaDataFormat
  BY Tuple7, CmdIs DEF PpuRdmaCommands
<1>2. Len(PpuRdmaCommandsOffsets) = 7
  BY DEF PpuRdmaCommandsOffsets
<1> HIDE DEF q
<1>3. /\ PpuRdmaCubeInChannel.offset = \h7014 /\ PpuRdmaCubeInHeight.offset = \h7010
      /\ PpuRdmaCubeInWidth.offset = \h700c /\ PpuRdmaDataFormat.offset = \h7030
      /\ PpuRdmaSrcBaseAddr.offset = \h701c /\ PpuRdmaSrcLineStride.offset = \h7024
      /\ PpuRdmaSrcSurfStride.offset = \h7028
  BY DEF Reg, PpuRdmaCubeInChannel, PpuRdmaCubeInHeight, PpuRdmaCubeInWidth, PpuRdmaDataFormat,
            PpuRdmaSrcBaseAddr, PpuRdmaSrcLineStride, PpuRdmaSrcSurfStride
<1>4. \A j \in 1..7 : q[j].reg.offset = PpuRdmaCommandsOffsets[j]
  BY <1>1, <1>3 DEF PpuRdmaCommandsOffsets
<1> QED  BY <1>1, <1>2, <1>4 DEF Writes, q
-----------------------------------------------------------------------------
(* A register only the stages around the table write keeps what they wrote. *)
LEMMA LutSole ==
  ASSUME NEW s, NEW function, NEW buffers, NEW reg, NEW c, Sole(LutStages(s, function), reg, c),
         reg.offset \in {\h4064, \h4068, \h4080}
  PROVE  Sole(build_lut_regcmd(s, function, buffers), reg, c)
<1> DEFINE A == CubeOut(s, buffers.output)
           B == LutStages(s, function)
           C == LutCommands(function)
           D == CubeIn(s, buffers.input)
           E == <<Cmd(DpuRdmaErdmaCfg, <<<<"erdma_disable", 1>>>>),
                  Cmd(DpuRdmaFeatureModeCfg, <<<<"flying_mode", 1>>, <<"burst_len", 15>>>>)>>
<1>1. /\ Writes(A, CubeOutOffsets) /\ Writes(B, LutStagesOffsets)
      /\ Writes(C, LutCommandsOffsets) /\ Writes(D, CubeInOffsets)
  BY CubeOutWrites, LutStagesWrites, LutCommandsWrites, CubeInWrites
<1>2. IsProgram(E) /\ Len(E) = 2 /\ E[1].reg = DpuRdmaErdmaCfg /\ E[2].reg = DpuRdmaFeatureModeCfg
  BY Tuple2, CmdIs
<1>3. build_lut_regcmd(s, function, buffers) = A \o B \o C \o D \o E
  BY DEF build_lut_regcmd
<1> HIDE DEF A, B, C, D, E
<1>4. /\ IsProgram(A) /\ IsProgram(B) /\ IsProgram(C) /\ IsProgram(D)
  BY <1>1 DEF Writes
<1>5. Absent(A, reg)
  <2>1. \A j \in 1..Len(CubeOutOffsets) : CubeOutOffsets[j] # reg.offset
    BY DEF CubeOutOffsets
  <2> QED  BY <1>1, <2>1, AbsentFrom
<1>6. Absent(C, reg)
  <2>1. \A j \in 1..Len(LutCommandsOffsets) : LutCommandsOffsets[j] # reg.offset
    BY DEF LutCommandsOffsets
  <2> QED  BY <1>1, <2>1, AbsentFrom
<1>7. Absent(D, reg)
  <2>1. \A j \in 1..Len(CubeInOffsets) : CubeInOffsets[j] # reg.offset
    BY DEF CubeInOffsets
  <2> QED  BY <1>1, <2>1, AbsentFrom
<1>8. Absent(E, reg)
  <2>1. E[1].reg.offset = \h5034 /\ E[2].reg.offset = \h5044
    BY <1>2 DEF DpuRdmaErdmaCfg, DpuRdmaFeatureModeCfg, Reg
  <2>2. \A j \in 1..2 : j = 1 \/ j = 2
    OBVIOUS
  <2> QED  BY <1>2, <2>1, <2>2 DEF Absent
<1>9. Sole(B, reg, c)
  BY DEF B
<1>10. Sole(A \o B, reg, c) /\ IsProgram(A \o B)
  BY <1>4, <1>5, <1>9, SoleSecond, ConcatProgram
<1>11. Sole(A \o B \o C, reg, c) /\ IsProgram(A \o B \o C)
  BY <1>4, <1>6, <1>10, SoleFirst, ConcatProgram
<1>12. Sole(A \o B \o C \o D, reg, c) /\ IsProgram(A \o B \o C \o D)
  BY <1>4, <1>7, <1>11, SoleFirst, ConcatProgram
<1>13. Sole(A \o B \o C \o D \o E, reg, c)
  BY <1>2, <1>8, <1>12, SoleFirst
<1> QED  BY <1>3, <1>13

(* The value of a field a chain sets once.                                 *)
LEMMA ValueAt ==
  ASSUME NEW c, NEW name, NEW i \in 1..Len(c.sets), c.sets[i][1] = name,
         \A j \in 1..Len(c.sets) : c.sets[j][1] = name => j = i
  PROVE  ValueOf(c, name) = c.sets[i][2]
<1>1. {j \in 1..Len(c.sets) : c.sets[j][1] = name} = {i}
  OBVIOUS
<1>2. (CHOOSE k \in {i} : \A j \in {i} : j <= k) = i
  <2>1. i <= i
    <3>1. i \in Int
      OBVIOUS
    <3> QED  BY <3>1
  <2> QED  BY <2>1
<1> QED  BY <1>1, <1>2 DEF ValueOf

(* The one field of a chain of one, and the first of a chain of four.      *)
LEMMA ValueAlone ==
  ASSUME NEW reg, NEW name, NEW value
  PROVE  ValueOf(Cmd(reg, <<<<name, value>>>>), name) = value
<1> DEFINE sets == <<<<name, value>>>>
           c == Cmd(reg, sets)
<1>1. Len(sets) = 1 /\ sets[1][1] = name /\ sets[1][2] = value
  OBVIOUS
<1> HIDE DEF sets
<1>2. c.sets = sets
  BY CmdIs
<1> HIDE DEF c
<1>3. PICK i : i \in 1..Len(c.sets) /\ i = 1
  <2>1. Len(c.sets) = 1 /\ 1 \in 1..1
    BY <1>1, <1>2
  <2> QED  BY <2>1
<1>4. ValueOf(c, name) = c.sets[i][2]
  <2>1. c.sets[i][1] = name /\ \A j \in 1..Len(c.sets) : c.sets[j][1] = name => j = i
    <3>1. \A j \in 1..1 : j = 1
      OBVIOUS
    <3> QED  BY <1>1, <1>2, <1>3, <3>1
  <2> QED  BY <1>3, <2>1, ValueAt
<1>5. ValueOf(c, name) = value
  BY <1>1, <1>2, <1>3, <1>4
<1> QED  BY <1>5 DEF c, sets

(* What the curve's program multiplies by, adds and offsets its output by. *)
LEMMA LutProgram ==
  ASSUME NEW s, NEW function, NEW buffers
  PROVE  LET p == build_lut_regcmd(s, function, buffers)
             mul == lut_bn_mul(s.input_scale, bn_scale_k(function))[1]
         IN  /\ Programmed(p, DpuBnAluCfg, "bn_alu_operand")
                  = lut_bn_alu(Unbiased(s.input_zero_point), mul)
             /\ Programmed(p, DpuBnMulCfg, "bn_mul_operand") = mul
             /\ Programmed(p, DpuOutCvtOffset, "out_cvt_offset") = s.output_zero_point - 128
<1> DEFINE p == build_lut_regcmd(s, function, buffers)
           m == lut_bn_mul(s.input_scale, bn_scale_k(function))
           B == LutStages(s, function)
           alu == lut_bn_alu(Unbiased(s.input_zero_point), m[1])
           off == s.output_zero_point - 128
<1>1. /\ B[4] = Cmd(DpuBnAluCfg, <<<<"bn_alu_operand", alu>>>>)
      /\ B[5] = Cmd(DpuBnMulCfg, <<<<"bn_mul_operand", m[1]>>, <<"bn_mul_shift_value", m[2]>>,
                                   <<"bn_mul_src", 0>>, <<"bn_truncate_src", 0>>>>)
      /\ B[7] = Cmd(DpuOutCvtOffset, <<<<"out_cvt_offset", off>>>>)
  BY Tuple9 DEF LutStages
<1>2. Writes(B, LutStagesOffsets) /\ Len(LutStagesOffsets) = 9
  BY LutStagesWrites DEF LutStagesOffsets
<1>3. /\ DpuBnAluCfg.offset = \h4064 /\ DpuBnMulCfg.offset = \h4068 /\ DpuOutCvtOffset.offset = \h4080
  BY DEF DpuBnAluCfg, DpuBnMulCfg, DpuOutCvtOffset, Reg
<1> HIDE DEF B, m, alu, off, p
<1>4. /\ LutStagesOffsets[4] = \h4064 /\ LutStagesOffsets[5] = \h4068 /\ LutStagesOffsets[7] = \h4080
      /\ \A j \in 1..9 : LutStagesOffsets[j] = \h4064 => j = 4
      /\ \A j \in 1..9 : LutStagesOffsets[j] = \h4068 => j = 5
      /\ \A j \in 1..9 : LutStagesOffsets[j] = \h4080 => j = 7
  BY DEF LutStagesOffsets
<1>5. Sole(B, DpuBnAluCfg, B[4])
  <2>1. PICK i \in 1..Len(LutStagesOffsets) : i = 4
    BY <1>2
  <2>2. LutStagesOffsets[i] = DpuBnAluCfg.offset
    BY <1>3, <1>4, <2>1
  <2>3. \A j \in 1..Len(LutStagesOffsets) : LutStagesOffsets[j] = DpuBnAluCfg.offset => j = i
    BY <1>2, <1>3, <1>4, <2>1
  <2>4. Sole(B, DpuBnAluCfg, B[i])
    BY <1>2, <2>2, <2>3, SoleAt
  <2> QED  BY <2>1, <2>4
<1>6. Sole(B, DpuBnMulCfg, B[5])
  <2>1. PICK i \in 1..Len(LutStagesOffsets) : i = 5
    BY <1>2
  <2>2. LutStagesOffsets[i] = DpuBnMulCfg.offset
    BY <1>3, <1>4, <2>1
  <2>3. \A j \in 1..Len(LutStagesOffsets) : LutStagesOffsets[j] = DpuBnMulCfg.offset => j = i
    BY <1>2, <1>3, <1>4, <2>1
  <2>4. Sole(B, DpuBnMulCfg, B[i])
    BY <1>2, <2>2, <2>3, SoleAt
  <2> QED  BY <2>1, <2>4
<1>7. Sole(B, DpuOutCvtOffset, B[7])
  <2>1. PICK i \in 1..Len(LutStagesOffsets) : i = 7
    BY <1>2
  <2>2. LutStagesOffsets[i] = DpuOutCvtOffset.offset
    BY <1>3, <1>4, <2>1
  <2>3. \A j \in 1..Len(LutStagesOffsets) : LutStagesOffsets[j] = DpuOutCvtOffset.offset => j = i
    BY <1>2, <1>3, <1>4, <2>1
  <2>4. Sole(B, DpuOutCvtOffset, B[i])
    BY <1>2, <2>2, <2>3, SoleAt
  <2> QED  BY <2>1, <2>4
<1>8. /\ Sole(p, DpuBnAluCfg, B[4]) /\ Sole(p, DpuBnMulCfg, B[5]) /\ Sole(p, DpuOutCvtOffset, B[7])
  BY <1>3, <1>5, <1>6, <1>7, LutSole DEF B, p
<1>9. /\ Programmed(p, DpuBnAluCfg, "bn_alu_operand") = ValueOf(B[4], "bn_alu_operand")
      /\ Programmed(p, DpuBnMulCfg, "bn_mul_operand") = ValueOf(B[5], "bn_mul_operand")
      /\ Programmed(p, DpuOutCvtOffset, "out_cvt_offset") = ValueOf(B[7], "out_cvt_offset")
  BY <1>8, SoleIs
<1>10. ValueOf(B[4], "bn_alu_operand") = alu
  BY <1>1, ValueAlone
<1>11. ValueOf(B[5], "bn_mul_operand") = m[1]
  <2> DEFINE sets == <<<<"bn_mul_operand", m[1]>>, <<"bn_mul_shift_value", m[2]>>,
                       <<"bn_mul_src", 0>>, <<"bn_truncate_src", 0>>>>
             c == B[5]
  <2>1. Len(sets) = 4 /\ sets[1][1] = "bn_mul_operand" /\ sets[1][2] = m[1]
        /\ sets[2][1] # "bn_mul_operand" /\ sets[3][1] # "bn_mul_operand"
        /\ sets[4][1] # "bn_mul_operand"
    OBVIOUS
  <2>2. c.sets = sets
    BY <1>1, CmdIs
  <2> HIDE DEF c, sets
  <2>3. Len(c.sets) = 4
    BY <2>1, <2>2
  <2>4. PICK i : i = 1
    OBVIOUS
  <2>5. \A j \in 1..4 : j \in {1, 2, 3, 4}
    OBVIOUS
  <2>6. i \in 1..Len(c.sets) /\ c.sets[i][1] = "bn_mul_operand"
        /\ \A j \in 1..Len(c.sets) : c.sets[j][1] = "bn_mul_operand" => j = i
    <3>1. i \in 1..4
      BY <2>4
    <3>2. c.sets[i][1] = "bn_mul_operand"
      BY <2>1, <2>2, <2>4
    <3>3. \A j \in 1..4 : c.sets[j][1] = "bn_mul_operand" => j = i
      BY <2>1, <2>2, <2>4, <2>5
    <3> QED  BY <2>3, <3>1, <3>2, <3>3
  <2>7. ValueOf(c, "bn_mul_operand") = c.sets[i][2]
    BY <2>6, ValueAt
  <2>8. ValueOf(c, "bn_mul_operand") = m[1]
    BY <2>1, <2>2, <2>4, <2>7
  <2> QED  BY <2>8 DEF c
<1>12. ValueOf(B[7], "out_cvt_offset") = off
  BY <1>1, ValueAlone
<1>13. /\ Programmed(p, DpuBnAluCfg, "bn_alu_operand") = alu
       /\ Programmed(p, DpuBnMulCfg, "bn_mul_operand") = m[1]
       /\ Programmed(p, DpuOutCvtOffset, "out_cvt_offset") = off
  BY <1>9, <1>10, <1>11, <1>12
<1> QED  BY <1>13 DEF p, alu, m, off

(* Biasing a signed byte and taking the bias off again gives it back.      *)
LEMMA ByteBack ==
  ASSUME NEW z \in Int, z >= -128, z <= 127
  PROVE  Biased(z) - 128 = z /\ Unbiased(Biased(z)) = z
  BY DEF Biased, Unbiased

(* The call's words are the values it means, name by name.                 *)
LEMMA Meaning ==
  ASSUME IInv, target # NONE, resolved # NONE
  PROVE  /\ IsTarget(target) /\ Parses(target) /\ Faithful(exec, target) /\ Prepared(exec)
         /\ exec.precision = target.precision
         /\ Pushes(call, exec) /\ MeansItsWords(call, target)
         /\ resolve_shape(exec, call.words) /\ resolved = ResolvedOf(exec, call.words)
         /\ Len(call.words) = ConstantCount(exec) /\ ConstantCount(exec) = ConstantCount(target)
<1>1. exec # NONE /\ Prepared(exec) /\ Decoded
  BY ExecPrepared DEF IInv, FileInv, CallInv
<1>2. /\ IsTarget(target) /\ Parses(target) /\ file = Encode(target) /\ target \in Targets
      /\ Declared = target
  BY <1>1, TargetsAssumption DEF IInv, FileInv, Declared
<1>3. Faithful(exec, target) /\ exec.precision \in {target.precision, UNKNOWN} /\ exec.precision # UNKNOWN
  BY <1>1, <1>2, ParsedFaithful, PrecisionKept DEF Decoded, Prepared
<1>4. call \in DispatchesOf(target) /\ resolve_shape(exec, call.words)
      /\ resolved = ResolvedOf(exec, call.words)
  BY <1>2 DEF IInv, CallInv
<1>5. Pushes(call, exec) /\ MeansItsWords(call, target)
  BY <1>2, <1>4, CallPushes, TargetsAssumption
<1>6. ConstantCount(exec) = ConstantCount(target)
  BY <1>3 DEF Faithful, ConstantCount, Trailing
<1>7. Len(call.words) = ConstantCount(exec)
  BY <1>4 DEF resolve_shape
<1> QED  BY <1>1, <1>2, <1>3, <1>4, <1>5, <1>6, <1>7

(* Name by name, in the order of the two lists.                            *)
LEMMA MeantWords ==
  ASSUME IInv, target # NONE, resolved # NONE
  PROVE  /\ DOMAIN call.values = Listed(exec.runtime) \cup Listed(exec.quant)
         /\ \A name \in DOMAIN call.values : WordOf(exec, call.words, name) = call.values[name]
<1> DEFINE S == DimNames(exec.kernel) \cup Listed(QuantParams)
           a == exec.runtime
           b == exec.quant
           words == call.words
           values == call.values
<1>1. /\ Prepared(exec) /\ Faithful(exec, target) /\ Pushes(call, exec)
      /\ MeansItsWords(call, target) /\ Len(words) = ConstantCount(exec)
      /\ ConstantCount(exec) = ConstantCount(target)
  BY Meaning
<1>2. a \in Seq(S) /\ b \in Seq(S) /\ words \in Seq(Int)
  BY <1>1 DEF Prepared, Pushes
<1>3. target.runtime = a /\ target.quant = b
  BY <1>1 DEF Faithful
<1>4. DOMAIN values = Listed(a \o b) /\ \A i \in DOMAIN (a \o b) : words[i] = values[(a \o b)[i]]
  <2> DEFINE names == target.runtime \o target.quant
  <2>0. MeansItsWords(call, target)
    BY <1>1
  <2>1. DOMAIN values = Listed(names)
        /\ (Len(words) = ConstantCount(target) => \A i \in DOMAIN names : words[i] = values[names[i]])
    <3>1. DOMAIN values = Listed(names)
      BY <2>0, Zenon DEF MeansItsWords
    <3>2. Len(words) = ConstantCount(target) => \A i \in DOMAIN names : words[i] = values[names[i]]
      BY <2>0, Zenon DEF MeansItsWords
    <3> QED  BY <3>1, <3>2
  <2>2. names = a \o b
    BY <1>3
  <2> HIDE DEF names, a, b, words, values
  <2> QED  BY <1>1, <2>1, <2>2
<1>5. ASSUME NEW name \in Listed(a) \cup Listed(b)
      PROVE  name \in Listed(a \o b) /\ WordOf(exec, words, name) = values[name]
  <2>1. PICK i \in DOMAIN (a \o b) : (a \o b)[i] = name /\ WordOf(exec, words, name) = words[i]
    <3>1. /\ exec.runtime \in Seq(S) /\ exec.quant \in Seq(S) /\ words \in Seq(Int)
          /\ Len(words) = ConstantCount(exec)
          /\ name \in Listed(exec.runtime) \cup Listed(exec.quant)
      BY <1>1, <1>2
    <3> HIDE DEF S, words
    <3>2. \E i \in DOMAIN (exec.runtime \o exec.quant) :
           /\ (exec.runtime \o exec.quant)[i] = name /\ WordOf(exec, words, name) = words[i]
           /\ i \in DOMAIN words
           /\ i \in DOMAIN exec.runtime \/ name \in Listed(exec.quant)
      BY <3>1, WordAt
    <3> QED  BY <3>2
  <2> QED  BY <1>4, <2>1 DEF Listed
<1>6. Listed(a \o b) \subseteq Listed(a) \cup Listed(b)
  <2> DEFINE p == a \o b
             m == Len(a)
             n == Len(b)
  <2> HIDE DEF S, a, b
  <2>1. /\ DOMAIN p = 1..(m + n)
        /\ \A i \in 1..m : p[i] = a[i]
        /\ \A i \in 1..n : p[m + i] = b[i]
    BY <1>2, JoinedIs
  <2>2. m \in Nat /\ n \in Nat /\ DOMAIN a = 1..m /\ DOMAIN b = 1..n
    BY <1>2
  <2> HIDE DEF p, m, n
  <2>3. ASSUME NEW i \in DOMAIN p PROVE p[i] \in Listed(a) \cup Listed(b)
    <3>1. i \in 1..m \/ (i - m \in 1..n /\ m + (i - m) = i)
      BY <2>1, <2>2, SplitAt
    <3>2. CASE i \in 1..m
      BY <2>1, <2>2, <3>2 DEF Listed
    <3>3. CASE i - m \in 1..n /\ m + (i - m) = i
      <4>1. p[i] = b[i - m]
        BY <2>1, <3>3
      <4> QED  BY <2>2, <3>3, <4>1 DEF Listed
    <3> QED  BY <3>1, <3>2, <3>3
  <2>4. Listed(p) \subseteq Listed(a) \cup Listed(b)
    BY <2>3 DEF Listed
  <2> QED  BY <2>4 DEF p
<1> HIDE DEF a, b
<1>7. DOMAIN values = Listed(a) \cup Listed(b)
      /\ \A name \in DOMAIN values : WordOf(exec, words, name) = values[name]
  BY <1>4, <1>5, <1>6
<1> QED  BY <1>7 DEF a, b
-----------------------------------------------------------------------------
(* Half of a word is a positive number of values.                          *)
LEMMA HalfWordIs == HalfWord \in Nat /\ HalfWord > 0
  BY DEF HalfWord

(* The halves of a word of two.                                            *)
LEMMA Halves ==
  ASSUME NEW i \in 0..(HalfWord - 1), NEW r \in 0..(HalfWord - 1)
  PROVE  /\ (i + HalfWord * r) % HalfWord = i /\ (i + HalfWord * r) \div HalfWord = r
         /\ Min2(r, HalfWord - 1) = r
<1>1. HalfWord \in Nat /\ HalfWord > 0
  BY HalfWordIs
<1> DEFINE H == HalfWord
           word == i + H * r
<1> HIDE DEF H
<1>2. H \in Nat /\ H > 0 /\ i \in 0..(H - 1) /\ r \in 0..(H - 1)
  BY <1>1 DEF H
<1>3. word % H = i /\ word \div H = r
  <2>1. word \in Int /\ word = H * r + i /\ 0 <= i /\ i < H /\ r \in Int
    BY <1>2
  <2>2. word = H * (word \div H) + (word % H) /\ (word % H) \in 0..(H - 1) /\ (word \div H) \in Int
    BY <1>2, <2>1
  <2> DEFINE q == word \div H
             m == word % H
  <2> HIDE DEF q, m
  <2>3. q \in Int /\ m \in 0..(H - 1) /\ H * r + i = H * q + m
    BY <2>1, <2>2 DEF q, m
  <2>4. q = r
    <3>1. CASE q >= r + 1
      <4>1. H * q >= H * (r + 1)
        BY <1>2, <2>3, <3>1
      <4>2. H * (r + 1) = H * r + H
        BY <1>2
      <4> QED  BY <1>2, <2>3, <4>1, <4>2
    <3>2. CASE r >= q + 1
      <4>1. H * r >= H * (q + 1)
        BY <1>2, <2>3, <3>2
      <4>2. H * (q + 1) = H * q + H
        BY <1>2, <2>3
      <4> QED  BY <1>2, <2>3, <4>1, <4>2
    <3> QED  BY <1>2, <2>3, <3>1, <3>2
  <2>5. m = i
    BY <1>2, <2>3, <2>4
  <2> QED  BY <2>4, <2>5 DEF q, m
<1>4. Min2(r, H - 1) = r
  BY <1>2 DEF Min2
<1> QED  BY <1>3, <1>4 DEF H

(* The trailing word carries what the caller said of its layout.           *)
LEMMA LayoutMeant ==
  ASSUME NEW e, NEW t, NEW d, e.layout = t.layout, e.dense_readers = t.dense_readers,
         MeansItsWords(d, t), d.words \in Seq(Int), Len(d.words) = ConstantCount(t),
         t.runtime \in Seq(STRING), t.quant \in Seq(Listed(QuantParams))
  PROVE  LET l == trailing_layout(e, d.words)
         IN  /\ l.packed_readers = IF Trailing(t) THEN d.readers ELSE 0
             /\ l.packed_inputs = IF t.layout THEN d.inputs ELSE 0
<1> DEFINE words == d.words
           word == words[Len(words)]
<1>1. Trailing(e) = Trailing(t)
  BY DEF Trailing
<1>2. CASE ~Trailing(t)
  <2>1. trailing_layout(e, words) = [packed_inputs |-> 0, packed_readers |-> 0]
    BY <1>1, <1>2 DEF trailing_layout
  <2>2. ~t.layout
    BY <1>2 DEF Trailing
  <2> QED  BY <1>2, <2>1, <2>2
<1>3. CASE Trailing(t)
  <2>1. words # <<>>
    <3>1. Len(words) = Len(t.runtime) + Len(t.quant) + 1
      BY <1>3 DEF ConstantCount, Flag
    <3>2. Len(t.runtime) \in Nat /\ Len(t.quant) \in Nat
      OBVIOUS
    <3> DEFINE a == Len(t.runtime)
               b == Len(t.quant)
               c == Len(words)
    <3> HIDE DEF a, b, c
    <3>3. c # 0
      <4>1. a \in Nat /\ b \in Nat /\ c = a + b + 1
        BY <3>1, <3>2 DEF a, b, c
      <4> QED  BY <4>1
    <3>4. Len(<<>>) = 0
      OBVIOUS
    <3> QED  BY <3>3, <3>4 DEF c
  <2>2. d.inputs \in 0..(HalfWord - 1) /\ d.readers \in 0..(HalfWord - 1)
    BY Zenon DEF MeansItsWords
  <2>3. word = IF t.layout THEN d.inputs + HalfWord * d.readers ELSE d.readers
    BY <1>3, Zenon DEF MeansItsWords
  <2>4. CASE t.layout
    <3>1. trailing_layout(e, words) = [packed_inputs |-> word % HalfWord, packed_readers |-> word \div HalfWord]
      BY <1>1, <1>3, <2>1, <2>4 DEF trailing_layout
    <3>2. word % HalfWord = d.inputs /\ word \div HalfWord = d.readers
      BY <2>2, <2>3, <2>4, Halves
    <3> HIDE DEF word, words
    <3>3. trailing_layout(e, words) = [packed_inputs |-> d.inputs, packed_readers |-> d.readers]
      BY <3>1, <3>2
    <3> QED  BY <1>3, <2>4, <3>3 DEF words
  <2>5. CASE ~t.layout
    <3>1. trailing_layout(e, words) = [packed_inputs |-> 0, packed_readers |-> Min2(word, HalfWord - 1)]
      BY <1>1, <1>3, <2>1, <2>5 DEF trailing_layout
    <3>2. Min2(word, HalfWord - 1) = d.readers
      <4>1. word = d.readers
        BY <2>3, <2>5
      <4>2. Min2(d.readers, HalfWord - 1) = d.readers
        BY <2>2, Halves
      <4> QED  BY <4>1, <4>2
    <3> QED  BY <1>3, <2>5, <3>1, <3>2
  <2> QED  BY <2>4, <2>5
<1> QED  BY <1>2, <1>3

(* No dimension has the name of a quantisation parameter.                  *)
LEMMA NamesApart ==
  ASSUME NEW kernel \in Kernels, NEW n \in DimNames(kernel)
  PROVE  n \notin Listed(QuantParams)
  BY DEF Listed, QuantParams, DimNames, DimensionsOf, Kernels, RETIRED

(* A file keeps the names of the dimensions.                               *)
LEMMA SameNames ==
  ASSUME NEW e, NEW t, Faithful(e, t)
  PROVE  DimNames(e.kernel) = DimNames(t.kernel)
  BY DEF Faithful, DimNames, DimensionsOf

(* The resolved shape is the one the target fixed or the caller pushed.    *)
LEMMA ShapeMeant ==
  ASSUME IInv, target # NONE, resolved # NONE
  PROVE  LET Meant(name, fixed) == IF name \in DOMAIN call.values THEN call.values[name] ELSE fixed
         IN  /\ \A n \in DimNames(target.kernel) :
                  resolved.dims[n] = Meant(n, target.dims[n]) /\ resolved.dims[n] >= 1
             /\ resolved.zps = <<Meant("input_zero_point", target.zps[1]),
                                 Meant("output_zero_point", target.zps[2]), target.zps[3]>>
             /\ resolved.scale = Meant("output_scale", target.scales[3])
<1> DEFINE Meant(name, fixed) == IF name \in DOMAIN call.values THEN call.values[name] ELSE fixed
           words == call.words
<1>1. /\ Prepared(exec) /\ Faithful(exec, target) /\ Pushes(call, exec)
      /\ resolve_shape(exec, words) /\ resolved = ResolvedOf(exec, words)
  BY Meaning
<1>2. /\ DOMAIN call.values = Listed(exec.runtime) \cup Listed(exec.quant)
      /\ \A name \in DOMAIN call.values : WordOf(exec, words, name) = call.values[name]
  BY MeantWords
<1>3. /\ exec.kernel \in Kernels /\ Listed(exec.runtime) \subseteq DimNames(exec.kernel)
      /\ Listed(exec.quant) \subseteq Listed(QuantParams)
      /\ exec.dims \in [DimNames(exec.kernel) -> Nat]
  BY <1>1 DEF Prepared, Listed, Shaped
<1>4. /\ exec.dims = target.dims /\ exec.zps = target.zps /\ exec.scales = target.scales
      /\ DimNames(exec.kernel) = DimNames(target.kernel)
  BY <1>1, SameNames DEF Faithful
<1>5. ASSUME NEW n \in DimNames(target.kernel)
      PROVE  resolved.dims[n] = Meant(n, target.dims[n]) /\ resolved.dims[n] >= 1
  <2>1. ResolvedDims(exec, words) \in [DimNames(exec.kernel) -> Nat \ {0}]
    BY <1>1, DimsResolved
  <2>2. resolved.dims = ResolvedDims(exec, words)
    BY <1>1 DEF ResolvedOf
  <2>3. resolved.dims[n] >= 1
    BY <1>4, <2>1, <2>2
  <2>4. resolved.dims[n] = IF n \in Listed(exec.runtime) THEN WordOf(exec, words, n) ELSE exec.dims[n]
    BY <1>3, <1>4, <2>2 DEF ResolvedDims
  <2>5. n \notin Listed(exec.quant)
    BY <1>3, <1>4, NamesApart
  <2> QED  BY <1>2, <1>4, <2>3, <2>4, <2>5
<1>6. ASSUME NEW name \in Listed(QuantParams)
      PROVE  (name \in Listed(exec.quant)) <=> (name \in DOMAIN call.values)
  BY <1>2, <1>3, NamesApart
<1>7. {"input_zero_point", "output_zero_point", "output_scale"} \subseteq Listed(QuantParams)
  BY DEF Listed, QuantParams
<1>8. resolved.zps = <<ResolvedZeroPoint(exec, words, "input_zero_point", 1),
                       ResolvedZeroPoint(exec, words, "output_zero_point", 2), exec.zps[3]>>
      /\ resolved.scale = IF "output_scale" \in Listed(exec.quant) THEN WordOf(exec, words, "output_scale")
                          ELSE exec.scales[3]
  BY <1>1 DEF ResolvedOf
<1>9. ResolvedZeroPoint(exec, words, "input_zero_point", 1) = Meant("input_zero_point", target.zps[1])
  BY <1>2, <1>4, <1>6, <1>7 DEF ResolvedZeroPoint
<1>10. ResolvedZeroPoint(exec, words, "output_zero_point", 2) = Meant("output_zero_point", target.zps[2])
  BY <1>2, <1>4, <1>6, <1>7 DEF ResolvedZeroPoint
<1>11. resolved.scale = Meant("output_scale", target.scales[3])
  BY <1>2, <1>4, <1>6, <1>7, <1>8
<1>12. resolved.zps = <<Meant("input_zero_point", target.zps[1]),
                        Meant("output_zero_point", target.zps[2]), target.zps[3]>>
  BY <1>4, <1>8, <1>9, <1>10
<1> QED  BY <1>5, <1>11, <1>12

(* A curve's program answers in the target's own signed zero points.       *)
LEMMA CurveMeant ==
  ASSUME IInv, target # NONE, resolved # NONE, exec.kernel = "elementwise_lut", program # NONE
  PROVE  /\ P(DpuBnAluCfg, "bn_alu_operand") = -target.zps[1] * P(DpuBnMulCfg, "bn_mul_operand")
         /\ P(DpuOutCvtOffset, "out_cvt_offset") = target.zps[2]
<1> DEFINE s == LutShapeOf(exec, resolved.dims)
           mul == lut_bn_mul(s.input_scale, bn_scale_k(exec.op))[1]
<1>1. Prepared(exec) /\ Faithful(exec, target)
  BY Meaning
<1>2. /\ exec.zps[1] \in {-128, -2, 0, 127} /\ exec.zps[2] \in -128..127
      /\ exec.zps = target.zps
  BY <1>1 DEF Prepared, validate_template, LutTemplate, Faithful
<1>3. program = build_lut_regcmd(s, exec.op, Buffers)
  BY DEF IInv, ProgramInv
<1>4. s.input_zero_point = Biased(exec.zps[1]) /\ s.output_zero_point = Biased(exec.zps[2])
  BY DEF LutShapeOf
<1> HIDE DEF s
<1>5. /\ Programmed(program, DpuBnAluCfg, "bn_alu_operand")
           = lut_bn_alu(Unbiased(s.input_zero_point), mul)
      /\ Programmed(program, DpuBnMulCfg, "bn_mul_operand") = mul
      /\ Programmed(program, DpuOutCvtOffset, "out_cvt_offset") = s.output_zero_point - 128
  BY <1>3, LutProgram
<1> HIDE DEF mul
<1>6. Unbiased(s.input_zero_point) = exec.zps[1]
  BY <1>2, <1>4, ByteBack
<1>7. s.output_zero_point - 128 = exec.zps[2]
  BY <1>2, <1>4, ByteBack
<1> QED  BY <1>2, <1>5, <1>6, <1>7 DEF P, lut_bn_alu

(* A resolved shape is as it was meant.                                    *)
LEMMA AsMeant ==
  ASSUME IInv
  PROVE  ResolvedAsMeant
<1> SUFFICES ASSUME target # NONE, resolved # NONE
             PROVE  ResolvedAsMeant
  BY DEF ResolvedAsMeant
<1>1. /\ IsTarget(target) /\ Faithful(exec, target) /\ exec.precision = target.precision
      /\ Pushes(call, exec) /\ MeansItsWords(call, target)
      /\ resolved = ResolvedOf(exec, call.words)
      /\ Len(call.words) = ConstantCount(target)
  BY Meaning
<1>2. resolved.layout = trailing_layout(exec, call.words)
  BY <1>1 DEF ResolvedOf
<1>3. /\ exec.layout = target.layout /\ exec.dense_readers = target.dense_readers
      /\ call.words \in Seq(Int)
      /\ target.runtime \in Seq(STRING) /\ target.quant \in Seq(Listed(QuantParams))
  BY <1>1 DEF Faithful, Pushes, IsTarget
<1>4. /\ resolved.layout.packed_readers = IF Trailing(target) THEN call.readers ELSE 0
      /\ resolved.layout.packed_inputs = IF target.layout THEN call.inputs ELSE 0
  BY <1>1, <1>2, <1>3, LayoutMeant
<1>5. <<exec.op, exec.precision, exec.activation, exec.epilogue>>
        = <<target.op, target.precision, target.activation, target.epilogue>>
  BY <1>1 DEF Faithful
<1> QED  BY <1>4, <1>5, ShapeMeant, CurveMeant DEF ResolvedAsMeant

(* A dispatch runs what the compiler was asked for: for every target, every*)
(* list of runtime names and every call that means its words, the          *)
(* dimensions, zero points, scale and layout are those fixed or pushed by  *)
(* name, no dimension is zero, and a curve's program is biased by the      *)
(* target's own zero points.                                               *)
THEOREM ResolvedAsMeantAlways == Spec => []ResolvedAsMeant
  BY ExecutableInvariant, AsMeant, PTL
-----------------------------------------------------------------------------
(* A nonempty set of naturals has a least member.                          *)
LEMMA Least ==
  ASSUME NEW T \in SUBSET Nat, T # {}
  PROVE  \E n \in T : \A m \in T : n <= m
<1> DEFINE Less == OpToRel(<, Nat)
<1>1. PICK n \in T : \A m \in T : <<m, n>> \notin Less
  <2>1. IsWellFoundedOn(Less, Nat)
    BY NatLessThanWellFounded
  <2> HIDE DEF Less
  <2> QED  BY <2>1, WFMin
<1>2. ASSUME NEW m \in T PROVE n <= m
  <2>1. n \in Nat /\ m \in Nat /\ <<m, n>> \notin Less
    BY <1>1
  <2>2. m < n => <<m, n>> \in Less
    BY <2>1 DEF OpToRel
  <2> HIDE DEF Less
  <2> QED  BY <2>1, <2>2
<1> QED  BY <1>2

(* Induction over the naturals, for a set.                                 *)
LEMMA Induction ==
  ASSUME NEW T, 0 \in T, \A n \in Nat : n \in T => n + 1 \in T
  PROVE  Nat \subseteq T
<1>1. SUFFICES ASSUME Nat \ T # {} PROVE FALSE
  OBVIOUS
<1>2. PICK n \in Nat \ T : \A m \in Nat \ T : n <= m
  <2>1. Nat \ T \in SUBSET Nat
    OBVIOUS
  <2> QED  BY <1>1, <2>1, Least
<1>3. n # 0 /\ n - 1 \in Nat /\ (n - 1) + 1 = n
  BY <1>2
<1> QED  BY <1>2, <1>3

(* Where a tile starts when the columns are shared out evenly, the wider   *)
(* tiles last.                                                             *)
Shared(width, count, i) ==
  i * (width \div count) + Max2(i - (count - (width % count)), 0)

(* The columns are shared out to the last, a tile after the other.         *)
LEMMA SharedOut ==
  ASSUME NEW width \in Nat, NEW count \in Nat \ {0}
  PROVE  /\ Shared(width, count, 0) = 0 /\ Shared(width, count, count) = width
         /\ \A i \in 0..(count - 1) :
              Shared(width, count, i + 1)
                = Shared(width, count, i)
                    + ((width \div count) + Flag(i >= count - (width % count)))
<1> DEFINE b == width \div count
           r == width % count
<1>1. b \in Nat /\ r \in Nat /\ r < count /\ width = count * b + r
  OBVIOUS
<1>2. \A i : Shared(width, count, i) = i * b + Max2(i - (count - r), 0)
  BY DEF Shared
<1> HIDE DEF b, r
<1>3. 0 * b = 0 /\ Max2(0 - (count - r), 0) = 0
  BY <1>1 DEF Max2
<1>4. Max2(count - (count - r), 0) = r
  BY <1>1 DEF Max2
<1>5. ASSUME NEW i \in 0..(count - 1)
      PROVE  (i + 1) * b + Max2((i + 1) - (count - r), 0)
               = (i * b + Max2(i - (count - r), 0)) + (b + Flag(i >= count - r))
  <2>1. (i + 1) * b = i * b + b /\ i * b \in Int /\ i \in Int
    BY <1>1
  <2>2. Max2((i + 1) - (count - r), 0) = Max2(i - (count - r), 0) + Flag(i >= count - r)
    BY <1>1, <2>1 DEF Max2, Flag
  <2>3. Max2(i - (count - r), 0) \in Int /\ Flag(i >= count - r) \in Int
    BY <1>1, <2>1 DEF Max2, Flag
  <2> QED  BY <1>1, <2>1, <2>2, <2>3
<1>6. Shared(width, count, 0) = 0
  BY <1>2, <1>3
<1>7. Shared(width, count, count) = width
  BY <1>1, <1>2, <1>4
<1> QED  BY <1>2, <1>5, <1>6, <1>7 DEF b, r

(* The column a tile starts at.                                            *)
StartOf(s, i) ==
  IF avoid_equal_int8_k2_tiles(s) THEN (IF i = 0 THEN 0 ELSE IF i = 1 THEN 63 ELSE 128)
  ELSE Shared(s.output_width, tile_count(s), i)

(* The tiles of a plan start where the tile before them ends, the first at *)
(* zero, and the last ends with the output.                                *)
LEMMA StartsFollow ==
  ASSUME NEW s, validate(s), s.precision \in {"int8", "fp16"}
  PROVE  /\ StartOf(s, 0) = 0 /\ StartOf(s, tile_count(s)) = s.output_width
         /\ \A i \in 0..(tile_count(s) - 1) :
              StartOf(s, i + 1) = StartOf(s, i) + TileWidth(s, i)
<1> DEFINE n == tile_count(s)
           w == s.output_width
<1>1. n \in Nat \ {0} /\ w \in Nat
  BY TileCount, ValidExtents DEF Extent
<1>2. CASE avoid_equal_int8_k2_tiles(s)
  <2>1. w = 128 /\ K2S2(s) /\ s.precision = "int8"
    BY <1>2 DEF avoid_equal_int8_k2_tiles
  <2>2. direct_width_limits(s) = <<130, 65>>
    BY <2>1 DEF direct_width_limits
  <2>3. n = 2
    BY <2>1, <2>2 DEF tile_count, div_ceil
  <2>4. \A i \in 0..1 : TileWidth(s, i) = 63 + 2 * i
    <3>1. ASSUME NEW i \in 0..1 PROVE TileWidth(s, i) = (w \div n) - 1 + 2 * i
      BY <1>2 DEF TileWidth
    <3>2. w \div n = 64
      BY <2>1, <2>3
    <3> QED  BY <3>1, <3>2
  <2>5. \A i : StartOf(s, i) = IF i = 0 THEN 0 ELSE IF i = 1 THEN 63 ELSE 128
    BY <1>2 DEF StartOf
  <2>6. \A i \in 0..1 : i = 0 \/ i = 1
    OBVIOUS
  <2> HIDE DEF n, w
  <2>7. \A i \in 0..1 : StartOf(s, i + 1) = StartOf(s, i) + TileWidth(s, i)
    BY <2>4, <2>5, <2>6
  <2>8. 0..(n - 1) = 0..1
    BY <2>3
  <2>9. StartOf(s, 0) = 0 /\ StartOf(s, n) = w
    BY <2>1, <2>3, <2>5
  <2> QED  BY <2>7, <2>8, <2>9 DEF n, w
<1>3. CASE ~avoid_equal_int8_k2_tiles(s)
  <2>1. \A i : StartOf(s, i) = Shared(w, n, i)
    BY <1>3 DEF StartOf
  <2>2. \A i : TileWidth(s, i) = (w \div n) + Flag(i >= n - (w % n))
    BY <1>3 DEF TileWidth
  <2> HIDE DEF n, w
  <2>3. /\ Shared(w, n, 0) = 0 /\ Shared(w, n, n) = w
        /\ \A i \in 0..(n - 1) :
              Shared(w, n, i + 1) = Shared(w, n, i) + ((w \div n) + Flag(i >= n - (w % n)))
    BY <1>1, SharedOut
  <2>4. /\ StartOf(s, 0) = 0 /\ StartOf(s, n) = w
        /\ \A i \in 0..(n - 1) : StartOf(s, i + 1) = StartOf(s, i) + TileWidth(s, i)
    BY <2>1, <2>2, <2>3
  <2> QED  BY <2>4 DEF n, w
<1> QED  BY <1>2, <1>3

(* The running sum of the widths is the column the tile starts at.         *)
LEMMA FirstIs ==
  ASSUME NEW s, validate(s), s.precision \in {"int8", "fp16"}, NEW i \in 0..(tile_count(s) - 1)
  PROVE  TileFirst(s, i) = StartOf(s, i)
<1> DEFINE n == tile_count(s)
           Sum(f) == f = [j \in 0..i |-> IF j = 0 THEN 0 ELSE f[j - 1] + TileWidth(s, j - 1)]
           g == CHOOSE f : Sum(f)
           h == [j \in 0..i |-> StartOf(s, j)]
<1>1. n \in Nat \ {0}
  BY TileCount
<1>2. /\ StartOf(s, 0) = 0
      /\ \A j \in 0..(n - 1) : StartOf(s, j + 1) = StartOf(s, j) + TileWidth(s, j)
  BY StartsFollow
<1>3. i \in Nat /\ i <= n - 1
  BY <1>1
<1> HIDE DEF n
<1>4. ASSUME NEW j \in 1..i PROVE StartOf(s, j) = StartOf(s, j - 1) + TileWidth(s, j - 1)
  <2>1. j - 1 \in 0..(n - 1) /\ (j - 1) + 1 = j
    BY <1>1, <1>3
  <2> QED  BY <1>2, <2>1
<1>5. Sum(h)
  <2>1. ASSUME NEW j \in 0..i PROVE h[j] = IF j = 0 THEN 0 ELSE h[j - 1] + TileWidth(s, j - 1)
    <3>1. CASE j = 0
      BY <1>2, <3>1
    <3>2. CASE j # 0
      <4>1. j \in 1..i /\ j - 1 \in 0..i
        BY <1>3, <3>2
      <4> QED  BY <1>4, <3>2, <4>1
    <3> QED  BY <3>1, <3>2
  <2> QED  BY <2>1
<1>6. Sum(g)
  <2> HIDE DEF Sum
  <2> QED  BY <1>5
<1>7. TileFirst(s, i) = g[i]
  BY DEF TileFirst
<1> HIDE DEF g, h
<1> DEFINE T == {j \in Nat : j <= i => g[j] = StartOf(s, j)}
<1>8. 0 \in T
  BY <1>2, <1>3, <1>6
<1>9. ASSUME NEW j \in Nat, j \in T PROVE j + 1 \in T
  <2>1. SUFFICES ASSUME j + 1 <= i PROVE g[j + 1] = StartOf(s, j + 1)
    OBVIOUS
  <2>2. g[j] = StartOf(s, j) /\ j + 1 \in 0..i /\ j + 1 # 0 /\ (j + 1) - 1 = j /\ j + 1 \in 1..i
    BY <1>3, <1>9, <2>1
  <2>3. g[j + 1] = g[j] + TileWidth(s, j)
    BY <1>6, <2>2
  <2>4. StartOf(s, j + 1) = StartOf(s, j) + TileWidth(s, j)
    BY <1>4, <2>2
  <2> QED  BY <2>2, <2>3, <2>4
<1>10. i \in T
  <2>1. Nat \subseteq T
    <3> HIDE DEF T
    <3> QED  BY <1>8, <1>9, Induction
  <2> QED  BY <1>3, <2>1
<1> QED  BY <1>7, <1>10
-----------------------------------------------------------------------------
(* What a chain of four and one of five leaves in its fields.              *)
LEMMA ValueOfFour ==
  ASSUME NEW reg, NEW a, NEW b, NEW c, NEW d, NEW x, NEW y, NEW z, NEW w,
         a # b, a # c, a # d, b # c, b # d, c # d
  PROVE  LET chain == Cmd(reg, <<<<a, x>>, <<b, y>>, <<c, z>>, <<d, w>>>>)
         IN  /\ ValueOf(chain, a) = x /\ ValueOf(chain, b) = y
             /\ ValueOf(chain, c) = z /\ ValueOf(chain, d) = w
<1> DEFINE sets == <<<<a, x>>, <<b, y>>, <<c, z>>, <<d, w>>>>
           chain == Cmd(reg, sets)
<1>1. /\ Len(sets) = 4 /\ sets[1][1] = a /\ sets[1][2] = x /\ sets[2][1] = b /\ sets[2][2] = y
      /\ sets[3][1] = c /\ sets[3][2] = z /\ sets[4][1] = d /\ sets[4][2] = w
  OBVIOUS
<1> HIDE DEF sets
<1>2. chain.sets = sets
  BY CmdIs
<1> HIDE DEF chain
<1>3. \A j \in 1..4 : j \in {1, 2, 3, 4}
  OBVIOUS
<1>4. \A j \in 1..4 : chain.sets[j][1] = sets[j][1]
  BY <1>2
<1>5. ASSUME NEW i \in 1..4
      PROVE  ValueOf(chain, sets[i][1]) = sets[i][2]
  <2>1. i \in 1..Len(chain.sets)
    BY <1>1, <1>2
  <2>2. ASSUME NEW j \in 1..Len(chain.sets), chain.sets[j][1] = sets[i][1] PROVE j = i
    <3>1. j \in 1..4
      BY <1>1, <1>2
    <3>2. sets[j][1] = sets[i][1]
      BY <1>2, <2>2
    <3> QED  BY <1>1, <1>3, <3>1, <3>2
  <2>3. ValueOf(chain, sets[i][1]) = chain.sets[i][2]
    BY <1>2, <2>1, <2>2, ValueAt
  <2> QED  BY <1>2, <2>3
<1>6. PICK i1, i2, i3, i4 \in 1..4 : i1 = 1 /\ i2 = 2 /\ i3 = 3 /\ i4 = 4
  OBVIOUS
<1>7. /\ ValueOf(chain, sets[i1][1]) = sets[i1][2] /\ ValueOf(chain, sets[i2][1]) = sets[i2][2]
      /\ ValueOf(chain, sets[i3][1]) = sets[i3][2] /\ ValueOf(chain, sets[i4][1]) = sets[i4][2]
  BY <1>5
<1>8. /\ ValueOf(chain, a) = x /\ ValueOf(chain, b) = y
      /\ ValueOf(chain, c) = z /\ ValueOf(chain, d) = w
  BY <1>1, <1>6, <1>7
<1> QED  BY <1>8 DEF chain, sets

(* What a chain of five leaves in its last field.                          *)
LEMMA ValueOfFive ==
  ASSUME NEW reg, NEW a, NEW b, NEW c, NEW d, NEW e, NEW x, NEW y, NEW z, NEW v, NEW w,
         e \notin {a, b, c, d}
  PROVE  ValueOf(Cmd(reg, <<<<a, x>>, <<b, y>>, <<c, z>>, <<d, v>>, <<e, w>>>>), e) = w
<1> DEFINE sets == <<<<a, x>>, <<b, y>>, <<c, z>>, <<d, v>>, <<e, w>>>>
           chain == Cmd(reg, sets)
<1>1. /\ Len(sets) = 5 /\ sets[1][1] = a /\ sets[2][1] = b /\ sets[3][1] = c /\ sets[4][1] = d
      /\ sets[5][1] = e /\ sets[5][2] = w
  OBVIOUS
<1> HIDE DEF sets
<1>2. chain.sets = sets
  BY CmdIs
<1> HIDE DEF chain
<1>3. \A j \in 1..5 : j \in {1, 2, 3, 4, 5}
  OBVIOUS
<1>4. PICK i \in 1..Len(chain.sets) : i = 5
  <2>1. \E i \in 1..5 : i = 5
    OBVIOUS
  <2> QED  BY <1>1, <1>2, <2>1
<1>5. ASSUME NEW j \in 1..Len(chain.sets), chain.sets[j][1] = e PROVE j = i
  <2>1. j \in 1..5 /\ sets[j][1] = e
    BY <1>1, <1>2, <1>5
  <2> QED  BY <1>1, <1>3, <1>4, <2>1
<1>6. chain.sets[i][1] = e
  BY <1>1, <1>2, <1>4
<1>7. ValueOf(chain, e) = chain.sets[i][2]
  BY <1>5, <1>6, ValueAt
<1>8. ValueOf(chain, e) = w
  BY <1>1, <1>2, <1>4, <1>7
<1> QED  BY <1>8 DEF chain, sets

(* Every command of a tile's program is the only one for its register.     *)
LEMMA PoolSoles ==
  ASSUME NEW s, NEW t, NEW buffers
  PROVE  LET p == build_pooling_tile_task(s, t, buffers)
             q == PpuCommands(s, t, buffers.output + t.output_first * 16)
             r == PpuRdmaCommands(s, t, buffers.input + t.input_first * 16)
         IN  /\ \A i \in 1..16 : Sole(p, q[i].reg, q[i])
             /\ \A i \in 1..7 : Sole(p, r[i].reg, r[i])
<1> DEFINE h == <<Cmd(PpuSPointer, PpuPointers), Cmd(PpuRdmaSPointer, PpuPointers)>>
           q == PpuCommands(s, t, buffers.output + t.output_first * 16)
           r == PpuRdmaCommands(s, t, buffers.input + t.input_first * 16)
           p == build_pooling_tile_task(s, t, buffers)
<1>1. p = (h \o q) \o r
  BY DEF build_pooling_tile_task
<1>2. Writes(q, PpuCommandsOffsets) /\ Writes(r, PpuRdmaCommandsOffsets)
  BY PpuCommandsWrites, PpuRdmaCommandsWrites
<1>3. IsProgram(h) /\ Len(h) = 2 /\ h[1].reg = PpuSPointer /\ h[2].reg = PpuRdmaSPointer
  BY Tuple2, CmdIs
<1> HIDE DEF h, q, r, p
<1>4. h[1].reg.offset = \h6004 /\ h[2].reg.offset = \h7004
  BY <1>3 DEF PpuSPointer, PpuRdmaSPointer, Reg
<1>5. Len(PpuCommandsOffsets) = 16 /\ Len(PpuRdmaCommandsOffsets) = 7
  BY DEF PpuCommandsOffsets, PpuRdmaCommandsOffsets
<1>6. /\ \A i \in 1..16 : /\ PpuCommandsOffsets[i] \in Nat
                          /\ PpuCommandsOffsets[i] > \h6004 /\ PpuCommandsOffsets[i] < \h7004
                          /\ \A j \in 1..16 : PpuCommandsOffsets[j] = PpuCommandsOffsets[i] => j = i
      /\ \A i \in 1..7 : /\ PpuRdmaCommandsOffsets[i] \in Nat
                         /\ PpuRdmaCommandsOffsets[i] > \h7004
                         /\ \A j \in 1..7 : PpuRdmaCommandsOffsets[j] = PpuRdmaCommandsOffsets[i] => j = i
  BY DEF PpuCommandsOffsets, PpuRdmaCommandsOffsets
<1>7. IsProgram(q) /\ IsProgram(r) /\ IsProgram(h \o q)
  BY <1>2, <1>3, ConcatProgram DEF Writes
<1>8. ASSUME NEW i \in 1..16 PROVE Sole(p, q[i].reg, q[i])
  <2> DEFINE reg == q[i].reg
  <2>1. reg.offset = PpuCommandsOffsets[i]
    BY <1>2, <1>5 DEF Writes
  <2> HIDE DEF reg
  <2>2. Sole(q, reg, q[i])
    <3>1. i \in 1..Len(PpuCommandsOffsets) /\ PpuCommandsOffsets[i] = reg.offset
      BY <1>5, <2>1
    <3>2. \A j \in 1..Len(PpuCommandsOffsets) : PpuCommandsOffsets[j] = reg.offset => j = i
      BY <1>5, <1>6, <2>1
    <3> QED  BY <1>2, <3>1, <3>2, SoleAt
  <2>3. Absent(h, reg)
    <3>1. \A j \in 1..2 : j = 1 \/ j = 2
      OBVIOUS
    <3>2. reg.offset # \h6004 /\ reg.offset # \h7004
      BY <1>6, <2>1
    <3> QED  BY <1>3, <1>4, <3>1, <3>2 DEF Absent
  <2>4. Absent(r, reg)
    <3>1. \A j \in 1..Len(PpuRdmaCommandsOffsets) : PpuRdmaCommandsOffsets[j] # reg.offset
      <4>1. SUFFICES ASSUME NEW j \in 1..7 PROVE PpuRdmaCommandsOffsets[j] # PpuCommandsOffsets[i]
        BY <1>5, <2>1
      <4> QED  BY <1>6
    <3> QED  BY <1>2, <3>1, AbsentFrom
  <2>5. Sole(h \o q, reg, q[i])
    BY <1>3, <1>7, <2>2, <2>3, SoleSecond
  <2>6. Sole((h \o q) \o r, reg, q[i])
    BY <1>7, <2>4, <2>5, SoleFirst
  <2> QED  BY <1>1, <2>6 DEF reg
<1>9. ASSUME NEW i \in 1..7 PROVE Sole(p, r[i].reg, r[i])
  <2> DEFINE reg == r[i].reg
  <2>1. reg.offset = PpuRdmaCommandsOffsets[i]
    BY <1>2, <1>5 DEF Writes
  <2> HIDE DEF reg
  <2>2. Sole(r, reg, r[i])
    <3>1. i \in 1..Len(PpuRdmaCommandsOffsets) /\ PpuRdmaCommandsOffsets[i] = reg.offset
      BY <1>5, <2>1
    <3>2. \A j \in 1..Len(PpuRdmaCommandsOffsets) : PpuRdmaCommandsOffsets[j] = reg.offset => j = i
      BY <1>5, <1>6, <2>1
    <3> QED  BY <1>2, <3>1, <3>2, SoleAt
  <2>3. Absent(h, reg)
    <3>1. \A j \in 1..2 : j = 1 \/ j = 2
      OBVIOUS
    <3>2. reg.offset # \h6004 /\ reg.offset # \h7004
      BY <1>6, <2>1
    <3> QED  BY <1>3, <1>4, <3>1, <3>2 DEF Absent
  <2>4. Absent(q, reg)
    <3>1. \A j \in 1..Len(PpuCommandsOffsets) : PpuCommandsOffsets[j] # reg.offset
      <4>1. SUFFICES ASSUME NEW j \in 1..16 PROVE PpuCommandsOffsets[j] # PpuRdmaCommandsOffsets[i]
        BY <1>5, <2>1
      <4> QED  BY <1>6
    <3> QED  BY <1>2, <3>1, AbsentFrom
  <2>5. Absent(h \o q, reg)
    BY <1>3, <1>7, <2>3, <2>4, AbsentBoth
  <2>6. Sole((h \o q) \o r, reg, r[i])
    BY <1>7, <2>2, <2>5, SoleSecond
  <2> QED  BY <1>1, <2>6 DEF reg
<1> QED  BY <1>8, <1>9 DEF p, q, r
-----------------------------------------------------------------------------
(* What a tile's program leaves in the registers of the pooling unit.      *)
LEMMA PoolValues ==
  ASSUME NEW s, NEW t, NEW buffers
  PROVE  LET p == build_pooling_tile_task(s, t, buffers)
         IN  /\ Programmed(p, PpuPoolingPaddingCfg, "pad_left") = t.pad_left
             /\ Programmed(p, PpuPoolingPaddingCfg, "pad_right") = t.pad_right
             /\ Programmed(p, PpuPoolingPaddingCfg, "pad_bottom")
                  = required_trailing_padding(s.input_height, s.output_height,
                                              s.kernel_height, s.stride_y, s.pad_top)
             /\ Programmed(p, PpuOperationModeCfg, "notch_addr") = s.output_width - t.output_width
             /\ Programmed(p, PpuDataCubeOutWidth, "cube_out_width") = t.output_width - 1
             /\ Programmed(p, PpuDataCubeOutChannel, "cube_out_channel") = programmed_channels(s) - 1
             /\ Programmed(p, PpuDstBaseAddr, "dst_base_addr") = (buffers.output + t.output_first * 16) \div 16
             /\ Programmed(p, PpuDstSurfStride, "dst_surf_stride") = surf_stride(s.output_width, s.output_height)
             /\ Programmed(p, PpuRdmaCubeInWidth, "cube_in_width") = t.input_width - 1
             /\ Programmed(p, PpuRdmaCubeInHeight, "cube_in_height") = s.input_height - 1
             /\ Programmed(p, PpuRdmaSrcBaseAddr, "src_base_addr") = buffers.input + t.input_first * 16
             /\ Programmed(p, PpuRdmaSrcLineStride, "src_line_stride") = s.input_width
             /\ Programmed(p, PpuRdmaSrcSurfStride, "src_surf_stride") = surf_stride(s.input_width, s.input_height)
<1> DEFINE q == PpuCommands(s, t, buffers.output + t.output_first * 16)
           r == PpuRdmaCommands(s, t, buffers.input + t.input_first * 16)
           p == build_pooling_tile_task(s, t, buffers)
           bottom == required_trailing_padding(s.input_height, s.output_height,
                                               s.kernel_height, s.stride_y, s.pad_top)
           padding == <<<<"pad_left", t.pad_left>>, <<"pad_top", s.pad_top>>,
                        <<"pad_right", t.pad_right>>, <<"pad_bottom", bottom>>>>
           mode == <<<<"pooling_method", method_bits(s.method)>>, <<"flying_mode", 1>>,
                     <<"index_en", 0>>, <<"use_cnt", 0>>,
                     <<"notch_addr", s.output_width - t.output_width>>>>
           pads == Cmd(PpuPoolingPaddingCfg, padding)
           modes == Cmd(PpuOperationModeCfg, mode)
<1>1. (\A i \in 1..16 : Sole(p, q[i].reg, q[i])) /\ (\A i \in 1..7 : Sole(p, r[i].reg, r[i]))
  BY PoolSoles
<1>2. /\ q[7] = modes /\ q[11] = pads
      /\ q[4] = Cmd(PpuDataCubeOutWidth, <<<<"cube_out_width", t.output_width - 1>>>>)
      /\ q[6] = Cmd(PpuDataCubeOutChannel, <<<<"cube_out_channel", programmed_channels(s) - 1>>>>)
      /\ q[13] = Cmd(PpuDstBaseAddr, <<<<"dst_base_addr", (buffers.output + t.output_first * 16) \div 16>>>>)
      /\ q[14] = Cmd(PpuDstSurfStride, <<<<"dst_surf_stride", surf_stride(s.output_width, s.output_height)>>>>)
  BY Tuple16 DEF PpuCommands
<1>3. /\ r[1] = Cmd(PpuRdmaCubeInWidth, <<<<"cube_in_width", t.input_width - 1>>>>)
      /\ r[2] = Cmd(PpuRdmaCubeInHeight, <<<<"cube_in_height", s.input_height - 1>>>>)
      /\ r[4] = Cmd(PpuRdmaSrcBaseAddr, <<<<"src_base_addr", buffers.input + t.input_first * 16>>>>)
      /\ r[5] = Cmd(PpuRdmaSrcLineStride, <<<<"src_line_stride", s.input_width>>>>)
      /\ r[6] = Cmd(PpuRdmaSrcSurfStride, <<<<"src_surf_stride", surf_stride(s.input_width, s.input_height)>>>>)
  BY Tuple7 DEF PpuRdmaCommands
<1> HIDE DEF p, q, r
<1>4. /\ Sole(p, PpuOperationModeCfg, modes) /\ Sole(p, PpuPoolingPaddingCfg, pads)
      /\ Sole(p, PpuDataCubeOutWidth, Cmd(PpuDataCubeOutWidth, <<<<"cube_out_width", t.output_width - 1>>>>))
      /\ Sole(p, PpuDataCubeOutChannel, Cmd(PpuDataCubeOutChannel, <<<<"cube_out_channel", programmed_channels(s) - 1>>>>))
      /\ Sole(p, PpuDstBaseAddr, Cmd(PpuDstBaseAddr, <<<<"dst_base_addr", (buffers.output + t.output_first * 16) \div 16>>>>))
      /\ Sole(p, PpuDstSurfStride, Cmd(PpuDstSurfStride, <<<<"dst_surf_stride", surf_stride(s.output_width, s.output_height)>>>>))
  <2> HIDE DEF mode, padding
  <2>1. 4 \in 1..16 /\ 6 \in 1..16 /\ 7 \in 1..16 /\ 11 \in 1..16 /\ 13 \in 1..16 /\ 14 \in 1..16
    OBVIOUS
  <2> QED  BY <1>1, <1>2, <2>1, CmdIs
<1>5. /\ Sole(p, PpuRdmaCubeInWidth, Cmd(PpuRdmaCubeInWidth, <<<<"cube_in_width", t.input_width - 1>>>>))
      /\ Sole(p, PpuRdmaCubeInHeight, Cmd(PpuRdmaCubeInHeight, <<<<"cube_in_height", s.input_height - 1>>>>))
      /\ Sole(p, PpuRdmaSrcBaseAddr, Cmd(PpuRdmaSrcBaseAddr, <<<<"src_base_addr", buffers.input + t.input_first * 16>>>>))
      /\ Sole(p, PpuRdmaSrcLineStride, Cmd(PpuRdmaSrcLineStride, <<<<"src_line_stride", s.input_width>>>>))
      /\ Sole(p, PpuRdmaSrcSurfStride, Cmd(PpuRdmaSrcSurfStride, <<<<"src_surf_stride", surf_stride(s.input_width, s.input_height)>>>>))
  <2>1. 1 \in 1..7 /\ 2 \in 1..7 /\ 4 \in 1..7 /\ 5 \in 1..7 /\ 6 \in 1..7
    OBVIOUS
  <2> QED  BY <1>1, <1>3, <2>1, CmdIs
<1>6. ValueOf(pads, "pad_left") = t.pad_left /\ ValueOf(pads, "pad_right") = t.pad_right
      /\ ValueOf(pads, "pad_bottom") = bottom
  BY ValueOfFour
<1>7. ValueOf(modes, "notch_addr") = s.output_width - t.output_width
  BY ValueOfFive
<1> HIDE DEF pads, modes
<1>8. /\ Programmed(p, PpuPoolingPaddingCfg, "pad_left") = t.pad_left
      /\ Programmed(p, PpuPoolingPaddingCfg, "pad_right") = t.pad_right
      /\ Programmed(p, PpuPoolingPaddingCfg, "pad_bottom") = bottom
      /\ Programmed(p, PpuOperationModeCfg, "notch_addr") = s.output_width - t.output_width
  BY <1>4, <1>6, <1>7, SoleIs
<1>9. Programmed(p, PpuDataCubeOutWidth, "cube_out_width") = t.output_width - 1
  BY <1>4, SoleIs, ValueAlone
<1>10. Programmed(p, PpuDataCubeOutChannel, "cube_out_channel") = programmed_channels(s) - 1
  BY <1>4, SoleIs, ValueAlone
<1>11. Programmed(p, PpuDstBaseAddr, "dst_base_addr") = (buffers.output + t.output_first * 16) \div 16
  BY <1>4, SoleIs, ValueAlone
<1>12. Programmed(p, PpuDstSurfStride, "dst_surf_stride") = surf_stride(s.output_width, s.output_height)
  BY <1>4, SoleIs, ValueAlone
<1>13. Programmed(p, PpuRdmaCubeInWidth, "cube_in_width") = t.input_width - 1
  BY <1>5, SoleIs, ValueAlone
<1>14. Programmed(p, PpuRdmaCubeInHeight, "cube_in_height") = s.input_height - 1
  BY <1>5, SoleIs, ValueAlone
<1>15. Programmed(p, PpuRdmaSrcBaseAddr, "src_base_addr") = buffers.input + t.input_first * 16
  BY <1>5, SoleIs, ValueAlone
<1>16. Programmed(p, PpuRdmaSrcLineStride, "src_line_stride") = s.input_width
  BY <1>5, SoleIs, ValueAlone
<1>17. Programmed(p, PpuRdmaSrcSurfStride, "src_surf_stride") = surf_stride(s.input_width, s.input_height)
  BY <1>5, SoleIs, ValueAlone
<1> QED  BY <1>8, <1>9, <1>10, <1>11, <1>12, <1>13, <1>14, <1>15, <1>16, <1>17 DEF p
-----------------------------------------------------------------------------
(* A tap at `local` of an axis whose tile starts at image position `at`.   *)
Tapped(local, image, at, extent, before, after, whole) ==
  /\ local >= -before /\ local < extent + after
  /\ IF local \in 0..(extent - 1) THEN image = at + local
     ELSE image \notin 0..(whole - 1)

(* Fewer steps cover less.                                                 *)
LEMMA StepsGrow ==
  ASSUME NEW stride \in Nat, NEW n \in Int, NEW x \in 0..(n - 1)
  PROVE  x * stride \in Int /\ 0 <= x * stride /\ x * stride <= (n - 1) * stride
         /\ (n - 1) * stride \in Int
<1> DEFINE m == (n - 1) - x
<1>1. m \in Nat /\ n - 1 = x + m /\ x \in Nat
  OBVIOUS
<1> HIDE DEF m
<1>2. (n - 1) * stride = x * stride + m * stride
  <2>1. (x + m) * stride = x * stride + m * stride
    BY <1>1
  <2> QED  BY <1>1, <2>1
<1>3. x * stride \in Nat /\ m * stride \in Nat
  BY <1>1
<1> DEFINE a == x * stride
           b == m * stride
           c == (n - 1) * stride
<1>4. a \in Nat /\ b \in Nat /\ c = a + b
  BY <1>2, <1>3
<1> HIDE DEF a, b, c
<1>5. a \in Int /\ 0 <= a /\ a <= c /\ c \in Int
  BY <1>4
<1> QED  BY <1>5 DEF a, c

(* The rows of a window: the whole height is one tile's.                   *)
LEMMA RowTapped ==
  ASSUME NEW input \in Nat, NEW output \in Int, NEW kernel \in Nat, NEW stride \in Nat,
         NEW before \in Nat, NEW y \in 0..(output - 1), NEW k \in 0..(kernel - 1)
  PROVE  Tapped(y * stride - before + k, y * stride - before + k, 0, input, before,
                required_trailing_padding(input, output, kernel, stride, before), input)
<1> DEFINE a == y * stride
           c == (output - 1) * stride
           after == required_trailing_padding(input, output, kernel, stride, before)
<1>1. a \in Int /\ 0 <= a /\ a <= c /\ c \in Int
  BY StepsGrow
<1>2. after = saturating_sub(c + kernel, input + before)
  BY DEF required_trailing_padding
<1> HIDE DEF a, c, after
<1>3. after \in Nat /\ c + kernel <= after + input + before
  BY <1>1, <1>2 DEF saturating_sub
<1>4. Tapped(a - before + k, a - before + k, 0, input, before, after, input)
  BY <1>1, <1>3 DEF Tapped
<1> QED  BY <1>4 DEF a, after

(* The columns of a window: a tile starts at the first column its windows  *)
(* need and is padded for what the image has not.                          *)
LEMMA ColumnTapped ==
  ASSUME NEW input \in Nat, NEW first \in Int, NEW width \in Int, NEW kernel \in Nat, NEW stride \in Nat,
         NEW before \in Nat, NEW x \in 0..(width - 1), NEW k \in 0..(kernel - 1)
  PROVE  LET raw_first == first * stride - before
             raw_end == (first + width - 1) * stride + kernel - before
             from == Max2(raw_first, 0)
             end == Max2(Min2(raw_end, input), 0)
             left == Max2(-raw_first, 0)
         IN  Tapped(x * stride - left + k, (first + x) * stride - before + k, from, end - from, left,
                    Max2(raw_end - input, 0), input)
<1> DEFINE f == first * stride
           a == x * stride
           c == (width - 1) * stride
           raw_first == f - before
           raw_end == (first + width - 1) * stride + kernel - before
           from == Max2(raw_first, 0)
           end == Max2(Min2(raw_end, input), 0)
           left == Max2(-raw_first, 0)
           right == Max2(raw_end - input, 0)
           image == (first + x) * stride - before + k
<1>1. a \in Int /\ 0 <= a /\ a <= c /\ c \in Int /\ f \in Int
  BY StepsGrow
<1>2. (first + x) * stride = f + a /\ (first + width - 1) * stride = f + c
  <2>1. first + width - 1 = first + (width - 1) /\ width - 1 \in Int
    OBVIOUS
  <2>2. \A m \in Int : (first + m) * stride = first * stride + m * stride
    OBVIOUS
  <2> QED  BY <2>1, <2>2
<1>3. image = f + a - before + k
  BY <1>2
<1>4. raw_end = f + c + kernel - before
  BY <1>2
<1>5. raw_first = f - before
  OBVIOUS
<1>6. from = Max2(raw_first, 0) /\ left = Max2(-raw_first, 0) /\ right = Max2(raw_end - input, 0)
      /\ end = Max2(Min2(raw_end, input), 0)
  OBVIOUS
<1> HIDE DEF f, a, c, raw_first, raw_end, from, end, left, right, image
<1>7. raw_first \in Int /\ raw_end \in Int /\ image \in Int
  BY <1>1, <1>3, <1>4, <1>5
<1>8. /\ from \in Nat /\ left \in Nat /\ raw_first = from - left /\ (from = 0 \/ left = 0)
      /\ right \in Nat /\ end \in Nat /\ raw_end <= end + right
      /\ \A n \in Int : n < raw_end /\ n < input => n < end
  BY <1>6, <1>7 DEF Max2, Min2
<1>9. image = from + (a - left + k) /\ image < raw_end
  BY <1>1, <1>3, <1>4, <1>5, <1>8
<1> DEFINE local == a - left + k
<1>10. local \in Int /\ local >= -left /\ image = from + local /\ (left = 0 => local >= 0)
  BY <1>1, <1>8, <1>9
<1> HIDE DEF local
<1>11. local < (end - from) + right
  BY <1>7, <1>8, <1>9, <1>10
<1>12. image \in 0..(input - 1) => local \in 0..((end - from) - 1)
  <2>1. SUFFICES ASSUME image \in 0..(input - 1) PROVE local >= 0 /\ local < end - from
    BY <1>8, <1>10
  <2>2. image < end
    BY <1>7, <1>8, <1>9, <2>1
  <2> QED  BY <1>8, <1>10, <2>1, <2>2
<1>13. Tapped(local, image, from, end - from, left, right, input)
  BY <1>10, <1>11, <1>12 DEF Tapped
<1> QED  BY <1>13 DEF local, image, from, end, left, right, raw_first, raw_end, f, a

(* The windows of the program last emitted.                                *)
LEMMA WindowsCovered ==
  ASSUME IInv
  PROVE  PoolWindows
<1> SUFFICES ASSUME program # NONE, exec.kernel = "pooling"
             PROVE  PoolWindows
  BY DEF PoolWindows, PoolEmitted
<1> DEFINE s == Pooled
           i == next - 2
           n == tile_count(s)
           t == tiles[next - 1]
           u == tiles[next]
           raw_first == TileFirst(s, i) * s.stride_x - s.pad_left
           raw_end == (TileFirst(s, i) + TileWidth(s, i) - 1) * s.stride_x + s.kernel_width - s.pad_left
           from == Max2(raw_first, 0)
           end == Max2(Min2(raw_end, s.input_width), 0)
<1>1. resolved # NONE /\ stage \in {"programs", "recorded", "aborted"}
  BY DEF IInv, CallInv, PlanInv
<1>2. validate(s) /\ s.precision \in {"int8", "fp16"}
  BY <1>1, PoolIs
<1>3. /\ n \in Nat \ {0} /\ DOMAIN PoolingTiles(s) = 1..n /\ Len(PoolingTiles(s)) = n
  BY <1>2, TileCount
<1>4. /\ tiles = PoolingTiles(s) /\ next - 1 \in 1..Len(tiles) /\ next \in Nat
      /\ program = build_pooling_tile_task(s, t, Buffers)
  BY DEF IInv, PlanInv, ProgramInv
<1>5. /\ s.input_width \in Nat /\ s.input_height \in Nat /\ s.output_width \in Nat
      /\ s.output_height \in Nat
  BY <1>2, ValidExtents DEF Extent
<1>6. /\ s.kernel_width \in Nat /\ s.kernel_height \in Nat /\ s.stride_x \in Nat /\ s.stride_y \in Nat
      /\ s.pad_left \in Nat /\ s.pad_top \in Nat
  BY <1>2, ValidWindow, ValidPads
<1> HIDE DEF s
<1>7. \A j \in 1..n : tiles[j] = PoolingTile(s, j - 1)
  BY <1>3, <1>4 DEF PoolingTiles
<1>8. /\ StartOf(s, 0) = 0 /\ StartOf(s, n) = s.output_width
      /\ \A j \in 0..(n - 1) : StartOf(s, j + 1) = StartOf(s, j) + TileWidth(s, j)
  BY <1>2, StartsFollow
<1>9. \A j \in 0..(n - 1) : TileFirst(s, j) = StartOf(s, j)
  BY <1>2, FirstIs
<1>10. \A j : PoolingTile(s, j).output_first = TileFirst(s, j)
              /\ PoolingTile(s, j).output_width = TileWidth(s, j)
  BY DEF PoolingTile
<1>11. t = PoolingTile(s, i) /\ i \in 0..(n - 1) /\ i + 1 = next - 1 /\ next - 1 \in 1..n
  BY <1>3, <1>4, <1>7
<1>12. /\ t.output_first = TileFirst(s, i) /\ t.output_width = TileWidth(s, i)
  BY <1>10, <1>11
<1>13. /\ t.input_first = from /\ t.input_width = end - from
       /\ t.pad_left = Max2(-raw_first, 0) /\ t.pad_right = Max2(raw_end - s.input_width, 0)
  BY <1>11 DEF PoolingTile
<1>14. TileFirst(s, i) \in Int /\ TileWidth(s, i) \in Int
  <2>1. tile_count(s) \in Int
    BY <1>3
  <2>2. \A a \in Int : Flag(a >= 0) \in Int
    BY DEF Flag
  <2>3. n \in Nat /\ i \in Int /\ s.output_width \div n \in Int /\ n - (s.output_width % n) \in Int
    BY <1>3, <1>5, <1>11
  <2>4. \A a, b \in Int : Flag(a >= b) \in Int
    BY DEF Flag
  <2> HIDE DEF n, i
  <2>5. TileWidth(s, i) \in Int
    <3>1. TileWidth(s, i) = IF avoid_equal_int8_k2_tiles(s) THEN (s.output_width \div n) - 1 + 2 * i
                            ELSE (s.output_width \div n) + Flag(i >= n - (s.output_width % n))
      BY DEF TileWidth, n
    <3>2. Flag(i >= n - (s.output_width % n)) \in Int
      BY <2>3, <2>4
    <3> QED  BY <2>3, <3>1, <3>2
  <2>6. StartOf(s, i) \in Int
    <3>1. \A a \in Int : Max2(a, 0) \in Int
      BY DEF Max2
    <3>2. Shared(s.output_width, n, i) \in Int
      <4>1. i * (s.output_width \div n) \in Int /\ i - (n - (s.output_width % n)) \in Int
        BY <2>3
      <4> QED  BY <3>1, <4>1 DEF Shared
    <3> QED  BY <3>2 DEF StartOf, n
  <2> QED  BY <1>9, <1>11, <2>5, <2>6
<1>15. tiles[1].output_first = 0
  <2>1. 1 \in 1..n /\ 0 \in 0..(n - 1) /\ 1 - 1 = 0
    BY <1>3
  <2> QED  BY <1>7, <1>8, <1>9, <1>10, <2>1
<1>16. t.output_first + t.output_width
         = IF next - 1 = Len(tiles) THEN s.output_width ELSE tiles[next].output_first
  <2>1. t.output_first + t.output_width = StartOf(s, i + 1)
    BY <1>8, <1>9, <1>11, <1>12
  <2>2. CASE next - 1 = Len(tiles)
    BY <1>3, <1>4, <1>8, <1>11, <2>1, <2>2
  <2>3. CASE next - 1 # Len(tiles)
    <3>1. next \in 1..n /\ next - 1 \in 0..(n - 1)
      BY <1>3, <1>4, <2>3
    <3>2. tiles[next].output_first = StartOf(s, next - 1)
      BY <1>7, <1>9, <1>10, <3>1
    <3> QED  BY <1>11, <2>1, <2>3, <3>2
  <2> QED  BY <2>2, <2>3
<1> HIDE DEF t
<1>17. /\ P(PpuPoolingPaddingCfg, "pad_left") = t.pad_left
       /\ P(PpuPoolingPaddingCfg, "pad_right") = t.pad_right
       /\ P(PpuPoolingPaddingCfg, "pad_bottom")
            = required_trailing_padding(s.input_height, s.output_height,
                                        s.kernel_height, s.stride_y, s.pad_top)
       /\ P(PpuRdmaCubeInWidth, "cube_in_width") = t.input_width - 1
       /\ P(PpuRdmaCubeInHeight, "cube_in_height") = s.input_height - 1
       /\ P(PpuRdmaSrcBaseAddr, "src_base_addr") = Buffers.input + t.input_first * 16
  BY <1>4, PoolValues DEF P
<1> HIDE DEF raw_first, raw_end, i, n
<1>18. raw_first \in Int /\ raw_end \in Int
  <2>1. \A a, b, c, d \in Int : a * b - c \in Int /\ (a + c - 1) * b + d - c \in Int
    OBVIOUS
  <2> QED  BY <1>5, <1>6, <1>14 DEF raw_first, raw_end
<1>19. from \in Nat /\ end \in Nat
  BY <1>5, <1>18 DEF Max2, Min2
<1> HIDE DEF from, end
<1>20. (P(PpuRdmaSrcBaseAddr, "src_base_addr") - Buffers.input) \div 16 = from
  <2>1. Buffers.input \in Nat
    BY BuffersAssumption
  <2>2. (Buffers.input + from * 16) - Buffers.input = from * 16
    BY <1>19, <2>1
  <2>3. (from * 16) \div 16 = from
    BY <1>19
  <2> QED  BY <1>13, <1>17, <2>2, <2>3
<1>21. P(PpuRdmaCubeInWidth, "cube_in_width") + 1 = end - from
  BY <1>13, <1>17, <1>19
<1>22. P(PpuRdmaCubeInHeight, "cube_in_height") + 1 = s.input_height
  BY <1>5, <1>17
<1>23. ASSUME NEW x \in 0..(t.output_width - 1), NEW k \in 0..(s.kernel_width - 1)
       PROVE  Tapped(x * s.stride_x - P(PpuPoolingPaddingCfg, "pad_left") + k,
                     (t.output_first + x) * s.stride_x - s.pad_left + k,
                     (P(PpuRdmaSrcBaseAddr, "src_base_addr") - Buffers.input) \div 16,
                     P(PpuRdmaCubeInWidth, "cube_in_width") + 1,
                     P(PpuPoolingPaddingCfg, "pad_left"), P(PpuPoolingPaddingCfg, "pad_right"),
                     s.input_width)
  <2> DEFINE left == Max2(-raw_first, 0)
             right == Max2(raw_end - s.input_width, 0)
             first == TileFirst(s, i)
             width == TileWidth(s, i)
  <2>1. first \in Int /\ width \in Int /\ x \in 0..(width - 1)
    BY <1>12, <1>14
  <2> HIDE DEF first, width
  <2>2. LET raw1 == first * s.stride_x - s.pad_left
            raw2 == (first + width - 1) * s.stride_x + s.kernel_width - s.pad_left
            from1 == Max2(raw1, 0)
            end1 == Max2(Min2(raw2, s.input_width), 0)
            left1 == Max2(-raw1, 0)
        IN  Tapped(x * s.stride_x - left1 + k, (first + x) * s.stride_x - s.pad_left + k, from1,
                   end1 - from1, left1, Max2(raw2 - s.input_width, 0), s.input_width)
    BY <1>5, <1>6, <2>1, ColumnTapped
  <2>3. Tapped(x * s.stride_x - left + k, (first + x) * s.stride_x - s.pad_left + k, from,
               end - from, left, right, s.input_width)
    BY <2>2 DEF from, end, raw_first, raw_end, first, width
  <2>4. t.output_first = first /\ P(PpuPoolingPaddingCfg, "pad_left") = left
        /\ P(PpuPoolingPaddingCfg, "pad_right") = right
    BY <1>12, <1>13, <1>17 DEF first
  <2> QED  BY <1>20, <1>21, <2>3, <2>4
<1>24. ASSUME NEW y \in 0..(s.output_height - 1), NEW k \in 0..(s.kernel_height - 1)
       PROVE  LET row == y * s.stride_y - s.pad_top + k
              IN  Tapped(row, row, 0, P(PpuRdmaCubeInHeight, "cube_in_height") + 1, s.pad_top,
                         P(PpuPoolingPaddingCfg, "pad_bottom"), s.input_height)
  <2>1. Tapped(y * s.stride_y - s.pad_top + k, y * s.stride_y - s.pad_top + k, 0, s.input_height, s.pad_top,
               required_trailing_padding(s.input_height, s.output_height, s.kernel_height, s.stride_y, s.pad_top),
               s.input_height)
    <3> DEFINE input == s.input_height
               output == s.output_height
               kernel == s.kernel_height
               stride == s.stride_y
               before == s.pad_top
    <3>1. input \in Nat /\ output \in Int /\ kernel \in Nat /\ stride \in Nat /\ before \in Nat
          /\ y \in 0..(output - 1) /\ k \in 0..(kernel - 1)
      BY <1>5, <1>6
    <3> HIDE DEF input, output, kernel, stride, before
    <3>2. Tapped(y * stride - before + k, y * stride - before + k, 0, input, before,
                 required_trailing_padding(input, output, kernel, stride, before), input)
      BY <3>1, RowTapped
    <3> QED  BY <3>2 DEF input, output, kernel, stride, before
  <2> QED  BY <1>17, <1>22, <2>1
<1> QED  BY <1>15, <1>16, <1>23, <1>24 DEF PoolWindows, Tapped, t, s

(* Every window of every tile of a pool covers the pixels it covers in the *)
(* image, whatever the shape the runtime admits: a tap inside the columns  *)
(* and rows the program reads is the image's own pixel, a tap outside them *)
(* is outside the image and within the padding programmed, and the tiles   *)
(* follow one another over the whole output.                               *)
THEOREM PoolWindowsAlways == Spec => []PoolWindows
  BY ExecutableInvariant, WindowsCovered, PTL
-----------------------------------------------------------------------------
(* The powers of two are positive.                                         *)
LEMMA PowerPositive ==
  ASSUME NEW n \in Nat
  PROVE  2 ^ n \in Nat /\ 2 ^ n > 0
<1> DEFINE S == 1..n
<1>1. IsFiniteSet(S) /\ Cardinality(S) = n
  BY FS_Interval
<1>2. IsFiniteSet(SUBSET S) /\ Cardinality(SUBSET S) = 2 ^ Cardinality(S)
  <2> HIDE DEF S
  <2> QED  BY <1>1, FS_SUBSET
<1>3. Cardinality(SUBSET S) \in Nat
  BY <1>2, FS_CardinalityType
<1>4. Cardinality(SUBSET S) # 0
  <2>1. {} \in SUBSET S
    OBVIOUS
  <2> DEFINE T == SUBSET S
  <2>2. T # {} /\ IsFiniteSet(T)
    BY <1>2, <2>1
  <2> HIDE DEF T
  <2>3. Cardinality(T) # 0
    BY <2>2, FS_EmptySet
  <2> QED  BY <2>3 DEF T
<1> DEFINE c == Cardinality(SUBSET S)
<1>5. c \in Nat /\ c # 0 /\ 2 ^ n = c
  BY <1>1, <1>2, <1>3, <1>4
<1> HIDE DEF c
<1> QED  BY <1>5

(* Zero has no bits.                                                       *)
LEMMA NoBits == \A width \in Nat : BitsOf(width, 0) = {}
<1> SUFFICES ASSUME NEW width \in Nat, NEW b \in 0..(width - 1)
             PROVE  ~(IF b < 31 THEN (0 \div 2 ^ b) % 2 = 1 ELSE 0 < 0)
  BY DEF BitsOf
<1>1. b \in Nat
  OBVIOUS
<1>2. 2 ^ b \in Nat /\ 2 ^ b > 0
  BY <1>1, PowerPositive
<1> DEFINE u == 2 ^ b
<1>3. u \in Nat /\ u > 0
  BY <1>2
<1> HIDE DEF u
<1>4. 0 \div u = 0
  BY <1>3
<1>5. ~(IF b < 31 THEN (0 \div u) % 2 = 1 ELSE 0 < 0)
  BY <1>4
<1> QED  BY <1>5 DEF u

(* The fields of a register lie apart.                                     *)
Laid(reg) ==
  /\ \A a \in DOMAIN reg.fields : reg.fields[a][1] \in Nat /\ reg.fields[a][2] \in Nat
  /\ \A a, b \in DOMAIN reg.fields :
       a # b => \/ reg.fields[a][1] + reg.fields[a][2] <= reg.fields[b][2]
                \/ reg.fields[b][1] + reg.fields[b][2] <= reg.fields[a][2]

(* What a chain of settings does to the bits of one field.                 *)
Moved(bits, shift) == {b + shift : b \in bits}

(* Setting a field leaves its mask with the bits of the value.             *)
LEMMA SetOwn ==
  ASSUME NEW word, NEW field, field[1] \in Nat, field[2] \in Nat, NEW value
  PROVE  set_field(word, field, value) \cap Mask(field) = Moved(BitsOf(field[1], value), field[2])
<1>1. \A b \in BitsOf(field[1], value) : b \in Nat /\ b + field[2] \in Mask(field)
  BY DEF BitsOf, Mask
<1> QED  BY <1>1 DEF set_field, Moved

(* Setting a field leaves the mask of another alone.                       *)
LEMMA SetOther ==
  ASSUME NEW word, NEW field, NEW other, NEW value, Mask(field) \cap Mask(other) = {}
  PROVE  set_field(word, other, value) \cap Mask(field) = word \cap Mask(field)
  BY DEF set_field

(* What a mask holds is read back as it was set.                           *)
LEMMA MovedBack ==
  ASSUME NEW field, field[1] \in Nat, field[2] \in Nat, NEW value, NEW word,
         word \cap Mask(field) = Moved(BitsOf(field[1], value), field[2])
  PROVE  ReadBack(word, field) = BitsOf(field[1], value)
<1> DEFINE B == BitsOf(field[1], value)
<1>1. \A b \in B : b \in Int /\ (b + field[2]) - field[2] = b
  BY DEF BitsOf
<1>2. ReadBack(word, field) = {b - field[2] : b \in Moved(B, field[2])}
  BY DEF ReadBack
<1> HIDE DEF B
<1>3. {b - field[2] : b \in Moved(B, field[2])} = B
  BY <1>1 DEF Moved
<1> QED  BY <1>2, <1>3 DEF B

(* A well-made command: its register laid out, its chain a list of its     *)
(* fields.                                                                 *)
Chain(c) ==
  /\ Laid(c.reg) /\ IsProgram(c.sets)
  /\ \A j \in 1..Len(c.sets) : c.sets[j][1] \in DOMAIN c.reg.fields

(* The last of the settings of a field among the first i, zero for none.   *)
LastValue(c, name, i) ==
  LET given == {j \in 1..i : c.sets[j][1] = name}
  IN  IF given = {} THEN 0 ELSE c.sets[CHOOSE k \in given : \A j \in given : j <= k][2]

(* One setting more replaces the value of its own field only.              *)
LEMMA LastValueGrows ==
  ASSUME NEW c, NEW name, NEW i \in Nat
  PROVE  LastValue(c, name, i + 1)
           = IF c.sets[i + 1][1] = name THEN c.sets[i + 1][2] ELSE LastValue(c, name, i)
<1> DEFINE G(n) == {j \in 1..n : c.sets[j][1] = name}
<1>1. CASE c.sets[i + 1][1] = name
  <2>1. i + 1 \in G(i + 1) /\ \A j \in G(i + 1) : j <= i + 1
    BY <1>1
  <2>2. \A k \in G(i + 1) : (\A j \in G(i + 1) : j <= k) => k = i + 1
    BY <2>1
  <2>3. (CHOOSE k \in G(i + 1) : \A j \in G(i + 1) : j <= k) = i + 1
    <3> DEFINE H == G(i + 1)
    <3>1. i + 1 \in H /\ (\A j \in H : j <= i + 1) /\ (\A k \in H : (\A j \in H : j <= k) => k = i + 1)
      BY <2>1, <2>2
    <3> HIDE DEF H
    <3>2. (CHOOSE k \in H : \A j \in H : j <= k) = i + 1
      BY <3>1
    <3> QED  BY <3>2 DEF H
  <2>4. G(i + 1) # {}
    BY <2>1
  <2> QED  BY <1>1, <2>3, <2>4 DEF LastValue
<1>2. CASE c.sets[i + 1][1] # name
  <2>1. \A j \in 1..(i + 1) : j # i + 1 => j \in 1..i
    OBVIOUS
  <2>2. 1..i \subseteq 1..(i + 1)
    OBVIOUS
  <2>3. G(i + 1) = G(i)
    BY <1>2, <2>1, <2>2
  <2> DEFINE V(X) == IF X = {} THEN 0 ELSE c.sets[CHOOSE k \in X : \A j \in X : j <= k][2]
  <2>4. LastValue(c, name, i + 1) = V(G(i + 1)) /\ LastValue(c, name, i) = V(G(i))
    BY DEF LastValue
  <2> HIDE DEF G, V
  <2> QED  BY <1>2, <2>3, <2>4
<1> QED  BY <1>1, <1>2

(* A well-made command leaves every field with what its chain set last.    *)
LEMMA ChainReadsBack ==
  ASSUME NEW c, Chain(c), NEW name \in DOMAIN c.reg.fields
  PROVE  ReadBack(build(c), c.reg.fields[name]) = BitsOf(c.reg.fields[name][1], ValueOf(c, name))
<1> DEFINE m == Len(c.sets)
           P0(f) == f = [i \in 0..m |->
                          IF i = 0 THEN {}
                          ELSE set_field(f[i - 1], c.reg.fields[c.sets[i][1]], c.sets[i][2])]
           g == CHOOSE f : P0(f)
           field == c.reg.fields[name]
<1>1. m \in Nat
  BY DEF Chain, IsProgram
<1>2. /\ field[1] \in Nat /\ field[2] \in Nat
      /\ \A j \in 1..m : c.sets[j][1] \in DOMAIN c.reg.fields
  BY DEF Chain, Laid
<1>3. ASSUME NEW other \in DOMAIN c.reg.fields, other # name
      PROVE  Mask(field) \cap Mask(c.reg.fields[other]) = {}
  <2> DEFINE o == c.reg.fields[other]
  <2>1. o[1] \in Nat /\ o[2] \in Nat
        /\ (field[1] + field[2] <= o[2] \/ o[1] + o[2] <= field[2])
    BY <1>3 DEF Chain, Laid
  <2> HIDE DEF o, field
  <2>2. Mask(field) \cap Mask(o) = {}
    BY <1>2, <2>1 DEF Mask
  <2> QED  BY <2>2 DEF o
<1>4. P0(g)
  <2> DEFINE own(j) == {b + c.reg.fields[c.sets[j][1]][2] :
                          b \in BitsOf(c.reg.fields[c.sets[j][1]][1], c.sets[j][2])}
                         \cap Mask(c.reg.fields[c.sets[j][1]])
             mask(j) == Mask(c.reg.fields[c.sets[j][1]])
             all == UNION {own(j) : j \in 1..m}
             word(i) == {b \in all : \E j \in 1..i : b \in own(j) /\ \A k \in (j + 1)..i : b \notin mask(k)}
             h == [i \in 0..m |-> word(i)]
  <2>1. \A v, j : set_field(v, c.reg.fields[c.sets[j][1]], c.sets[j][2]) = (v \ mask(j)) \cup own(j)
    BY DEF set_field
  <2>2. \A j \in 1..m : own(j) \subseteq mask(j) /\ own(j) \subseteq all
    OBVIOUS
  <2> HIDE DEF own, mask, all
  <2>3. word(0) = {}
    OBVIOUS
  <2>4. ASSUME NEW i \in 1..m PROVE word(i) = (word(i - 1) \ mask(i)) \cup own(i)
    <3>0. i \in Nat /\ i - 1 \in Nat /\ i >= 1 /\ i <= m
      BY <1>1
    <3> HIDE DEF m
    <3>1. ASSUME NEW b \in word(i) PROVE b \in (word(i - 1) \ mask(i)) \cup own(i)
      <4>1. PICK j \in 1..i : b \in own(j) /\ \A k \in (j + 1)..i : b \notin mask(k)
        OBVIOUS
      <4>2. CASE j = i
        BY <4>1, <4>2
      <4>3. CASE j # i
        <5>1. j \in 1..(i - 1) /\ i \in (j + 1)..i
          BY <3>0, <4>3
        <5>2. \A k \in (j + 1)..(i - 1) : k \in (j + 1)..i
          BY <3>0
        <5> QED  BY <4>1, <5>1, <5>2
      <4> QED  BY <4>2, <4>3
    <3>2. ASSUME NEW b \in own(i) PROVE b \in word(i)
      <4>1. b \in all
        BY <2>2, <3>0
      <4>2. i \in 1..i /\ (i + 1)..i = {}
        BY <3>0
      <4> QED  BY <4>1, <4>2
    <3>3. ASSUME NEW b \in word(i - 1), b \notin mask(i) PROVE b \in word(i)
      <4>1. PICK j \in 1..(i - 1) : b \in own(j) /\ \A k \in (j + 1)..(i - 1) : b \notin mask(k)
        OBVIOUS
      <4>2. j \in 1..i /\ \A k \in (j + 1)..i : k = i \/ k \in (j + 1)..(i - 1)
        BY <3>0
      <4>3. b \in all
        BY <3>3
      <4> QED  BY <3>3, <4>1, <4>2, <4>3
    <3> HIDE DEF word
    <3> QED  BY <3>1, <3>2, <3>3
  <2> HIDE DEF word
  <2>5. \A i \in 1..m : i - 1 \in 0..m /\ i # 0
    BY <1>1
  <2>6. P0(h)
    <3>1. ASSUME NEW i \in 0..m
          PROVE  h[i] = IF i = 0 THEN {}
                        ELSE set_field(h[i - 1], c.reg.fields[c.sets[i][1]], c.sets[i][2])
      <4>1. CASE i = 0
        BY <2>3, <4>1
      <4>2. CASE i # 0
        <5>1. i \in 1..m
          BY <1>1, <4>2
        <5>2. h[i] = word(i) /\ h[i - 1] = word(i - 1)
          BY <2>5, <5>1
        <5> QED  BY <2>1, <2>4, <4>2, <5>1, <5>2
      <4> QED  BY <4>1, <4>2
    <3> QED  BY <3>1
  <2> HIDE DEF P0, h
  <2> QED  BY <2>6
<1>5. build(c) = g[m]
  BY DEF build
<1>6. ValueOf(c, name) = LastValue(c, name, m)
  BY DEF ValueOf, LastValue
<1>7. g[0] = {} /\ \A i \in 1..m : g[i] = set_field(g[i - 1], c.reg.fields[c.sets[i][1]], c.sets[i][2])
  <2> HIDE DEF g
  <2>1. 0 \in 0..m
    BY <1>1
  <2>2. \A i \in 1..m : i \in 0..m /\ i # 0
    BY <1>1
  <2> HIDE DEF m
  <2> QED  BY <1>4, <2>1, <2>2
<1> HIDE DEF g, P0, field
<1> DEFINE T == {i \in Nat : i <= m => g[i] \cap Mask(field) = Moved(BitsOf(field[1], LastValue(c, name, i)), field[2])}
<1>8. 0 \in T
  <2>1. LastValue(c, name, 0) = 0
    <3>1. 1..0 = {}
      OBVIOUS
    <3> QED  BY <3>1 DEF LastValue
  <2>2. Moved(BitsOf(field[1], 0), field[2]) = {}
    BY <1>2, NoBits DEF Moved
  <2> QED  BY <1>7, <2>1, <2>2
<1>9. ASSUME NEW i \in Nat, i \in T PROVE i + 1 \in T
  <2>1. SUFFICES ASSUME i + 1 <= m
                 PROVE  g[i + 1] \cap Mask(field)
                          = Moved(BitsOf(field[1], LastValue(c, name, i + 1)), field[2])
    OBVIOUS
  <2> DEFINE n == i + 1
             other == c.reg.fields[c.sets[n][1]]
             value == c.sets[n][2]
  <2>2. n \in 1..m /\ n - 1 = i /\ i <= m
    BY <1>1, <2>1
  <2>3. g[n] = set_field(g[i], other, value)
    BY <1>7, <2>2
  <2>4. g[i] \cap Mask(field) = Moved(BitsOf(field[1], LastValue(c, name, i)), field[2])
    BY <1>9, <2>2
  <2>5. LastValue(c, name, n) = IF c.sets[n][1] = name THEN value ELSE LastValue(c, name, i)
    BY LastValueGrows
  <2>6. c.sets[n][1] \in DOMAIN c.reg.fields
    BY <1>2, <2>2
  <2>7. CASE c.sets[n][1] = name
    <3>1. other = field
      BY <2>7 DEF field
    <3> HIDE DEF n, other, value
    <3>2. g[n] \cap Mask(field) = Moved(BitsOf(field[1], value), field[2])
      BY <1>2, <2>3, <3>1, SetOwn
    <3>3. LastValue(c, name, n) = value
      BY <2>5, <2>7
    <3>4. g[n] \cap Mask(field) = Moved(BitsOf(field[1], LastValue(c, name, n)), field[2])
      BY <3>2, <3>3
    <3> QED  BY <3>4 DEF n
  <2>8. CASE c.sets[n][1] # name
    <3>1. Mask(field) \cap Mask(other) = {}
      BY <1>3, <2>6, <2>8
    <3> HIDE DEF n, other, value
    <3>2. g[n] \cap Mask(field) = g[i] \cap Mask(field)
      BY <2>3, <3>1, SetOther
    <3>3. LastValue(c, name, n) = LastValue(c, name, i)
      BY <2>5, <2>8
    <3>4. g[n] \cap Mask(field) = Moved(BitsOf(field[1], LastValue(c, name, n)), field[2])
      BY <2>4, <3>2, <3>3
    <3> QED  BY <3>4 DEF n
  <2> QED  BY <2>7, <2>8
<1>10. m \in T
  <2>1. Nat \subseteq T
    <3> HIDE DEF T
    <3> QED  BY <1>8, <1>9, Induction
  <2> QED  BY <1>1, <2>1
<1>11. g[m] \cap Mask(field) = Moved(BitsOf(field[1], LastValue(c, name, m)), field[2])
  <2>1. m <= m
    BY <1>1
  <2> HIDE DEF m
  <2> QED  BY <1>10, <2>1
<1>12. ReadBack(g[m], field) = BitsOf(field[1], LastValue(c, name, m))
  <2> DEFINE v == LastValue(c, name, m)
             word == g[m]
  <2> HIDE DEF v, word
  <2>1. word \cap Mask(field) = Moved(BitsOf(field[1], v), field[2])
    BY <1>11 DEF v, word
  <2>2. ReadBack(word, field) = BitsOf(field[1], v)
    BY <1>2, <2>1, MovedBack
  <2> QED  BY <2>2 DEF v, word
<1> QED  BY <1>5, <1>6, <1>12 DEF field

(* A program of well-made commands, and two of them joined.                *)
Chains(p) == IsProgram(p) /\ \A i \in 1..Len(p) : Chain(p[i])

(* Such a program clobbers no field: every one of its words reads back.    *)
LEMMA ChainsReadBack ==
  ASSUME NEW p, Chains(p)
  PROVE  ReadsBack(p)
<1> SUFFICES ASSUME NEW i \in 1..Len(p), NEW name \in DOMAIN p[i].reg.fields
             PROVE  ReadBack(build(p[i]), p[i].reg.fields[name])
                      = BitsOf(p[i].reg.fields[name][1], ValueOf(p[i], name))
  BY DEF ReadsBack
<1> DEFINE c == p[i]
<1>1. Chain(c) /\ name \in DOMAIN c.reg.fields
  BY DEF Chains
<1> HIDE DEF c
<1>2. ReadBack(build(c), c.reg.fields[name]) = BitsOf(c.reg.fields[name][1], ValueOf(c, name))
  BY <1>1, ChainReadsBack
<1> QED  BY <1>2 DEF c

(* Two of them joined are one.                                             *)
LEMMA ChainsJoin ==
  ASSUME NEW a, NEW b, Chains(a), Chains(b)
  PROVE  Chains(a \o b)
<1> DEFINE p == a \o b
           m == Len(a)
           n == Len(b)
<1>1. /\ IsProgram(p) /\ Len(p) = m + n /\ m \in Nat /\ n \in Nat
      /\ \A i \in 1..m : p[i] = a[i]
      /\ \A i \in 1..n : p[m + i] = b[i]
  BY ConcatProgram DEF Chains
<1>2. (\A i \in 1..m : Chain(a[i])) /\ (\A i \in 1..n : Chain(b[i]))
  BY DEF Chains
<1> HIDE DEF p, m, n
<1>3. ASSUME NEW i \in 1..(m + n) PROVE Chain(p[i])
  <2>1. i \in 1..m \/ (i - m \in 1..n /\ m + (i - m) = i)
    BY <1>1, SplitAt
  <2> QED  BY <1>1, <1>2, <2>1
<1>4. Chains(p)
  BY <1>1, <1>3 DEF Chains
<1> QED  BY <1>4 DEF p
-----------------------------------------------------------------------------
(* The fields of DpuSPointer lie apart.                                    *)
LEMMA DpuSPointerLaid ==
  Laid(DpuSPointer) /\ DOMAIN DpuSPointer.fields =
    {"pointer", "pointer_pp_en", "executer_pp_en", "pointer_pp_mode",
    "pointer_pp_clear", "executer_pp_clear", "executer"}
  BY DEF Laid, Reg, DpuSPointer

(* The fields of DpuFeatureModeCfg lie apart.                              *)
LEMMA DpuFeatureModeCfgLaid ==
  Laid(DpuFeatureModeCfg) /\ DOMAIN DpuFeatureModeCfg.fields =
    {"flying_mode", "output_mode", "conv_mode", "burst_len", "surf_len",
    "nonalign", "rgp_type", "tp_en", "comb_use"}
  BY DEF Laid, Reg, DpuFeatureModeCfg

(* The fields of DpuDataFormat lie apart.                                  *)
LEMMA DpuDataFormatLaid ==
  Laid(DpuDataFormat) /\ DOMAIN DpuDataFormat.fields =
    {"proc_precision", "mc_surf_out", "bs_mul_shift_value_neg",
    "bn_mul_shift_value_neg", "ew_truncate_neg", "in_precision",
    "out_precision"}
  BY DEF Laid, Reg, DpuDataFormat

(* The fields of DpuDstBaseAddr lie apart.                                 *)
LEMMA DpuDstBaseAddrLaid ==
  Laid(DpuDstBaseAddr) /\ DOMAIN DpuDstBaseAddr.fields =
    {"dst_base_addr"}
  BY DEF Laid, Reg, DpuDstBaseAddr

(* The fields of DpuDstSurfStride lie apart.                               *)
LEMMA DpuDstSurfStrideLaid ==
  Laid(DpuDstSurfStride) /\ DOMAIN DpuDstSurfStride.fields =
    {"dst_surf_stride"}
  BY DEF Laid, Reg, DpuDstSurfStride

(* The fields of DpuDataCubeWidth lie apart.                               *)
LEMMA DpuDataCubeWidthLaid ==
  Laid(DpuDataCubeWidth) /\ DOMAIN DpuDataCubeWidth.fields =
    {"width"}
  BY DEF Laid, Reg, DpuDataCubeWidth

(* The fields of DpuDataCubeHeight lie apart.                              *)
LEMMA DpuDataCubeHeightLaid ==
  Laid(DpuDataCubeHeight) /\ DOMAIN DpuDataCubeHeight.fields =
    {"height", "minmax_ctl"}
  BY DEF Laid, Reg, DpuDataCubeHeight

(* The fields of DpuDataCubeNotchAddr lie apart.                           *)
LEMMA DpuDataCubeNotchAddrLaid ==
  Laid(DpuDataCubeNotchAddr) /\ DOMAIN DpuDataCubeNotchAddr.fields =
    {"notch_addr_0", "notch_addr_1"}
  BY DEF Laid, Reg, DpuDataCubeNotchAddr

(* The fields of DpuDataCubeChannel lie apart.                             *)
LEMMA DpuDataCubeChannelLaid ==
  Laid(DpuDataCubeChannel) /\ DOMAIN DpuDataCubeChannel.fields =
    {"channel", "orig_channel"}
  BY DEF Laid, Reg, DpuDataCubeChannel

(* The fields of DpuBsCfg lie apart.                                       *)
LEMMA DpuBsCfgLaid ==
  Laid(DpuBsCfg) /\ DOMAIN DpuBsCfg.fields =
    {"bs_bypass", "bs_alu_bypass", "bs_mul_bypass", "bs_mul_prelu",
    "bs_relu_bypass", "bs_relux_en", "bs_alu_src", "bs_alu_algo"}
  BY DEF Laid, Reg, DpuBsCfg

(* The fields of DpuBsOwCfg lie apart.                                     *)
LEMMA DpuBsOwCfgLaid ==
  Laid(DpuBsOwCfg) /\ DOMAIN DpuBsOwCfg.fields =
    {"ow_src", "od_bypass", "size_e_0", "size_e_1", "size_e_2",
    "tp_org_en", "rgp_cnter"}
  BY DEF Laid, Reg, DpuBsOwCfg

(* The fields of DpuWdmaSize0 lie apart.                                   *)
LEMMA DpuWdmaSize0Laid ==
  Laid(DpuWdmaSize0) /\ DOMAIN DpuWdmaSize0.fields =
    {"channel_wdma", "size_c_wdma", "tp_precision"}
  BY DEF Laid, Reg, DpuWdmaSize0

(* The fields of DpuWdmaSize1 lie apart.                                   *)
LEMMA DpuWdmaSize1Laid ==
  Laid(DpuWdmaSize1) /\ DOMAIN DpuWdmaSize1.fields =
    {"width_wdma", "height_wdma"}
  BY DEF Laid, Reg, DpuWdmaSize1

(* The fields of DpuBnCfg lie apart.                                       *)
LEMMA DpuBnCfgLaid ==
  Laid(DpuBnCfg) /\ DOMAIN DpuBnCfg.fields =
    {"bn_bypass", "bn_alu_bypass", "bn_mul_bypass", "bn_mul_prelu",
    "bn_relu_bypass", "bn_relux_en", "bn_alu_src", "bn_alu_algo"}
  BY DEF Laid, Reg, DpuBnCfg

(* The fields of DpuBnAluCfg lie apart.                                    *)
LEMMA DpuBnAluCfgLaid ==
  Laid(DpuBnAluCfg) /\ DOMAIN DpuBnAluCfg.fields =
    {"bn_alu_operand"}
  BY DEF Laid, Reg, DpuBnAluCfg

(* The fields of DpuBnMulCfg lie apart.                                    *)
LEMMA DpuBnMulCfgLaid ==
  Laid(DpuBnMulCfg) /\ DOMAIN DpuBnMulCfg.fields =
    {"bn_mul_src", "bn_truncate_src", "bn_mul_shift_value",
    "bn_mul_operand"}
  BY DEF Laid, Reg, DpuBnMulCfg

(* The fields of DpuEwCfg lie apart.                                       *)
LEMMA DpuEwCfgLaid ==
  Laid(DpuEwCfg) /\ DOMAIN DpuEwCfg.fields =
    {"ew_bypass", "ew_op_bypass", "ew_op_type", "ew_mul_prelu",
    "ew_op_src", "ew_lut_bypass", "ew_op_cvt_bypass", "ew_relu_bypass",
    "ew_relux_en", "ew_alu_algo", "ew_binary_en", "ew_equal_en",
    "edata_size", "ew_data_mode", "ew_cvt_round", "ew_cvt_type"}
  BY DEF Laid, Reg, DpuEwCfg

(* The fields of DpuEwCvtScaleValue lie apart.                             *)
LEMMA DpuEwCvtScaleValueLaid ==
  Laid(DpuEwCvtScaleValue) /\ DOMAIN DpuEwCvtScaleValue.fields =
    {"ew_op_cvt_scale", "ew_op_cvt_shift", "ew_truncate"}
  BY DEF Laid, Reg, DpuEwCvtScaleValue

(* The fields of DpuOutCvtOffset lie apart.                                *)
LEMMA DpuOutCvtOffsetLaid ==
  Laid(DpuOutCvtOffset) /\ DOMAIN DpuOutCvtOffset.fields =
    {"out_cvt_offset"}
  BY DEF Laid, Reg, DpuOutCvtOffset

(* The fields of DpuOutCvtScale lie apart.                                 *)
LEMMA DpuOutCvtScaleLaid ==
  Laid(DpuOutCvtScale) /\ DOMAIN DpuOutCvtScale.fields =
    {"out_cvt_scale", "fp32tofp16_en"}
  BY DEF Laid, Reg, DpuOutCvtScale

(* The fields of DpuOutCvtShift lie apart.                                 *)
LEMMA DpuOutCvtShiftLaid ==
  Laid(DpuOutCvtShift) /\ DOMAIN DpuOutCvtShift.fields =
    {"out_cvt_shift", "minus_exp", "cvt_round", "cvt_type"}
  BY DEF Laid, Reg, DpuOutCvtShift

(* The fields of DpuEwOpValue lie apart.                                   *)
LEMMA DpuEwOpValueLaid ==
  \A lane : Laid(DpuEwOpValue(lane)) /\ DOMAIN DpuEwOpValue(lane).fields =
    {"ew_operand"}
  BY DEF Laid, Reg, DpuEwOpValue

(* The fields of DpuSurfaceAdd lie apart.                                  *)
LEMMA DpuSurfaceAddLaid ==
  Laid(DpuSurfaceAdd) /\ DOMAIN DpuSurfaceAdd.fields =
    {"surf_add"}
  BY DEF Laid, Reg, DpuSurfaceAdd

(* The fields of DpuLutAccessCfg lie apart.                                *)
LEMMA DpuLutAccessCfgLaid ==
  Laid(DpuLutAccessCfg) /\ DOMAIN DpuLutAccessCfg.fields =
    {"lut_addr", "lut_table_id", "lut_access_type"}
  BY DEF Laid, Reg, DpuLutAccessCfg

(* The fields of DpuLutCfg lie apart.                                      *)
LEMMA DpuLutCfgLaid ==
  Laid(DpuLutCfg) /\ DOMAIN DpuLutCfg.fields =
    {"lut_road_sel", "lut_expand_en", "lut_lo_le_mux",
    "lut_uflow_priority", "lut_oflow_priority", "lut_hybrid_priority",
    "lut_cal_sel"}
  BY DEF Laid, Reg, DpuLutCfg

(* The fields of DpuLutInfo lie apart.                                     *)
LEMMA DpuLutInfoLaid ==
  Laid(DpuLutInfo) /\ DOMAIN DpuLutInfo.fields =
    {"lut_le_index_select", "lut_lo_index_select"}
  BY DEF Laid, Reg, DpuLutInfo

(* The fields of DpuLutLeStart lie apart.                                  *)
LEMMA DpuLutLeStartLaid ==
  Laid(DpuLutLeStart) /\ DOMAIN DpuLutLeStart.fields =
    {"lut_le_start"}
  BY DEF Laid, Reg, DpuLutLeStart

(* The fields of DpuLutLoEnd lie apart.                                    *)
LEMMA DpuLutLoEndLaid ==
  Laid(DpuLutLoEnd) /\ DOMAIN DpuLutLoEnd.fields =
    {"lut_lo_end"}
  BY DEF Laid, Reg, DpuLutLoEnd

(* The fields of DpuLutLeSlopeScale lie apart.                             *)
LEMMA DpuLutLeSlopeScaleLaid ==
  Laid(DpuLutLeSlopeScale) /\ DOMAIN DpuLutLeSlopeScale.fields =
    {"lut_le_slope_uflow_scale", "lut_le_slope_oflow_scale"}
  BY DEF Laid, Reg, DpuLutLeSlopeScale

(* The fields of DpuLutLeSlopeShift lie apart.                             *)
LEMMA DpuLutLeSlopeShiftLaid ==
  Laid(DpuLutLeSlopeShift) /\ DOMAIN DpuLutLeSlopeShift.fields =
    {"lut_le_slope_uflow_shift", "lut_le_slope_oflow_shift"}
  BY DEF Laid, Reg, DpuLutLeSlopeShift

(* The fields of DpuRdmaSPointer lie apart.                                *)
LEMMA DpuRdmaSPointerLaid ==
  Laid(DpuRdmaSPointer) /\ DOMAIN DpuRdmaSPointer.fields =
    {"pointer", "pointer_pp_en", "executer_pp_en", "pointer_pp_mode",
    "pointer_pp_clear", "executer_pp_clear", "executer"}
  BY DEF Laid, Reg, DpuRdmaSPointer

(* The fields of DpuRdmaDataCubeWidth lie apart.                           *)
LEMMA DpuRdmaDataCubeWidthLaid ==
  Laid(DpuRdmaDataCubeWidth) /\ DOMAIN DpuRdmaDataCubeWidth.fields =
    {"width"}
  BY DEF Laid, Reg, DpuRdmaDataCubeWidth

(* The fields of DpuRdmaDataCubeHeight lie apart.                          *)
LEMMA DpuRdmaDataCubeHeightLaid ==
  Laid(DpuRdmaDataCubeHeight) /\ DOMAIN DpuRdmaDataCubeHeight.fields =
    {"height", "ew_line_notch_addr"}
  BY DEF Laid, Reg, DpuRdmaDataCubeHeight

(* The fields of DpuRdmaDataCubeChannel lie apart.                         *)
LEMMA DpuRdmaDataCubeChannelLaid ==
  Laid(DpuRdmaDataCubeChannel) /\ DOMAIN DpuRdmaDataCubeChannel.fields =
    {"channel"}
  BY DEF Laid, Reg, DpuRdmaDataCubeChannel

(* The fields of DpuRdmaSrcBaseAddr lie apart.                             *)
LEMMA DpuRdmaSrcBaseAddrLaid ==
  Laid(DpuRdmaSrcBaseAddr) /\ DOMAIN DpuRdmaSrcBaseAddr.fields =
    {"src_base_addr"}
  BY DEF Laid, Reg, DpuRdmaSrcBaseAddr

(* The fields of DpuRdmaErdmaCfg lie apart.                                *)
LEMMA DpuRdmaErdmaCfgLaid ==
  Laid(DpuRdmaErdmaCfg) /\ DOMAIN DpuRdmaErdmaCfg.fields =
    {"erdma_disable", "ov4k_bypass", "erdma_data_size", "erdma_nonalign",
    "erdma_surf_mode", "erdma_data_mode"}
  BY DEF Laid, Reg, DpuRdmaErdmaCfg

(* The fields of DpuRdmaEwBaseAddr lie apart.                              *)
LEMMA DpuRdmaEwBaseAddrLaid ==
  Laid(DpuRdmaEwBaseAddr) /\ DOMAIN DpuRdmaEwBaseAddr.fields =
    {"ew_base_addr"}
  BY DEF Laid, Reg, DpuRdmaEwBaseAddr

(* The fields of DpuRdmaEwSurfStride lie apart.                            *)
LEMMA DpuRdmaEwSurfStrideLaid ==
  Laid(DpuRdmaEwSurfStride) /\ DOMAIN DpuRdmaEwSurfStride.fields =
    {"ew_surf_stride"}
  BY DEF Laid, Reg, DpuRdmaEwSurfStride

(* The fields of DpuRdmaFeatureModeCfg lie apart.                          *)
LEMMA DpuRdmaFeatureModeCfgLaid ==
  Laid(DpuRdmaFeatureModeCfg) /\ DOMAIN DpuRdmaFeatureModeCfg.fields =
    {"flying_mode", "conv_mode", "mrdma_fp16tofp32_en", "mrdma_disable",
    "proc_precision", "comb_use", "burst_len", "in_precision"}
  BY DEF Laid, Reg, DpuRdmaFeatureModeCfg

(* The fields of DpuRdmaWeight lie apart.                                  *)
LEMMA DpuRdmaWeightLaid ==
  Laid(DpuRdmaWeight) /\ DOMAIN DpuRdmaWeight.fields =
    {"m_weight", "b_weight", "n_weight", "e_weight"}
  BY DEF Laid, Reg, DpuRdmaWeight

(* The fields of PpuSPointer lie apart.                                    *)
LEMMA PpuSPointerLaid ==
  Laid(PpuSPointer) /\ DOMAIN PpuSPointer.fields =
    {"pointer", "pointer_pp_en", "executer_pp_en", "pointer_pp_mode",
    "pointer_pp_clear", "executer_pp_clear", "executer"}
  BY DEF Laid, Reg, PpuSPointer

(* The fields of PpuDataCubeInWidth lie apart.                             *)
LEMMA PpuDataCubeInWidthLaid ==
  Laid(PpuDataCubeInWidth) /\ DOMAIN PpuDataCubeInWidth.fields =
    {"cube_in_width"}
  BY DEF Laid, Reg, PpuDataCubeInWidth

(* The fields of PpuDataCubeInHeight lie apart.                            *)
LEMMA PpuDataCubeInHeightLaid ==
  Laid(PpuDataCubeInHeight) /\ DOMAIN PpuDataCubeInHeight.fields =
    {"cube_in_height"}
  BY DEF Laid, Reg, PpuDataCubeInHeight

(* The fields of PpuDataCubeInChannel lie apart.                           *)
LEMMA PpuDataCubeInChannelLaid ==
  Laid(PpuDataCubeInChannel) /\ DOMAIN PpuDataCubeInChannel.fields =
    {"cube_in_channel"}
  BY DEF Laid, Reg, PpuDataCubeInChannel

(* The fields of PpuDataCubeOutWidth lie apart.                            *)
LEMMA PpuDataCubeOutWidthLaid ==
  Laid(PpuDataCubeOutWidth) /\ DOMAIN PpuDataCubeOutWidth.fields =
    {"cube_out_width"}
  BY DEF Laid, Reg, PpuDataCubeOutWidth

(* The fields of PpuDataCubeOutHeight lie apart.                           *)
LEMMA PpuDataCubeOutHeightLaid ==
  Laid(PpuDataCubeOutHeight) /\ DOMAIN PpuDataCubeOutHeight.fields =
    {"cube_out_height"}
  BY DEF Laid, Reg, PpuDataCubeOutHeight

(* The fields of PpuDataCubeOutChannel lie apart.                          *)
LEMMA PpuDataCubeOutChannelLaid ==
  Laid(PpuDataCubeOutChannel) /\ DOMAIN PpuDataCubeOutChannel.fields =
    {"cube_out_channel"}
  BY DEF Laid, Reg, PpuDataCubeOutChannel

(* The fields of PpuOperationModeCfg lie apart.                            *)
LEMMA PpuOperationModeCfgLaid ==
  Laid(PpuOperationModeCfg) /\ DOMAIN PpuOperationModeCfg.fields =
    {"pooling_method", "flying_mode", "use_cnt", "notch_addr", "index_en"}
  BY DEF Laid, Reg, PpuOperationModeCfg

(* The fields of PpuPoolingKernelCfg lie apart.                            *)
LEMMA PpuPoolingKernelCfgLaid ==
  Laid(PpuPoolingKernelCfg) /\ DOMAIN PpuPoolingKernelCfg.fields =
    {"kernel_width", "kernel_height", "kernel_stride_width",
    "kernel_stride_height"}
  BY DEF Laid, Reg, PpuPoolingKernelCfg

(* The fields of PpuRecipKernelWidth lie apart.                            *)
LEMMA PpuRecipKernelWidthLaid ==
  Laid(PpuRecipKernelWidth) /\ DOMAIN PpuRecipKernelWidth.fields =
    {"recip_kernel_width"}
  BY DEF Laid, Reg, PpuRecipKernelWidth

(* The fields of PpuRecipKernelHeight lie apart.                           *)
LEMMA PpuRecipKernelHeightLaid ==
  Laid(PpuRecipKernelHeight) /\ DOMAIN PpuRecipKernelHeight.fields =
    {"recip_kernel_height"}
  BY DEF Laid, Reg, PpuRecipKernelHeight

(* The fields of PpuPoolingPaddingCfg lie apart.                           *)
LEMMA PpuPoolingPaddingCfgLaid ==
  Laid(PpuPoolingPaddingCfg) /\ DOMAIN PpuPoolingPaddingCfg.fields =
    {"pad_left", "pad_top", "pad_right", "pad_bottom"}
  BY DEF Laid, Reg, PpuPoolingPaddingCfg

(* The fields of PpuPaddingValue1Cfg lie apart.                            *)
LEMMA PpuPaddingValue1CfgLaid ==
  Laid(PpuPaddingValue1Cfg) /\ DOMAIN PpuPaddingValue1Cfg.fields =
    {"pad_value_0"}
  BY DEF Laid, Reg, PpuPaddingValue1Cfg

(* The fields of PpuDstBaseAddr lie apart.                                 *)
LEMMA PpuDstBaseAddrLaid ==
  Laid(PpuDstBaseAddr) /\ DOMAIN PpuDstBaseAddr.fields =
    {"dst_base_addr"}
  BY DEF Laid, Reg, PpuDstBaseAddr

(* The fields of PpuDstSurfStride lie apart.                               *)
LEMMA PpuDstSurfStrideLaid ==
  Laid(PpuDstSurfStride) /\ DOMAIN PpuDstSurfStride.fields =
    {"dst_surf_stride"}
  BY DEF Laid, Reg, PpuDstSurfStride

(* The fields of PpuDataFormat lie apart.                                  *)
LEMMA PpuDataFormatLaid ==
  Laid(PpuDataFormat) /\ DOMAIN PpuDataFormat.fields =
    {"proc_precision", "dpu_flyin", "index_add"}
  BY DEF Laid, Reg, PpuDataFormat

(* The fields of PpuMiscCtrl lie apart.                                    *)
LEMMA PpuMiscCtrlLaid ==
  Laid(PpuMiscCtrl) /\ DOMAIN PpuMiscCtrl.fields =
    {"burst_len", "nonalign", "mc_surf_out", "surf_len"}
  BY DEF Laid, Reg, PpuMiscCtrl

(* The fields of PpuRdmaSPointer lie apart.                                *)
LEMMA PpuRdmaSPointerLaid ==
  Laid(PpuRdmaSPointer) /\ DOMAIN PpuRdmaSPointer.fields =
    {"pointer", "pointer_pp_en", "executer_pp_en", "pointer_pp_mode",
    "pointer_pp_clear", "executer_pp_clear", "executer"}
  BY DEF Laid, Reg, PpuRdmaSPointer

(* The fields of PpuRdmaCubeInWidth lie apart.                             *)
LEMMA PpuRdmaCubeInWidthLaid ==
  Laid(PpuRdmaCubeInWidth) /\ DOMAIN PpuRdmaCubeInWidth.fields =
    {"cube_in_width"}
  BY DEF Laid, Reg, PpuRdmaCubeInWidth

(* The fields of PpuRdmaCubeInHeight lie apart.                            *)
LEMMA PpuRdmaCubeInHeightLaid ==
  Laid(PpuRdmaCubeInHeight) /\ DOMAIN PpuRdmaCubeInHeight.fields =
    {"cube_in_height"}
  BY DEF Laid, Reg, PpuRdmaCubeInHeight

(* The fields of PpuRdmaCubeInChannel lie apart.                           *)
LEMMA PpuRdmaCubeInChannelLaid ==
  Laid(PpuRdmaCubeInChannel) /\ DOMAIN PpuRdmaCubeInChannel.fields =
    {"cube_in_channel"}
  BY DEF Laid, Reg, PpuRdmaCubeInChannel

(* The fields of PpuRdmaSrcBaseAddr lie apart.                             *)
LEMMA PpuRdmaSrcBaseAddrLaid ==
  Laid(PpuRdmaSrcBaseAddr) /\ DOMAIN PpuRdmaSrcBaseAddr.fields =
    {"src_base_addr"}
  BY DEF Laid, Reg, PpuRdmaSrcBaseAddr

(* The fields of PpuRdmaSrcLineStride lie apart.                           *)
LEMMA PpuRdmaSrcLineStrideLaid ==
  Laid(PpuRdmaSrcLineStride) /\ DOMAIN PpuRdmaSrcLineStride.fields =
    {"src_line_stride"}
  BY DEF Laid, Reg, PpuRdmaSrcLineStride

(* The fields of PpuRdmaSrcSurfStride lie apart.                           *)
LEMMA PpuRdmaSrcSurfStrideLaid ==
  Laid(PpuRdmaSrcSurfStride) /\ DOMAIN PpuRdmaSrcSurfStride.fields =
    {"src_surf_stride"}
  BY DEF Laid, Reg, PpuRdmaSrcSurfStride

(* The fields of PpuRdmaDataFormat lie apart.                              *)
LEMMA PpuRdmaDataFormatLaid ==
  Laid(PpuRdmaDataFormat) /\ DOMAIN PpuRdmaDataFormat.fields =
    {"in_precision"}
  BY DEF Laid, Reg, PpuRdmaDataFormat

(* The builder without a chain is a well-made command.                     *)
LEMMA Chain0 ==
  ASSUME NEW reg, Laid(reg)
  PROVE  Chain(zero(reg))
<1>1. /\ zero(reg).reg = reg /\ zero(reg).sets = <<>>
  BY DEF zero, Cmd
<1>2. IsProgram(<<>>) /\ 1..Len(<<>>) = {}
  BY DEF IsProgram, Listed
<1> QED  BY <1>1, <1>2 DEF Chain

(* A command is well made when its settings name fields of its register.   *)
LEMMA ChainOf ==
  ASSUME NEW reg, NEW sets, Laid(reg), IsProgram(sets),
         \A j \in 1..Len(sets) : sets[j][1] \in DOMAIN reg.fields
  PROVE  Chain(Cmd(reg, sets))
<1> DEFINE c == Cmd(reg, sets)
<1>1. c.reg = reg /\ c.sets = sets
  BY CmdIs
<1> HIDE DEF c
<1>2. Chain(c)
  BY <1>1 DEF Chain
<1> QED  BY <1>2 DEF c

(* So is a chain of 1.                                                     *)
LEMMA Chain1 ==
  ASSUME NEW reg, Laid(reg), NEW n1 \in DOMAIN reg.fields,
         NEW v1
  PROVE  Chain(Cmd(reg, <<<<n1, v1>>>>))
<1> DEFINE sets == <<<<n1, v1>>>>
<1>1. /\ Len(sets) = 1 /\ IsProgram(sets)
      /\ sets[1][1] = n1
  BY DEF IsProgram, Listed
<1> HIDE DEF sets
<1>2. \A j \in 1..1 : j \in {1}
  OBVIOUS
<1>3. \A j \in 1..1 : sets[j][1] \in DOMAIN reg.fields
  BY <1>1, <1>2
<1>4. Chain(Cmd(reg, sets))
  <2>1. \A j \in 1..Len(sets) : sets[j][1] \in DOMAIN reg.fields
    BY <1>1, <1>3
  <2> QED  BY <1>1, <2>1, ChainOf
<1> QED  BY <1>4 DEF sets

(* So is a chain of 2.                                                     *)
LEMMA Chain2 ==
  ASSUME NEW reg, Laid(reg), NEW n1 \in DOMAIN reg.fields, NEW n2 \in DOMAIN reg.fields,
         NEW v1, NEW v2
  PROVE  Chain(Cmd(reg, <<<<n1, v1>>, <<n2, v2>>>>))
<1> DEFINE sets == <<<<n1, v1>>, <<n2, v2>>>>
<1>1. /\ Len(sets) = 2 /\ IsProgram(sets)
      /\ sets[1][1] = n1
      /\ sets[2][1] = n2
  BY DEF IsProgram, Listed
<1> HIDE DEF sets
<1>2. \A j \in 1..2 : j \in {1, 2}
  OBVIOUS
<1>3. \A j \in 1..2 : sets[j][1] \in DOMAIN reg.fields
  BY <1>1, <1>2
<1>4. Chain(Cmd(reg, sets))
  <2>1. \A j \in 1..Len(sets) : sets[j][1] \in DOMAIN reg.fields
    BY <1>1, <1>3
  <2> QED  BY <1>1, <2>1, ChainOf
<1> QED  BY <1>4 DEF sets

(* So is a chain of 3.                                                     *)
LEMMA Chain3 ==
  ASSUME NEW reg, Laid(reg), NEW n1 \in DOMAIN reg.fields, NEW n2 \in DOMAIN reg.fields, NEW n3 \in DOMAIN reg.fields,
         NEW v1, NEW v2, NEW v3
  PROVE  Chain(Cmd(reg, <<<<n1, v1>>, <<n2, v2>>, <<n3, v3>>>>))
<1> DEFINE sets == <<<<n1, v1>>, <<n2, v2>>, <<n3, v3>>>>
<1>1. /\ Len(sets) = 3 /\ IsProgram(sets)
      /\ sets[1][1] = n1
      /\ sets[2][1] = n2
      /\ sets[3][1] = n3
  BY DEF IsProgram, Listed
<1> HIDE DEF sets
<1>2. \A j \in 1..3 : j \in {1, 2, 3}
  OBVIOUS
<1>3. \A j \in 1..3 : sets[j][1] \in DOMAIN reg.fields
  BY <1>1, <1>2
<1>4. Chain(Cmd(reg, sets))
  <2>1. \A j \in 1..Len(sets) : sets[j][1] \in DOMAIN reg.fields
    BY <1>1, <1>3
  <2> QED  BY <1>1, <2>1, ChainOf
<1> QED  BY <1>4 DEF sets

(* So is a chain of 4.                                                     *)
LEMMA Chain4 ==
  ASSUME NEW reg, Laid(reg), NEW n1 \in DOMAIN reg.fields, NEW n2 \in DOMAIN reg.fields, NEW n3 \in DOMAIN reg.fields,
         NEW n4 \in DOMAIN reg.fields,
         NEW v1, NEW v2, NEW v3, NEW v4
  PROVE  Chain(Cmd(reg, <<<<n1, v1>>, <<n2, v2>>, <<n3, v3>>, <<n4, v4>>>>))
<1> DEFINE sets == <<<<n1, v1>>, <<n2, v2>>, <<n3, v3>>, <<n4, v4>>>>
<1>1. /\ Len(sets) = 4 /\ IsProgram(sets)
      /\ sets[1][1] = n1
      /\ sets[2][1] = n2
      /\ sets[3][1] = n3
      /\ sets[4][1] = n4
  BY DEF IsProgram, Listed
<1> HIDE DEF sets
<1>2. \A j \in 1..4 : j \in {1, 2, 3, 4}
  OBVIOUS
<1>3. \A j \in 1..4 : sets[j][1] \in DOMAIN reg.fields
  BY <1>1, <1>2
<1>4. Chain(Cmd(reg, sets))
  <2>1. \A j \in 1..Len(sets) : sets[j][1] \in DOMAIN reg.fields
    BY <1>1, <1>3
  <2> QED  BY <1>1, <2>1, ChainOf
<1> QED  BY <1>4 DEF sets

(* So is a chain of 5.                                                     *)
LEMMA Chain5 ==
  ASSUME NEW reg, Laid(reg), NEW n1 \in DOMAIN reg.fields, NEW n2 \in DOMAIN reg.fields, NEW n3 \in DOMAIN reg.fields,
         NEW n4 \in DOMAIN reg.fields,
         NEW n5 \in DOMAIN reg.fields,
         NEW v1, NEW v2, NEW v3, NEW v4, NEW v5
  PROVE  Chain(Cmd(reg, <<<<n1, v1>>, <<n2, v2>>, <<n3, v3>>, <<n4, v4>>, <<n5, v5>>>>))
<1> DEFINE sets == <<<<n1, v1>>, <<n2, v2>>, <<n3, v3>>, <<n4, v4>>, <<n5, v5>>>>
<1>1. /\ Len(sets) = 5 /\ IsProgram(sets)
      /\ sets[1][1] = n1
      /\ sets[2][1] = n2
      /\ sets[3][1] = n3
      /\ sets[4][1] = n4
      /\ sets[5][1] = n5
  BY DEF IsProgram, Listed
<1> HIDE DEF sets
<1>2. \A j \in 1..5 : j \in {1, 2, 3, 4, 5}
  OBVIOUS
<1>3. \A j \in 1..5 : sets[j][1] \in DOMAIN reg.fields
  BY <1>1, <1>2
<1>4. Chain(Cmd(reg, sets))
  <2>1. \A j \in 1..Len(sets) : sets[j][1] \in DOMAIN reg.fields
    BY <1>1, <1>3
  <2> QED  BY <1>1, <2>1, ChainOf
<1> QED  BY <1>4 DEF sets

(* So is a chain of 6.                                                     *)
LEMMA Chain6 ==
  ASSUME NEW reg, Laid(reg), NEW n1 \in DOMAIN reg.fields, NEW n2 \in DOMAIN reg.fields, NEW n3 \in DOMAIN reg.fields,
         NEW n4 \in DOMAIN reg.fields,
         NEW n5 \in DOMAIN reg.fields,
         NEW n6 \in DOMAIN reg.fields,
         NEW v1, NEW v2, NEW v3, NEW v4, NEW v5, NEW v6
  PROVE  Chain(Cmd(reg, <<<<n1, v1>>, <<n2, v2>>, <<n3, v3>>, <<n4, v4>>, <<n5, v5>>, <<n6, v6>>>>))
<1> DEFINE sets == <<<<n1, v1>>, <<n2, v2>>, <<n3, v3>>, <<n4, v4>>, <<n5, v5>>, <<n6, v6>>>>
<1>1. /\ Len(sets) = 6 /\ IsProgram(sets)
      /\ sets[1][1] = n1
      /\ sets[2][1] = n2
      /\ sets[3][1] = n3
      /\ sets[4][1] = n4
      /\ sets[5][1] = n5
      /\ sets[6][1] = n6
  BY DEF IsProgram, Listed
<1> HIDE DEF sets
<1>2. \A j \in 1..6 : j \in {1, 2, 3, 4, 5, 6}
  OBVIOUS
<1>3. \A j \in 1..6 : sets[j][1] \in DOMAIN reg.fields
  BY <1>1, <1>2
<1>4. Chain(Cmd(reg, sets))
  <2>1. \A j \in 1..Len(sets) : sets[j][1] \in DOMAIN reg.fields
    BY <1>1, <1>3
  <2> QED  BY <1>1, <2>1, ChainOf
<1> QED  BY <1>4 DEF sets

(* So is a chain of 7.                                                     *)
LEMMA Chain7 ==
  ASSUME NEW reg, Laid(reg), NEW n1 \in DOMAIN reg.fields, NEW n2 \in DOMAIN reg.fields, NEW n3 \in DOMAIN reg.fields,
         NEW n4 \in DOMAIN reg.fields,
         NEW n5 \in DOMAIN reg.fields,
         NEW n6 \in DOMAIN reg.fields,
         NEW n7 \in DOMAIN reg.fields,
         NEW v1, NEW v2, NEW v3, NEW v4, NEW v5, NEW v6, NEW v7
  PROVE  Chain(Cmd(reg, <<<<n1, v1>>, <<n2, v2>>, <<n3, v3>>, <<n4, v4>>, <<n5, v5>>, <<n6, v6>>, <<n7, v7>>>>))
<1> DEFINE sets == <<<<n1, v1>>, <<n2, v2>>, <<n3, v3>>, <<n4, v4>>, <<n5, v5>>, <<n6, v6>>, <<n7, v7>>>>
<1>1. /\ Len(sets) = 7 /\ IsProgram(sets)
      /\ sets[1][1] = n1
      /\ sets[2][1] = n2
      /\ sets[3][1] = n3
      /\ sets[4][1] = n4
      /\ sets[5][1] = n5
      /\ sets[6][1] = n6
      /\ sets[7][1] = n7
  BY DEF IsProgram, Listed
<1> HIDE DEF sets
<1>2. \A j \in 1..7 : j \in {1, 2, 3, 4, 5, 6, 7}
  OBVIOUS
<1>3. \A j \in 1..7 : sets[j][1] \in DOMAIN reg.fields
  BY <1>1, <1>2
<1>4. Chain(Cmd(reg, sets))
  <2>1. \A j \in 1..Len(sets) : sets[j][1] \in DOMAIN reg.fields
    BY <1>1, <1>3
  <2> QED  BY <1>1, <2>1, ChainOf
<1> QED  BY <1>4 DEF sets

(* So is a chain of 9.                                                     *)
LEMMA Chain9 ==
  ASSUME NEW reg, Laid(reg), NEW n1 \in DOMAIN reg.fields, NEW n2 \in DOMAIN reg.fields, NEW n3 \in DOMAIN reg.fields,
         NEW n4 \in DOMAIN reg.fields,
         NEW n5 \in DOMAIN reg.fields,
         NEW n6 \in DOMAIN reg.fields,
         NEW n7 \in DOMAIN reg.fields,
         NEW n8 \in DOMAIN reg.fields,
         NEW n9 \in DOMAIN reg.fields,
         NEW v1, NEW v2, NEW v3, NEW v4, NEW v5, NEW v6, NEW v7, NEW v8, NEW v9
  PROVE  Chain(Cmd(reg, <<<<n1, v1>>, <<n2, v2>>, <<n3, v3>>, <<n4, v4>>, <<n5, v5>>, <<n6, v6>>, <<n7, v7>>, <<n8, v8>>, <<n9, v9>>>>))
<1> DEFINE sets == <<<<n1, v1>>, <<n2, v2>>, <<n3, v3>>, <<n4, v4>>, <<n5, v5>>, <<n6, v6>>, <<n7, v7>>, <<n8, v8>>, <<n9, v9>>>>
<1>1. /\ Len(sets) = 9 /\ IsProgram(sets)
      /\ sets[1][1] = n1
      /\ sets[2][1] = n2
      /\ sets[3][1] = n3
      /\ sets[4][1] = n4
      /\ sets[5][1] = n5
      /\ sets[6][1] = n6
      /\ sets[7][1] = n7
      /\ sets[8][1] = n8
      /\ sets[9][1] = n9
  BY DEF IsProgram, Listed
<1> HIDE DEF sets
<1>2. \A j \in 1..9 : j \in {1, 2, 3, 4, 5, 6, 7, 8, 9}
  OBVIOUS
<1>3. \A j \in 1..9 : sets[j][1] \in DOMAIN reg.fields
  BY <1>1, <1>2
<1>4. Chain(Cmd(reg, sets))
  <2>1. \A j \in 1..Len(sets) : sets[j][1] \in DOMAIN reg.fields
    BY <1>1, <1>3
  <2> QED  BY <1>1, <2>1, ChainOf
<1> QED  BY <1>4 DEF sets
-----------------------------------------------------------------------------
(* The commands of CubeOut are well made.                                  *)
LEMMA CubeOutChains ==
  ASSUME NEW s, NEW output
  PROVE  Chains(CubeOut(s, output))
<1> DEFINE q == CubeOut(s, output)
<1>1. Len(q) = 14 /\ IsProgram(q)
      /\ q[1] = Cmd(DpuSPointer, EwPointers)
      /\ q[2] = Cmd(DpuRdmaSPointer, EwPointers)
      /\ q[3] = Cmd(DpuFeatureModeCfg, <<<<"flying_mode", 1>>, <<"output_mode", 2>>, <<"burst_len",
             15>>>>)
      /\ q[4] = Cmd(DpuDstBaseAddr, <<<<"dst_base_addr", output>>>>)
      /\ q[5] = Cmd(DpuDstSurfStride, <<<<"dst_surf_stride", s.width * s.height>>>>)
      /\ q[6] = Cmd(DpuDataCubeWidth, <<<<"width", s.width - 1>>>>)
      /\ q[7] = Cmd(DpuDataCubeHeight, <<<<"height", s.height - 1>>>>)
      /\ q[8] = zero(DpuDataCubeNotchAddr)
      /\ q[9] = Cmd(DpuDataCubeChannel, <<<<"orig_channel", s.channels - 1>>, <<"channel",
             task_channels(s.channels) - 1>>>>)
      /\ q[10] = Cmd(DpuBsOwCfg, <<<<"od_bypass", 1>>>>)
      /\ q[11] = Cmd(DpuWdmaSize0, <<<<"channel_wdma", task_channels(s.channels) - 1>>>>)
      /\ q[12] = Cmd(DpuWdmaSize1, <<<<"height_wdma", s.height - 1>>, <<"width_wdma", s.width -
             1>>>>)
      /\ q[13] = Cmd(DpuEwCvtScaleValue, <<<<"ew_op_cvt_scale", 1>>>>)
      /\ q[14] = Cmd(DpuSurfaceAdd, <<<<"surf_add", s.width * s.height>>>>)
  BY Tuple14 DEF CubeOut
<1> HIDE DEF q
<1>2. Chain(q[1])
  <2>1. Chain(Cmd(DpuSPointer, EwPointers))
    BY Chain3, DpuSPointerLaid DEF EwPointers
  <2> QED  BY <1>1, <2>1
<1>3. Chain(q[2])
  <2>1. Chain(Cmd(DpuRdmaSPointer, EwPointers))
    BY Chain3, DpuRdmaSPointerLaid DEF EwPointers
  <2> QED  BY <1>1, <2>1
<1>4. Chain(q[3])
  <2>1. Chain(Cmd(DpuFeatureModeCfg, <<<<"flying_mode", 1>>, <<"output_mode", 2>>,
          <<"burst_len", 15>>>>))
    BY Chain3, DpuFeatureModeCfgLaid
  <2> QED  BY <1>1, <2>1
<1>5. Chain(q[4])
  <2>1. Chain(Cmd(DpuDstBaseAddr, <<<<"dst_base_addr", output>>>>))
    BY Chain1, DpuDstBaseAddrLaid
  <2> QED  BY <1>1, <2>1
<1>6. Chain(q[5])
  <2>1. Chain(Cmd(DpuDstSurfStride, <<<<"dst_surf_stride", s.width * s.height>>>>))
    BY Chain1, DpuDstSurfStrideLaid
  <2> QED  BY <1>1, <2>1
<1>7. Chain(q[6])
  <2>1. Chain(Cmd(DpuDataCubeWidth, <<<<"width", s.width - 1>>>>))
    BY Chain1, DpuDataCubeWidthLaid
  <2> QED  BY <1>1, <2>1
<1>8. Chain(q[7])
  <2>1. Chain(Cmd(DpuDataCubeHeight, <<<<"height", s.height - 1>>>>))
    BY Chain1, DpuDataCubeHeightLaid
  <2> QED  BY <1>1, <2>1
<1>9. Chain(q[8])
  <2>1. Chain(zero(DpuDataCubeNotchAddr))
    BY Chain0, DpuDataCubeNotchAddrLaid
  <2> QED  BY <1>1, <2>1
<1>10. Chain(q[9])
  <2>1. Chain(Cmd(DpuDataCubeChannel, <<<<"orig_channel", s.channels - 1>>, <<"channel",
          task_channels(s.channels) - 1>>>>))
    BY Chain2, DpuDataCubeChannelLaid
  <2> QED  BY <1>1, <2>1
<1>11. Chain(q[10])
  <2>1. Chain(Cmd(DpuBsOwCfg, <<<<"od_bypass", 1>>>>))
    BY Chain1, DpuBsOwCfgLaid
  <2> QED  BY <1>1, <2>1
<1>12. Chain(q[11])
  <2>1. Chain(Cmd(DpuWdmaSize0, <<<<"channel_wdma", task_channels(s.channels) - 1>>>>))
    BY Chain1, DpuWdmaSize0Laid
  <2> QED  BY <1>1, <2>1
<1>13. Chain(q[12])
  <2>1. Chain(Cmd(DpuWdmaSize1, <<<<"height_wdma", s.height - 1>>, <<"width_wdma", s.width -
          1>>>>))
    BY Chain2, DpuWdmaSize1Laid
  <2> QED  BY <1>1, <2>1
<1>14. Chain(q[13])
  <2>1. Chain(Cmd(DpuEwCvtScaleValue, <<<<"ew_op_cvt_scale", 1>>>>))
    BY Chain1, DpuEwCvtScaleValueLaid
  <2> QED  BY <1>1, <2>1
<1>15. Chain(q[14])
  <2>1. Chain(Cmd(DpuSurfaceAdd, <<<<"surf_add", s.width * s.height>>>>))
    BY Chain1, DpuSurfaceAddLaid
  <2> QED  BY <1>1, <2>1
<1>16. \A i \in 1..14 : i \in {1, 2, 3, 4, 5, 6, 7, 8, 9, 10, 11, 12, 13, 14}
  OBVIOUS
<1>17. Chains(q)
  BY <1>1, <1>2, <1>3, <1>4, <1>5, <1>6, <1>7, <1>8, <1>9, <1>10, <1>11, <1>12, <1>13, <1>14, <1>15, <1>16 DEF Chains
<1> QED  BY <1>17 DEF q

(* The commands of CubeIn are well made.                                   *)
LEMMA CubeInChains ==
  ASSUME NEW s, NEW input
  PROVE  Chains(CubeIn(s, input))
<1> DEFINE q == CubeIn(s, input)
<1>1. Len(q) = 5 /\ IsProgram(q)
      /\ q[1] = Cmd(DpuRdmaDataCubeWidth, <<<<"width", s.width - 1>>>>)
      /\ q[2] = Cmd(DpuRdmaDataCubeHeight, <<<<"height", s.height - 1>>>>)
      /\ q[3] = Cmd(DpuRdmaDataCubeChannel, <<<<"channel", task_channels(s.channels) - 1>>>>)
      /\ q[4] = Cmd(DpuRdmaSrcBaseAddr, <<<<"src_base_addr", input>>>>)
      /\ q[5] = Cmd(DpuRdmaWeight, <<<<"e_weight", 1>>, <<"n_weight", 1>>, <<"b_weight", 1>>,
             <<"m_weight", 1>>>>)
  BY Tuple5 DEF CubeIn
<1> HIDE DEF q
<1>2. Chain(q[1])
  <2>1. Chain(Cmd(DpuRdmaDataCubeWidth, <<<<"width", s.width - 1>>>>))
    BY Chain1, DpuRdmaDataCubeWidthLaid
  <2> QED  BY <1>1, <2>1
<1>3. Chain(q[2])
  <2>1. Chain(Cmd(DpuRdmaDataCubeHeight, <<<<"height", s.height - 1>>>>))
    BY Chain1, DpuRdmaDataCubeHeightLaid
  <2> QED  BY <1>1, <2>1
<1>4. Chain(q[3])
  <2>1. Chain(Cmd(DpuRdmaDataCubeChannel, <<<<"channel", task_channels(s.channels) - 1>>>>))
    BY Chain1, DpuRdmaDataCubeChannelLaid
  <2> QED  BY <1>1, <2>1
<1>5. Chain(q[4])
  <2>1. Chain(Cmd(DpuRdmaSrcBaseAddr, <<<<"src_base_addr", input>>>>))
    BY Chain1, DpuRdmaSrcBaseAddrLaid
  <2> QED  BY <1>1, <2>1
<1>6. Chain(q[5])
  <2>1. Chain(Cmd(DpuRdmaWeight, <<<<"e_weight", 1>>, <<"n_weight", 1>>, <<"b_weight", 1>>,
          <<"m_weight", 1>>>>))
    BY Chain4, DpuRdmaWeightLaid
  <2> QED  BY <1>1, <2>1
<1>7. \A i \in 1..5 : i \in {1, 2, 3, 4, 5}
  OBVIOUS
<1>8. Chains(q)
  BY <1>1, <1>2, <1>3, <1>4, <1>5, <1>6, <1>7 DEF Chains
<1> QED  BY <1>8 DEF q

(* The commands of Fp16Path are well made.                                 *)
LEMMA Fp16PathChains ==
  Chains(Fp16Path)
<1> DEFINE q == Fp16Path
<1>1. Len(q) = 5 /\ IsProgram(q)
      /\ q[1] = Cmd(DpuDataFormat, <<<<"in_precision", 2>>, <<"out_precision", 2>>,
             <<"proc_precision", 2>>>>)
      /\ q[2] = Cmd(DpuBsCfg, Bypassed("bs"))
      /\ q[3] = Cmd(DpuBnCfg, Bypassed("bn"))
      /\ q[4] = Cmd(DpuOutCvtScale, <<<<"fp32tofp16_en", 1>>, <<"out_cvt_scale", 1>>>>)
      /\ q[5] = Cmd(DpuRdmaFeatureModeCfg, <<<<"flying_mode", 1>>, <<"burst_len", 15>>,
             <<"in_precision", 2>>, <<"proc_precision", 2>>, <<"mrdma_fp16tofp32_en", 1>>>>)
  BY Tuple5 DEF Fp16Path
<1> HIDE DEF q
<1>2. Chain(q[1])
  <2>1. Chain(Cmd(DpuDataFormat, <<<<"in_precision", 2>>, <<"out_precision", 2>>,
          <<"proc_precision", 2>>>>))
    BY Chain3, DpuDataFormatLaid
  <2> QED  BY <1>1, <2>1
<1>3. Chain(q[2])
  <2>1. Chain(Cmd(DpuBsCfg, Bypassed("bs")))
    BY Chain4, DpuBsCfgLaid DEF Bypassed
  <2> QED  BY <1>1, <2>1
<1>4. Chain(q[3])
  <2>1. Chain(Cmd(DpuBnCfg, Bypassed("bn")))
    BY Chain4, DpuBnCfgLaid DEF Bypassed
  <2> QED  BY <1>1, <2>1
<1>5. Chain(q[4])
  <2>1. Chain(Cmd(DpuOutCvtScale, <<<<"fp32tofp16_en", 1>>, <<"out_cvt_scale", 1>>>>))
    BY Chain2, DpuOutCvtScaleLaid
  <2> QED  BY <1>1, <2>1
<1>6. Chain(q[5])
  <2>1. Chain(Cmd(DpuRdmaFeatureModeCfg, <<<<"flying_mode", 1>>, <<"burst_len", 15>>,
          <<"in_precision", 2>>, <<"proc_precision", 2>>, <<"mrdma_fp16tofp32_en", 1>>>>))
    BY Chain5, DpuRdmaFeatureModeCfgLaid
  <2> QED  BY <1>1, <2>1
<1>7. \A i \in 1..5 : i \in {1, 2, 3, 4, 5}
  OBVIOUS
<1>8. Chains(q)
  BY <1>1, <1>2, <1>3, <1>4, <1>5, <1>6, <1>7 DEF Chains
<1> QED  BY <1>8 DEF q

(* The commands of BinaryStage are well made.                              *)
LEMMA BinaryStageChains ==
  ASSUME NEW op, NEW relu
  PROVE  Chains(BinaryStage(op, relu))
<1> DEFINE q == BinaryStage(op, relu)
<1>1. Len(q) = 1 /\ IsProgram(q)
      /\ q[1] = Cmd(DpuEwCfg, <<<<"ew_cvt_type", 0>>, <<"ew_data_mode", 1>>, <<"edata_size", 2>>,
             <<"ew_alu_algo", alu_algo(op)>>, <<"ew_relu_bypass", Flag(~relu)>>,
             <<"ew_lut_bypass", 1>>, <<"ew_op_src", 1>>, <<"ew_op_type", Flag(op = "mul")>>,
             <<"ew_op_cvt_bypass", Flag(op = "mul")>>>>)
  BY Tuple1 DEF BinaryStage
<1> HIDE DEF q
<1>2. Chain(q[1])
  <2>1. \A v1, v2, v3, v4, v5, v6, v7, v8, v9 : Chain(Cmd(DpuEwCfg, <<<<"ew_cvt_type", v1>>,
          <<"ew_data_mode", v2>>, <<"edata_size", v3>>, <<"ew_alu_algo", v4>>,
          <<"ew_relu_bypass", v5>>, <<"ew_lut_bypass", v6>>, <<"ew_op_src", v7>>,
          <<"ew_op_type", v8>>, <<"ew_op_cvt_bypass", v9>>>>))
    BY Chain9, DpuEwCfgLaid
  <2>2. Chain(Cmd(DpuEwCfg, <<<<"ew_cvt_type", 0>>, <<"ew_data_mode", 1>>, <<"edata_size",
          2>>, <<"ew_alu_algo", alu_algo(op)>>, <<"ew_relu_bypass", Flag(~relu)>>,
          <<"ew_lut_bypass", 1>>, <<"ew_op_src", 1>>, <<"ew_op_type", Flag(op = "mul")>>,
          <<"ew_op_cvt_bypass", Flag(op = "mul")>>>>))
    BY <2>1
  <2> QED  BY <1>1, <2>2
<1>3. \A i \in 1..1 : i \in {1}
  OBVIOUS
<1>4. Chains(q)
  BY <1>1, <1>2, <1>3 DEF Chains
<1> QED  BY <1>4 DEF q

(* The commands of OperandIn are well made.                                *)
LEMMA OperandInChains ==
  ASSUME NEW s, NEW operand
  PROVE  Chains(OperandIn(s, operand))
<1> DEFINE q == OperandIn(s, operand)
<1>1. Len(q) = 3 /\ IsProgram(q)
      /\ q[1] = Cmd(DpuRdmaErdmaCfg, <<<<"erdma_data_mode", 1>>, <<"erdma_data_size", 2>>>>)
      /\ q[2] = Cmd(DpuRdmaEwBaseAddr, <<<<"ew_base_addr", operand>>>>)
      /\ q[3] = Cmd(DpuRdmaEwSurfStride, <<<<"ew_surf_stride", Max2(s.width * s.height, 12)>>>>)
  BY Tuple3 DEF OperandIn
<1> HIDE DEF q
<1>2. Chain(q[1])
  <2>1. Chain(Cmd(DpuRdmaErdmaCfg, <<<<"erdma_data_mode", 1>>, <<"erdma_data_size", 2>>>>))
    BY Chain2, DpuRdmaErdmaCfgLaid
  <2> QED  BY <1>1, <2>1
<1>3. Chain(q[2])
  <2>1. Chain(Cmd(DpuRdmaEwBaseAddr, <<<<"ew_base_addr", operand>>>>))
    BY Chain1, DpuRdmaEwBaseAddrLaid
  <2> QED  BY <1>1, <2>1
<1>4. Chain(q[3])
  <2>1. Chain(Cmd(DpuRdmaEwSurfStride, <<<<"ew_surf_stride", Max2(s.width * s.height,
          12)>>>>))
    BY Chain1, DpuRdmaEwSurfStrideLaid
  <2> QED  BY <1>1, <2>1
<1>5. \A i \in 1..3 : i \in {1, 2, 3}
  OBVIOUS
<1>6. Chains(q)
  BY <1>1, <1>2, <1>3, <1>4, <1>5 DEF Chains
<1> QED  BY <1>6 DEF q

(* The commands of UnaryStage are well made.                               *)
LEMMA UnaryStageChains ==
  ASSUME NEW op
  PROVE  Chains(UnaryStage(op))
<1> DEFINE q == UnaryStage(op)
<1>1. Len(q) = 1 /\ IsProgram(q)
      /\ q[1] = Cmd(DpuEwCfg, <<<<"ew_cvt_type", 0>>, <<"ew_data_mode", 1>>, <<"edata_size", 2>>,
             <<"ew_alu_algo", EwUnaryAlgo(op)>>, <<"ew_relu_bypass", 1>>, <<"ew_lut_bypass", 1>>,
             <<"ew_op_src", 0>>>>)
  BY Tuple1 DEF UnaryStage
<1> HIDE DEF q
<1>2. Chain(q[1])
  <2>1. Chain(Cmd(DpuEwCfg, <<<<"ew_cvt_type", 0>>, <<"ew_data_mode", 1>>, <<"edata_size",
          2>>, <<"ew_alu_algo", EwUnaryAlgo(op)>>, <<"ew_relu_bypass", 1>>, <<"ew_lut_bypass",
          1>>, <<"ew_op_src", 0>>>>))
    BY Chain7, DpuEwCfgLaid
  <2> QED  BY <1>1, <2>1
<1>3. \A i \in 1..1 : i \in {1}
  OBVIOUS
<1>4. Chains(q)
  BY <1>1, <1>2, <1>3 DEF Chains
<1> QED  BY <1>4 DEF q

(* The commands of LutCommands are well made.                              *)
LEMMA LutCommandsChains ==
  ASSUME NEW function
  PROVE  Chains(LutCommands(function))
<1> DEFINE q == LutCommands(function)
           slope == IF function = "sigmoid" THEN <<23107, 22>> ELSE <<0, 0>>
<1>1. Len(q) = 8 /\ IsProgram(q)
      /\ q[1] = Cmd(DpuLutAccessCfg, <<<<"lut_access_type", 1>>, <<"lut_table_id", 0>>,
             <<"lut_addr", 0>>>>)
      /\ q[2] = Cmd(DpuLutAccessCfg, <<<<"lut_access_type", 1>>, <<"lut_table_id", 1>>,
             <<"lut_addr", 0>>>>)
      /\ q[3] = Cmd(DpuLutCfg, <<<<"lut_hybrid_priority", 1>>, <<"lut_oflow_priority", 1>>,
             <<"lut_lo_le_mux", 2>>>>)
      /\ q[4] = Cmd(DpuLutInfo, <<<<"lut_le_index_select", 5>>, <<"lut_lo_index_select", 5>>>>)
      /\ q[5] = Cmd(DpuLutLeStart, <<<<"lut_le_start", -16384>>>>)
      /\ q[6] = Cmd(DpuLutLoEnd, <<<<"lut_lo_end", 16384>>>>)
      /\ q[7] = Cmd(DpuLutLeSlopeScale, <<<<"lut_le_slope_uflow_scale", slope[1]>>>>)
      /\ q[8] = Cmd(DpuLutLeSlopeShift, <<<<"lut_le_slope_uflow_shift", slope[2]>>>>)
  BY Tuple8 DEF LutCommands
<1> HIDE DEF q, slope
<1>2. Chain(q[1])
  <2>1. Chain(Cmd(DpuLutAccessCfg, <<<<"lut_access_type", 1>>, <<"lut_table_id", 0>>,
          <<"lut_addr", 0>>>>))
    BY Chain3, DpuLutAccessCfgLaid
  <2> QED  BY <1>1, <2>1
<1>3. Chain(q[2])
  <2>1. Chain(Cmd(DpuLutAccessCfg, <<<<"lut_access_type", 1>>, <<"lut_table_id", 1>>,
          <<"lut_addr", 0>>>>))
    BY Chain3, DpuLutAccessCfgLaid
  <2> QED  BY <1>1, <2>1
<1>4. Chain(q[3])
  <2>1. Chain(Cmd(DpuLutCfg, <<<<"lut_hybrid_priority", 1>>, <<"lut_oflow_priority", 1>>,
          <<"lut_lo_le_mux", 2>>>>))
    BY Chain3, DpuLutCfgLaid
  <2> QED  BY <1>1, <2>1
<1>5. Chain(q[4])
  <2>1. Chain(Cmd(DpuLutInfo, <<<<"lut_le_index_select", 5>>, <<"lut_lo_index_select", 5>>>>))
    BY Chain2, DpuLutInfoLaid
  <2> QED  BY <1>1, <2>1
<1>6. Chain(q[5])
  <2>1. Chain(Cmd(DpuLutLeStart, <<<<"lut_le_start", -16384>>>>))
    BY Chain1, DpuLutLeStartLaid
  <2> QED  BY <1>1, <2>1
<1>7. Chain(q[6])
  <2>1. Chain(Cmd(DpuLutLoEnd, <<<<"lut_lo_end", 16384>>>>))
    BY Chain1, DpuLutLoEndLaid
  <2> QED  BY <1>1, <2>1
<1>8. Chain(q[7])
  <2>1. Chain(Cmd(DpuLutLeSlopeScale, <<<<"lut_le_slope_uflow_scale", slope[1]>>>>))
    BY Chain1, DpuLutLeSlopeScaleLaid
  <2> QED  BY <1>1, <2>1
<1>9. Chain(q[8])
  <2>1. Chain(Cmd(DpuLutLeSlopeShift, <<<<"lut_le_slope_uflow_shift", slope[2]>>>>))
    BY Chain1, DpuLutLeSlopeShiftLaid
  <2> QED  BY <1>1, <2>1
<1>10. \A i \in 1..8 : i \in {1, 2, 3, 4, 5, 6, 7, 8}
  OBVIOUS
<1>11. Chains(q)
  BY <1>1, <1>2, <1>3, <1>4, <1>5, <1>6, <1>7, <1>8, <1>9, <1>10 DEF Chains
<1> QED  BY <1>11 DEF q

(* The commands of LutStages are well made.                                *)
LEMMA LutStagesChains ==
  ASSUME NEW s, NEW function
  PROVE  Chains(LutStages(s, function))
<1> DEFINE q == LutStages(s, function)
           mul == lut_bn_mul(s.input_scale, bn_scale_k(function))
           alu == lut_bn_alu(Unbiased(s.input_zero_point), mul[1])
           out == lut_out_cvt(s.output_scale)
<1>1. Len(q) = 9 /\ IsProgram(q)
      /\ q[1] = Cmd(DpuDataFormat, <<<<"bn_mul_shift_value_neg", mul[2]>>>>)
      /\ q[2] = Cmd(DpuBsCfg, Bypassed("bs"))
      /\ q[3] = Cmd(DpuBnCfg, <<<<"bn_alu_algo", 2>>, <<"bn_alu_src", 0>>, <<"bn_relu_bypass", 1>>,
             <<"bn_mul_bypass", 0>>, <<"bn_alu_bypass", 0>>, <<"bn_bypass", 0>>>>)
      /\ q[4] = Cmd(DpuBnAluCfg, <<<<"bn_alu_operand", alu>>>>)
      /\ q[5] = Cmd(DpuBnMulCfg, <<<<"bn_mul_operand", mul[1]>>, <<"bn_mul_shift_value", mul[2]>>,
             <<"bn_mul_src", 0>>, <<"bn_truncate_src", 0>>>>)
      /\ q[6] = Cmd(DpuEwCfg, <<<<"ew_relu_bypass", 1>>, <<"ew_op_cvt_bypass", 1>>,
             <<"ew_lut_bypass", 0>>, <<"ew_op_bypass", Flag(function # "sigmoid")>>,
             <<"ew_bypass", 0>>>>)
      /\ q[7] = Cmd(DpuOutCvtOffset, <<<<"out_cvt_offset", s.output_zero_point - 128>>>>)
      /\ q[8] = Cmd(DpuOutCvtScale, <<<<"out_cvt_scale", out[1]>>>>)
      /\ q[9] = Cmd(DpuOutCvtShift, <<<<"out_cvt_shift", out[2]>>>>)
  BY Tuple9 DEF LutStages
<1> HIDE DEF q, mul, alu, out
<1>2. Chain(q[1])
  <2>1. Chain(Cmd(DpuDataFormat, <<<<"bn_mul_shift_value_neg", mul[2]>>>>))
    BY Chain1, DpuDataFormatLaid
  <2> QED  BY <1>1, <2>1
<1>3. Chain(q[2])
  <2>1. Chain(Cmd(DpuBsCfg, Bypassed("bs")))
    BY Chain4, DpuBsCfgLaid DEF Bypassed
  <2> QED  BY <1>1, <2>1
<1>4. Chain(q[3])
  <2>1. Chain(Cmd(DpuBnCfg, <<<<"bn_alu_algo", 2>>, <<"bn_alu_src", 0>>, <<"bn_relu_bypass",
          1>>, <<"bn_mul_bypass", 0>>, <<"bn_alu_bypass", 0>>, <<"bn_bypass", 0>>>>))
    BY Chain6, DpuBnCfgLaid
  <2> QED  BY <1>1, <2>1
<1>5. Chain(q[4])
  <2>1. Chain(Cmd(DpuBnAluCfg, <<<<"bn_alu_operand", alu>>>>))
    BY Chain1, DpuBnAluCfgLaid
  <2> QED  BY <1>1, <2>1
<1>6. Chain(q[5])
  <2>1. Chain(Cmd(DpuBnMulCfg, <<<<"bn_mul_operand", mul[1]>>, <<"bn_mul_shift_value",
          mul[2]>>, <<"bn_mul_src", 0>>, <<"bn_truncate_src", 0>>>>))
    BY Chain4, DpuBnMulCfgLaid
  <2> QED  BY <1>1, <2>1
<1>7. Chain(q[6])
  <2>1. \A v1, v2, v3, v4, v5 : Chain(Cmd(DpuEwCfg, <<<<"ew_relu_bypass", v1>>,
          <<"ew_op_cvt_bypass", v2>>, <<"ew_lut_bypass", v3>>, <<"ew_op_bypass", v4>>,
          <<"ew_bypass", v5>>>>))
    BY Chain5, DpuEwCfgLaid
  <2>2. Chain(Cmd(DpuEwCfg, <<<<"ew_relu_bypass", 1>>, <<"ew_op_cvt_bypass", 1>>,
          <<"ew_lut_bypass", 0>>, <<"ew_op_bypass", Flag(function # "sigmoid")>>, <<"ew_bypass",
          0>>>>))
    BY <2>1
  <2> QED  BY <1>1, <2>2
<1>8. Chain(q[7])
  <2>1. Chain(Cmd(DpuOutCvtOffset, <<<<"out_cvt_offset", s.output_zero_point - 128>>>>))
    BY Chain1, DpuOutCvtOffsetLaid
  <2> QED  BY <1>1, <2>1
<1>9. Chain(q[8])
  <2>1. Chain(Cmd(DpuOutCvtScale, <<<<"out_cvt_scale", out[1]>>>>))
    BY Chain1, DpuOutCvtScaleLaid
  <2> QED  BY <1>1, <2>1
<1>10. Chain(q[9])
  <2>1. Chain(Cmd(DpuOutCvtShift, <<<<"out_cvt_shift", out[2]>>>>))
    BY Chain1, DpuOutCvtShiftLaid
  <2> QED  BY <1>1, <2>1
<1>11. \A i \in 1..9 : i \in {1, 2, 3, 4, 5, 6, 7, 8, 9}
  OBVIOUS
<1>12. Chains(q)
  BY <1>1, <1>2, <1>3, <1>4, <1>5, <1>6, <1>7, <1>8, <1>9, <1>10, <1>11 DEF Chains
<1> QED  BY <1>12 DEF q

(* The commands of PpuCommands are well made.                              *)
LEMMA PpuCommandsChains ==
  ASSUME NEW s, NEW t, NEW output_addr
  PROVE  Chains(PpuCommands(s, t, output_addr))
<1> DEFINE q == PpuCommands(s, t, output_addr)
           stride == surf_stride(s.output_width, s.output_height)
           pad_bottom == required_trailing_padding(s.input_height, s.output_height,
                                                   s.kernel_height, s.stride_y, s.pad_top)
<1>1. Len(q) = 16 /\ IsProgram(q)
      /\ q[1] = Cmd(PpuDataCubeInWidth, <<<<"cube_in_width", t.input_width - 1>>>>)
      /\ q[2] = Cmd(PpuDataCubeInHeight, <<<<"cube_in_height", s.input_height - 1>>>>)
      /\ q[3] = Cmd(PpuDataCubeInChannel, <<<<"cube_in_channel", programmed_channels(s) - 1>>>>)
      /\ q[4] = Cmd(PpuDataCubeOutWidth, <<<<"cube_out_width", t.output_width - 1>>>>)
      /\ q[5] = Cmd(PpuDataCubeOutHeight, <<<<"cube_out_height", s.output_height - 1>>>>)
      /\ q[6] = Cmd(PpuDataCubeOutChannel, <<<<"cube_out_channel", programmed_channels(s) - 1>>>>)
      /\ q[7] = Cmd(PpuOperationModeCfg, <<<<"pooling_method", method_bits(s.method)>>,
             <<"flying_mode", 1>>, <<"index_en", 0>>, <<"use_cnt", 0>>, <<"notch_addr",
             s.output_width - t.output_width>>>>)
      /\ q[8] = Cmd(PpuPoolingKernelCfg, <<<<"kernel_width", s.kernel_width - 1>>,
             <<"kernel_height", s.kernel_height - 1>>, <<"kernel_stride_width", s.stride_x - 1>>,
             <<"kernel_stride_height", s.stride_y - 1>>>>)
      /\ q[9] = Cmd(PpuRecipKernelWidth, <<<<"recip_kernel_width", RecipOf(s, s.kernel_width)>>>>)
      /\ q[10] = Cmd(PpuRecipKernelHeight, <<<<"recip_kernel_height", RecipOf(s,
             s.kernel_height)>>>>)
      /\ q[11] = Cmd(PpuPoolingPaddingCfg, <<<<"pad_left", t.pad_left>>, <<"pad_top", s.pad_top>>,
             <<"pad_right", t.pad_right>>, <<"pad_bottom", pad_bottom>>>>)
      /\ q[12] = Cmd(PpuPaddingValue1Cfg, <<<<"pad_value_0", s.pad_value>>>>)
      /\ q[13] = Cmd(PpuDstBaseAddr, <<<<"dst_base_addr", output_addr \div 16>>>>)
      /\ q[14] = Cmd(PpuDstSurfStride, <<<<"dst_surf_stride", stride>>>>)
      /\ q[15] = Cmd(PpuDataFormat, <<<<"proc_precision", ppu_precision(s.precision)>>,
             <<"dpu_flyin", 0>>, <<"index_add", stride>>>>)
      /\ q[16] = Cmd(PpuMiscCtrl, <<<<"burst_len", 3>>, <<"nonalign", 0>>, <<"mc_surf_out", 0>>,
             <<"surf_len", 0>>>>)
  BY Tuple16 DEF PpuCommands
<1> HIDE DEF q, stride, pad_bottom
<1>2. Chain(q[1])
  <2>1. Chain(Cmd(PpuDataCubeInWidth, <<<<"cube_in_width", t.input_width - 1>>>>))
    BY Chain1, PpuDataCubeInWidthLaid
  <2> QED  BY <1>1, <2>1
<1>3. Chain(q[2])
  <2>1. Chain(Cmd(PpuDataCubeInHeight, <<<<"cube_in_height", s.input_height - 1>>>>))
    BY Chain1, PpuDataCubeInHeightLaid
  <2> QED  BY <1>1, <2>1
<1>4. Chain(q[3])
  <2>1. Chain(Cmd(PpuDataCubeInChannel, <<<<"cube_in_channel", programmed_channels(s) -
          1>>>>))
    BY Chain1, PpuDataCubeInChannelLaid
  <2> QED  BY <1>1, <2>1
<1>5. Chain(q[4])
  <2>1. Chain(Cmd(PpuDataCubeOutWidth, <<<<"cube_out_width", t.output_width - 1>>>>))
    BY Chain1, PpuDataCubeOutWidthLaid
  <2> QED  BY <1>1, <2>1
<1>6. Chain(q[5])
  <2>1. Chain(Cmd(PpuDataCubeOutHeight, <<<<"cube_out_height", s.output_height - 1>>>>))
    BY Chain1, PpuDataCubeOutHeightLaid
  <2> QED  BY <1>1, <2>1
<1>7. Chain(q[6])
  <2>1. Chain(Cmd(PpuDataCubeOutChannel, <<<<"cube_out_channel", programmed_channels(s) -
          1>>>>))
    BY Chain1, PpuDataCubeOutChannelLaid
  <2> QED  BY <1>1, <2>1
<1>8. Chain(q[7])
  <2>1. \A v1, v2, v3, v4, v5 : Chain(Cmd(PpuOperationModeCfg, <<<<"pooling_method", v1>>,
          <<"flying_mode", v2>>, <<"index_en", v3>>, <<"use_cnt", v4>>, <<"notch_addr", v5>>>>))
    BY Chain5, PpuOperationModeCfgLaid
  <2>2. Chain(Cmd(PpuOperationModeCfg, <<<<"pooling_method", method_bits(s.method)>>,
          <<"flying_mode", 1>>, <<"index_en", 0>>, <<"use_cnt", 0>>, <<"notch_addr",
          s.output_width - t.output_width>>>>))
    BY <2>1
  <2> QED  BY <1>1, <2>2
<1>9. Chain(q[8])
  <2>1. Chain(Cmd(PpuPoolingKernelCfg, <<<<"kernel_width", s.kernel_width - 1>>,
          <<"kernel_height", s.kernel_height - 1>>, <<"kernel_stride_width", s.stride_x - 1>>,
          <<"kernel_stride_height", s.stride_y - 1>>>>))
    BY Chain4, PpuPoolingKernelCfgLaid
  <2> QED  BY <1>1, <2>1
<1>10. Chain(q[9])
  <2>1. Chain(Cmd(PpuRecipKernelWidth, <<<<"recip_kernel_width", RecipOf(s,
          s.kernel_width)>>>>))
    BY Chain1, PpuRecipKernelWidthLaid
  <2> QED  BY <1>1, <2>1
<1>11. Chain(q[10])
  <2>1. Chain(Cmd(PpuRecipKernelHeight, <<<<"recip_kernel_height", RecipOf(s,
          s.kernel_height)>>>>))
    BY Chain1, PpuRecipKernelHeightLaid
  <2> QED  BY <1>1, <2>1
<1>12. Chain(q[11])
  <2>1. Chain(Cmd(PpuPoolingPaddingCfg, <<<<"pad_left", t.pad_left>>, <<"pad_top",
          s.pad_top>>, <<"pad_right", t.pad_right>>, <<"pad_bottom", pad_bottom>>>>))
    BY Chain4, PpuPoolingPaddingCfgLaid
  <2> QED  BY <1>1, <2>1
<1>13. Chain(q[12])
  <2>1. Chain(Cmd(PpuPaddingValue1Cfg, <<<<"pad_value_0", s.pad_value>>>>))
    BY Chain1, PpuPaddingValue1CfgLaid
  <2> QED  BY <1>1, <2>1
<1>14. Chain(q[13])
  <2>1. Chain(Cmd(PpuDstBaseAddr, <<<<"dst_base_addr", output_addr \div 16>>>>))
    BY Chain1, PpuDstBaseAddrLaid
  <2> QED  BY <1>1, <2>1
<1>15. Chain(q[14])
  <2>1. Chain(Cmd(PpuDstSurfStride, <<<<"dst_surf_stride", stride>>>>))
    BY Chain1, PpuDstSurfStrideLaid
  <2> QED  BY <1>1, <2>1
<1>16. Chain(q[15])
  <2>1. Chain(Cmd(PpuDataFormat, <<<<"proc_precision", ppu_precision(s.precision)>>,
          <<"dpu_flyin", 0>>, <<"index_add", stride>>>>))
    BY Chain3, PpuDataFormatLaid
  <2> QED  BY <1>1, <2>1
<1>17. Chain(q[16])
  <2>1. Chain(Cmd(PpuMiscCtrl, <<<<"burst_len", 3>>, <<"nonalign", 0>>, <<"mc_surf_out", 0>>,
          <<"surf_len", 0>>>>))
    BY Chain4, PpuMiscCtrlLaid
  <2> QED  BY <1>1, <2>1
<1>18. \A i \in 1..16 : i \in {1, 2, 3, 4, 5, 6, 7, 8, 9, 10, 11, 12, 13, 14, 15, 16}
  OBVIOUS
<1>19. Chains(q)
  BY <1>1, <1>2, <1>3, <1>4, <1>5, <1>6, <1>7, <1>8, <1>9, <1>10, <1>11, <1>12, <1>13, <1>14, <1>15, <1>16, <1>17, <1>18 DEF Chains
<1> QED  BY <1>19 DEF q

(* The commands of PpuRdmaCommands are well made.                          *)
LEMMA PpuRdmaCommandsChains ==
  ASSUME NEW s, NEW t, NEW input_addr
  PROVE  Chains(PpuRdmaCommands(s, t, input_addr))
<1> DEFINE q == PpuRdmaCommands(s, t, input_addr)
<1>1. Len(q) = 7 /\ IsProgram(q)
      /\ q[1] = Cmd(PpuRdmaCubeInWidth, <<<<"cube_in_width", t.input_width - 1>>>>)
      /\ q[2] = Cmd(PpuRdmaCubeInHeight, <<<<"cube_in_height", s.input_height - 1>>>>)
      /\ q[3] = Cmd(PpuRdmaCubeInChannel, <<<<"cube_in_channel", programmed_channels(s) - 1>>>>)
      /\ q[4] = Cmd(PpuRdmaSrcBaseAddr, <<<<"src_base_addr", input_addr>>>>)
      /\ q[5] = Cmd(PpuRdmaSrcLineStride, <<<<"src_line_stride", s.input_width>>>>)
      /\ q[6] = Cmd(PpuRdmaSrcSurfStride, <<<<"src_surf_stride", surf_stride(s.input_width,
             s.input_height)>>>>)
      /\ q[7] = Cmd(PpuRdmaDataFormat, <<<<"in_precision", rdma_precision(s.precision)>>>>)
  BY Tuple7 DEF PpuRdmaCommands
<1> HIDE DEF q
<1>2. Chain(q[1])
  <2>1. Chain(Cmd(PpuRdmaCubeInWidth, <<<<"cube_in_width", t.input_width - 1>>>>))
    BY Chain1, PpuRdmaCubeInWidthLaid
  <2> QED  BY <1>1, <2>1
<1>3. Chain(q[2])
  <2>1. Chain(Cmd(PpuRdmaCubeInHeight, <<<<"cube_in_height", s.input_height - 1>>>>))
    BY Chain1, PpuRdmaCubeInHeightLaid
  <2> QED  BY <1>1, <2>1
<1>4. Chain(q[3])
  <2>1. Chain(Cmd(PpuRdmaCubeInChannel, <<<<"cube_in_channel", programmed_channels(s) -
          1>>>>))
    BY Chain1, PpuRdmaCubeInChannelLaid
  <2> QED  BY <1>1, <2>1
<1>5. Chain(q[4])
  <2>1. Chain(Cmd(PpuRdmaSrcBaseAddr, <<<<"src_base_addr", input_addr>>>>))
    BY Chain1, PpuRdmaSrcBaseAddrLaid
  <2> QED  BY <1>1, <2>1
<1>6. Chain(q[5])
  <2>1. Chain(Cmd(PpuRdmaSrcLineStride, <<<<"src_line_stride", s.input_width>>>>))
    BY Chain1, PpuRdmaSrcLineStrideLaid
  <2> QED  BY <1>1, <2>1
<1>7. Chain(q[6])
  <2>1. Chain(Cmd(PpuRdmaSrcSurfStride, <<<<"src_surf_stride", surf_stride(s.input_width,
          s.input_height)>>>>))
    BY Chain1, PpuRdmaSrcSurfStrideLaid
  <2> QED  BY <1>1, <2>1
<1>8. Chain(q[7])
  <2>1. Chain(Cmd(PpuRdmaDataFormat, <<<<"in_precision", rdma_precision(s.precision)>>>>))
    BY Chain1, PpuRdmaDataFormatLaid
  <2> QED  BY <1>1, <2>1
<1>9. \A i \in 1..7 : i \in {1, 2, 3, 4, 5, 6, 7}
  OBVIOUS
<1>10. Chains(q)
  BY <1>1, <1>2, <1>3, <1>4, <1>5, <1>6, <1>7, <1>8, <1>9 DEF Chains
<1> QED  BY <1>10 DEF q
-----------------------------------------------------------------------------
(* The chains of the four programs are well made.                          *)
LEMMA PoolChains ==
  ASSUME NEW s, NEW t, NEW buffers
  PROVE  Chains(build_pooling_tile_task(s, t, buffers))
<1> DEFINE h == <<Cmd(PpuSPointer, PpuPointers), Cmd(PpuRdmaSPointer, PpuPointers)>>
           q == PpuCommands(s, t, buffers.output + t.output_first * 16)
           r == PpuRdmaCommands(s, t, buffers.input + t.input_first * 16)
<1>1. build_pooling_tile_task(s, t, buffers) = (h \o q) \o r
  BY DEF build_pooling_tile_task
<1>2. Chains(q) /\ Chains(r)
  BY PpuCommandsChains, PpuRdmaCommandsChains
<1>3. Chains(h)
  <2>1. Len(h) = 2 /\ IsProgram(h) /\ h[1] = Cmd(PpuSPointer, PpuPointers)
        /\ h[2] = Cmd(PpuRdmaSPointer, PpuPointers)
    BY Tuple2
  <2> HIDE DEF h
  <2>2. Chain(h[1])
    <3>1. Chain(Cmd(PpuSPointer, PpuPointers))
      BY Chain5, PpuSPointerLaid DEF PpuPointers
    <3> QED  BY <2>1, <3>1
  <2>3. Chain(h[2])
    <3>1. Chain(Cmd(PpuRdmaSPointer, PpuPointers))
      BY Chain5, PpuRdmaSPointerLaid DEF PpuPointers
    <3> QED  BY <2>1, <3>1
  <2>4. \A i \in 1..2 : i \in {1, 2}
    OBVIOUS
  <2> QED  BY <2>1, <2>2, <2>3, <2>4 DEF Chains
<1> HIDE DEF h, q, r
<1>4. Chains((h \o q) \o r)
  BY <1>2, <1>3, ChainsJoin
<1> QED  BY <1>1, <1>4

(* The commands of a binary program are well made.                         *)
LEMMA BinaryChains ==
  ASSUME NEW s, NEW op, NEW relu, NEW buffers
  PROVE  Chains(build_add_regcmd(s, op, relu, buffers))
<1> DEFINE a == CubeOut(s, buffers.output)
           b == Fp16Path
           c == BinaryStage(op, relu)
           d == CubeIn(s, buffers.input)
           e == OperandIn(s, buffers.operand)
<1>1. build_add_regcmd(s, op, relu, buffers) = (((a \o b) \o c) \o d) \o e
  BY DEF build_add_regcmd
<1>2. Chains(a) /\ Chains(b) /\ Chains(c) /\ Chains(d) /\ Chains(e)
  BY CubeOutChains, Fp16PathChains, BinaryStageChains, CubeInChains, OperandInChains
<1> HIDE DEF a, b, c, d, e
<1>3. Chains((((a \o b) \o c) \o d) \o e)
  BY <1>2, ChainsJoin
<1> QED  BY <1>1, <1>3

(* The last command of the programs that take no second tensor.            *)
LEMMA NoOperandChains == Chains(<<Cmd(DpuRdmaErdmaCfg, <<<<"erdma_disable", 1>>>>)>>)
<1> DEFINE c == Cmd(DpuRdmaErdmaCfg, <<<<"erdma_disable", 1>>>>)
           q == <<c>>
<1>1. Chain(c)
  BY Chain1, DpuRdmaErdmaCfgLaid
<1> HIDE DEF c
<1>2. Len(q) = 1 /\ IsProgram(q) /\ q[1] = c
  BY Tuple1
<1> HIDE DEF q
<1>3. \A i \in 1..1 : i = 1
  OBVIOUS
<1>4. Chains(q)
  BY <1>1, <1>2, <1>3 DEF Chains
<1> QED  BY <1>4 DEF q, c

(* The scalar in the eight operand registers.                              *)
LEMMA LaneCommands ==
  ASSUME NEW operand
  PROVE  LET q == [lane \in 1..8 |-> Cmd(DpuEwOpValue(lane - 1), <<<<"ew_operand", operand>>>>)]
         IN  Chains(q) /\ Len(q) = 8
             /\ \A i \in 1..8 : q[i].reg.offset \in Nat /\ q[i].reg.offset >= \h4090 /\ q[i].reg.offset < \h40c0
<1> DEFINE q == [lane \in 1..8 |-> Cmd(DpuEwOpValue(lane - 1), <<<<"ew_operand", operand>>>>)]
<1>1. DOMAIN q = 1..8 /\ Listed(q) = {q[i] : i \in 1..8}
  BY DEF Listed
<1>2. q \in [1..8 -> Listed(q)]
  BY <1>1
<1>3. q \in Seq(Listed(q)) /\ Len(q) = 8
  <2> DEFINE S == Listed(q)
  <2>1. q \in [1..8 -> S]
    BY <1>2
  <2> HIDE DEF S, q
  <2>2. q \in Seq(S) /\ Len(q) = 8
    <3>1. PICK n \in Nat : n = 8
      OBVIOUS
    <3>2. q \in [1..n -> S]
      BY <2>1, <3>1
    <3>3. q \in Seq(S)
      BY <3>2
    <3>4. Len(q) = n
      <4>1. DOMAIN q = 1..n
        BY <3>2
      <4> QED  BY <3>3, <4>1
    <3> QED  BY <3>1, <3>3, <3>4
  <2> QED  BY <2>2 DEF S
<1>4. ASSUME NEW i \in 1..8
      PROVE  Chain(q[i]) /\ q[i].reg = DpuEwOpValue(i - 1)
  <2>1. q[i] = Cmd(DpuEwOpValue(i - 1), <<<<"ew_operand", operand>>>>)
    OBVIOUS
  <2> HIDE DEF q
  <2>2. Laid(DpuEwOpValue(i - 1)) /\ DOMAIN DpuEwOpValue(i - 1).fields = {"ew_operand"}
    BY DpuEwOpValueLaid
  <2> DEFINE reg == DpuEwOpValue(i - 1)
  <2> HIDE DEF reg
  <2>3. Chain(Cmd(reg, <<<<"ew_operand", operand>>>>))
    BY <2>2, Chain1 DEF reg
  <2>4. Cmd(reg, <<<<"ew_operand", operand>>>>).reg = reg
    BY CmdIs
  <2> QED  BY <2>1, <2>3, <2>4 DEF reg
<1>5. \A i \in 1..8 : DpuEwOpValue(i - 1).offset = \h4090 + 4 * (i - 1)
  BY DEF DpuEwOpValue, Reg
<1> HIDE DEF q
<1>6. Chains(q)
  BY <1>3, <1>4 DEF Chains, IsProgram
<1>7. \A i \in 1..8 : q[i].reg.offset \in Nat /\ q[i].reg.offset >= \h4090 /\ q[i].reg.offset < \h40c0
  <2>1. SUFFICES ASSUME NEW i \in 1..8
                 PROVE  q[i].reg.offset \in Nat /\ q[i].reg.offset >= \h4090 /\ q[i].reg.offset < \h40c0
    OBVIOUS
  <2>2. q[i].reg.offset = \h4090 + 4 * (i - 1)
    BY <1>4, <1>5
  <2> QED  BY <2>2
<1> QED  BY <1>3, <1>6, <1>7 DEF q

(* So are those of a unary program.                                        *)
LEMMA UnaryChains ==
  ASSUME NEW s, NEW op, NEW operand, NEW buffers
  PROVE  Chains(build_unary_regcmd(s, op, operand, buffers))
<1> DEFINE a == CubeOut(s, buffers.output)
           b == Fp16Path
           c == UnaryStage(op)
           l == [lane \in 1..8 |-> Cmd(DpuEwOpValue(lane - 1), <<<<"ew_operand", operand>>>>)]
           d == CubeIn(s, buffers.input)
           e == <<Cmd(DpuRdmaErdmaCfg, <<<<"erdma_disable", 1>>>>)>>
<1>1. build_unary_regcmd(s, op, operand, buffers) = ((((a \o b) \o c) \o l) \o d) \o e
  BY DEF build_unary_regcmd
<1>2. Chains(a) /\ Chains(b) /\ Chains(c) /\ Chains(d) /\ Chains(e)
  BY CubeOutChains, Fp16PathChains, UnaryStageChains, CubeInChains, NoOperandChains
<1>3. Chains(l)
  BY LaneCommands
<1> HIDE DEF a, b, c, d, e, l
<1>4. Chains(((((a \o b) \o c) \o l) \o d) \o e)
  BY <1>2, <1>3, ChainsJoin
<1> QED  BY <1>1, <1>4

(* The last commands of a curve's program.                                 *)
LEMMA LutTailChains ==
  Chains(<<Cmd(DpuRdmaErdmaCfg, <<<<"erdma_disable", 1>>>>),
           Cmd(DpuRdmaFeatureModeCfg, <<<<"flying_mode", 1>>, <<"burst_len", 15>>>>)>>)
<1> DEFINE c == Cmd(DpuRdmaErdmaCfg, <<<<"erdma_disable", 1>>>>)
           d == Cmd(DpuRdmaFeatureModeCfg, <<<<"flying_mode", 1>>, <<"burst_len", 15>>>>)
           q == <<c, d>>
<1>1. Chain(c)
  BY Chain1, DpuRdmaErdmaCfgLaid
<1>2. Chain(d)
  BY Chain2, DpuRdmaFeatureModeCfgLaid
<1> HIDE DEF c, d
<1>3. Len(q) = 2 /\ IsProgram(q) /\ q[1] = c /\ q[2] = d
  BY Tuple2
<1> HIDE DEF q
<1>4. \A i \in 1..2 : i \in {1, 2}
  OBVIOUS
<1>5. Chains(q)
  BY <1>1, <1>2, <1>3, <1>4 DEF Chains
<1> QED  BY <1>5 DEF q, c, d

(* So are those of a curve.                                                *)
LEMMA LutChains ==
  ASSUME NEW s, NEW function, NEW buffers
  PROVE  Chains(build_lut_regcmd(s, function, buffers))
<1> DEFINE a == CubeOut(s, buffers.output)
           b == LutStages(s, function)
           c == LutCommands(function)
           d == CubeIn(s, buffers.input)
           e == <<Cmd(DpuRdmaErdmaCfg, <<<<"erdma_disable", 1>>>>),
                  Cmd(DpuRdmaFeatureModeCfg, <<<<"flying_mode", 1>>, <<"burst_len", 15>>>>)>>
<1>1. build_lut_regcmd(s, function, buffers) = (((a \o b) \o c) \o d) \o e
  BY DEF build_lut_regcmd
<1>2. Chains(a) /\ Chains(b) /\ Chains(c) /\ Chains(d) /\ Chains(e)
  BY CubeOutChains, LutStagesChains, LutCommandsChains, CubeInChains, LutTailChains
<1> HIDE DEF a, b, c, d, e
<1>3. Chains((((a \o b) \o c) \o d) \o e)
  BY <1>2, ChainsJoin
<1> QED  BY <1>1, <1>3

(* Every field of every word of the program last emitted reads back.       *)
LEMMA ProgramReadsBack ==
  ASSUME IInv, program # NONE
  PROVE  ReadsBack(program)
<1>1. exec.kernel \in {"pooling", "elementwise_unary", "elementwise_binary", "elementwise_lut"}
  <2>1. exec # NONE /\ stage \in {"programs", "recorded", "aborted"} /\ resolved # NONE
    BY DEF IInv, FileInv, CallInv, PlanInv
  <2>2. exec.kernel \notin {"conv2d", "matmul"}
    BY <2>1 DEF IInv, CallInv
  <2>3. Prepared(exec)
    BY <2>1, <2>2, ExecPrepared
  <2> QED  BY <2>2, <2>3 DEF Prepared, Kernels
<1>2. CASE exec.kernel = "pooling"
  <2>1. program = build_pooling_tile_task(Pooled, tiles[next - 1], Buffers)
    BY <1>2 DEF IInv, ProgramInv
  <2>2. Chains(program)
    BY <2>1, PoolChains
  <2> QED  BY <2>2, ChainsReadBack
<1>3. CASE exec.kernel = "elementwise_unary"
  <2>1. program = build_unary_regcmd(resolved.dims, exec.op, exec.operand, Buffers)
    BY <1>3 DEF IInv, ProgramInv
  <2>2. Chains(program)
    BY <2>1, UnaryChains
  <2> QED  BY <2>2, ChainsReadBack
<1>4. CASE exec.kernel = "elementwise_binary"
  <2>1. program = build_add_regcmd(resolved.dims, exec.op, FALSE, Buffers)
    BY <1>4 DEF IInv, ProgramInv
  <2>2. Chains(program)
    BY <2>1, BinaryChains
  <2> QED  BY <2>2, ChainsReadBack
<1>5. CASE exec.kernel = "elementwise_lut"
  <2>1. program = build_lut_regcmd(LutShapeOf(exec, resolved.dims), exec.op, Buffers)
    BY <1>5 DEF IInv, ProgramInv
  <2>2. Chains(program)
    BY <2>1, LutChains
  <2> QED  BY <2>2, ChainsReadBack
<1> QED  BY <1>1, <1>2, <1>3, <1>4, <1>5
-----------------------------------------------------------------------------
(* The registers that say where the cubes lie.                             *)
CubeOffsets == {\h4020, \h4024, \h4030, \h403c, \h40c0, \h500c, \h5018}

(* Commands that leave them alone.                                         *)
Elsewhere(q) == IsProgram(q) /\ \A reg : reg.offset \in CubeOffsets => Absent(q, reg)

(* A list of commands none of which is at one of those offsets.            *)
LEMMA ElsewhereAt ==
  ASSUME NEW q, IsProgram(q), \A i \in 1..Len(q) : q[i].reg.offset \notin CubeOffsets
  PROVE  Elsewhere(q)
  BY DEF Elsewhere, Absent

(* The same, from the offsets a list writes.                               *)
LEMMA ElsewhereWrites ==
  ASSUME NEW q, NEW offsets, Writes(q, offsets),
         \A i \in 1..Len(offsets) : offsets[i] \notin CubeOffsets
  PROVE  Elsewhere(q)
  BY ElsewhereAt DEF Writes

(* A program that has written its output cube and not yet its input cube,  *)
(* and one that has written both.                                          *)
Outs(p, s, output) ==
  /\ IsProgram(p)
  /\ Sole(p, DpuDstBaseAddr, Cmd(DpuDstBaseAddr, <<<<"dst_base_addr", output>>>>))
  /\ Sole(p, DpuDstSurfStride, Cmd(DpuDstSurfStride, <<<<"dst_surf_stride", s.width * s.height>>>>))
  /\ Sole(p, DpuDataCubeWidth, Cmd(DpuDataCubeWidth, <<<<"width", s.width - 1>>>>))
  /\ Sole(p, DpuDataCubeChannel,
          Cmd(DpuDataCubeChannel, <<<<"orig_channel", s.channels - 1>>,
                                    <<"channel", task_channels(s.channels) - 1>>>>))
  /\ Sole(p, DpuSurfaceAdd, Cmd(DpuSurfaceAdd, <<<<"surf_add", s.width * s.height>>>>))

Begun(p, s, output) ==
  Outs(p, s, output) /\ Absent(p, DpuRdmaDataCubeWidth) /\ Absent(p, DpuRdmaSrcBaseAddr)

Whole(p, s, buffers) ==
  /\ Outs(p, s, buffers.output)
  /\ Sole(p, DpuRdmaDataCubeWidth, Cmd(DpuRdmaDataCubeWidth, <<<<"width", s.width - 1>>>>))
  /\ Sole(p, DpuRdmaSrcBaseAddr, Cmd(DpuRdmaSrcBaseAddr, <<<<"src_base_addr", buffers.input>>>>))

(* The offsets of the registers, one by one.                               *)
LEMMA CubeRegisters ==
  /\ DpuDstBaseAddr.offset = \h4020 /\ DpuDstSurfStride.offset = \h4024
  /\ DpuDataCubeWidth.offset = \h4030 /\ DpuDataCubeChannel.offset = \h403c
  /\ DpuSurfaceAdd.offset = \h40c0 /\ DpuRdmaDataCubeWidth.offset = \h500c
  /\ DpuRdmaSrcBaseAddr.offset = \h5018
  BY DEF DpuDstBaseAddr, DpuDstSurfStride, DpuDataCubeWidth, DpuDataCubeChannel, DpuSurfaceAdd,
         DpuRdmaDataCubeWidth, DpuRdmaSrcBaseAddr, Reg

(* They are the offsets that say where the cubes lie.                      *)
LEMMA CubeRegistersIn ==
  /\ DpuDstBaseAddr.offset \in CubeOffsets /\ DpuDstSurfStride.offset \in CubeOffsets
  /\ DpuDataCubeWidth.offset \in CubeOffsets /\ DpuDataCubeChannel.offset \in CubeOffsets
  /\ DpuSurfaceAdd.offset \in CubeOffsets /\ DpuRdmaDataCubeWidth.offset \in CubeOffsets
  /\ DpuRdmaSrcBaseAddr.offset \in CubeOffsets
  BY CubeRegisters DEF CubeOffsets

(* Commands that leave the cubes alone leave the output cube written.      *)
LEMMA OutsMore ==
  ASSUME NEW p, NEW q, NEW s, NEW output, Outs(p, s, output), Elsewhere(q)
  PROVE  Outs(p \o q, s, output)
<1>1. IsProgram(p) /\ IsProgram(q) /\ IsProgram(p \o q)
  BY ConcatProgram DEF Outs, Elsewhere
<1>2. ASSUME NEW reg, NEW c, reg.offset \in CubeOffsets, Sole(p, reg, c) PROVE Sole(p \o q, reg, c)
  BY <1>1, <1>2, SoleFirst DEF Elsewhere
<1> QED  BY <1>1, <1>2, CubeRegistersIn DEF Outs

(* They leave the input cube to be written, when it was not.               *)
LEMMA BegunMore ==
  ASSUME NEW p, NEW q, NEW s, NEW output, Begun(p, s, output), Elsewhere(q)
  PROVE  Begun(p \o q, s, output)
<1>1. Outs(p \o q, s, output)
  BY OutsMore DEF Begun
<1>2. IsProgram(p) /\ IsProgram(q)
  BY DEF Begun, Outs, Elsewhere
<1>3. Absent(q, DpuRdmaDataCubeWidth) /\ Absent(q, DpuRdmaSrcBaseAddr)
  BY CubeRegistersIn DEF Elsewhere
<1> QED  BY <1>1, <1>2, <1>3, AbsentBoth DEF Begun

(* They leave a whole program whole.                                       *)
LEMMA WholeMore ==
  ASSUME NEW p, NEW q, NEW s, NEW buffers, Whole(p, s, buffers), Elsewhere(q)
  PROVE  Whole(p \o q, s, buffers)
<1>1. Outs(p \o q, s, buffers.output)
  BY OutsMore DEF Whole
<1>2. IsProgram(p) /\ IsProgram(q)
  BY DEF Whole, Outs, Elsewhere
<1>3. ASSUME NEW reg, NEW c, reg.offset \in CubeOffsets, Sole(p, reg, c) PROVE Sole(p \o q, reg, c)
  BY <1>2, <1>3, SoleFirst DEF Elsewhere
<1> QED  BY <1>1, <1>3, CubeRegistersIn DEF Whole

(* The first commands of a program write its output cube.                  *)
LEMMA CubeOutBegins ==
  ASSUME NEW s, NEW output
  PROVE  Begun(CubeOut(s, output), s, output)
<1> DEFINE q == CubeOut(s, output)
<1>1. Writes(q, CubeOutOffsets) /\ Len(CubeOutOffsets) = 14
  BY CubeOutWrites DEF CubeOutOffsets
<1>2. /\ q[4] = Cmd(DpuDstBaseAddr, <<<<"dst_base_addr", output>>>>)
      /\ q[5] = Cmd(DpuDstSurfStride, <<<<"dst_surf_stride", s.width * s.height>>>>)
      /\ q[6] = Cmd(DpuDataCubeWidth, <<<<"width", s.width - 1>>>>)
      /\ q[9] = Cmd(DpuDataCubeChannel, <<<<"orig_channel", s.channels - 1>>,
                                          <<"channel", task_channels(s.channels) - 1>>>>)
      /\ q[14] = Cmd(DpuSurfaceAdd, <<<<"surf_add", s.width * s.height>>>>)
  BY Tuple14 DEF CubeOut
<1> HIDE DEF q
<1>3. /\ CubeOutOffsets[4] = \h4020 /\ CubeOutOffsets[5] = \h4024 /\ CubeOutOffsets[6] = \h4030
      /\ CubeOutOffsets[9] = \h403c /\ CubeOutOffsets[14] = \h40c0
  BY DEF CubeOutOffsets
<1>4. \A i, j \in 1..14 : CubeOutOffsets[i] = CubeOutOffsets[j] => i = j
  BY DEF CubeOutOffsets
<1>5. ASSUME NEW i \in 1..14, NEW reg, reg.offset = CubeOutOffsets[i] PROVE Sole(q, reg, q[i])
  <2>1. i \in 1..Len(CubeOutOffsets) /\ CubeOutOffsets[i] = reg.offset
    BY <1>1, <1>5
  <2>2. \A j \in 1..Len(CubeOutOffsets) : CubeOutOffsets[j] = reg.offset => j = i
    BY <1>1, <1>4, <1>5
  <2> QED  BY <1>1, <2>1, <2>2, SoleAt
<1>6. 4 \in 1..14 /\ 5 \in 1..14 /\ 6 \in 1..14 /\ 9 \in 1..14 /\ 14 \in 1..14
  OBVIOUS
<1>7. /\ Sole(q, DpuDstBaseAddr, q[4]) /\ Sole(q, DpuDstSurfStride, q[5])
      /\ Sole(q, DpuDataCubeWidth, q[6]) /\ Sole(q, DpuDataCubeChannel, q[9])
      /\ Sole(q, DpuSurfaceAdd, q[14])
  BY <1>3, <1>5, <1>6, CubeRegisters
<1>8. Absent(q, DpuRdmaDataCubeWidth) /\ Absent(q, DpuRdmaSrcBaseAddr)
  <2>1. \A j \in 1..Len(CubeOutOffsets) : CubeOutOffsets[j] # \h500c /\ CubeOutOffsets[j] # \h5018
    BY DEF CubeOutOffsets
  <2>2. ASSUME NEW reg, \A j \in 1..Len(CubeOutOffsets) : CubeOutOffsets[j] # reg.offset
        PROVE  Absent(q, reg)
    BY <1>1, <2>2, AbsentFrom
  <2>3. \A j \in 1..Len(CubeOutOffsets) : CubeOutOffsets[j] # DpuRdmaDataCubeWidth.offset
    BY <2>1, CubeRegisters
  <2>4. \A j \in 1..Len(CubeOutOffsets) : CubeOutOffsets[j] # DpuRdmaSrcBaseAddr.offset
    BY <2>1, CubeRegisters
  <2> QED  BY <2>2, <2>3, <2>4
<1>9. IsProgram(q)
  BY <1>1 DEF Writes
<1>10. Begun(q, s, output)
  BY <1>2, <1>7, <1>8, <1>9 DEF Begun, Outs
<1> QED  BY <1>10 DEF q

(* The commands of the input cube make a program whole.                    *)
LEMMA CubeInCompletes ==
  ASSUME NEW p, NEW s, NEW buffers, Begun(p, s, buffers.output)
  PROVE  Whole(p \o CubeIn(s, buffers.input), s, buffers)
<1> DEFINE q == CubeIn(s, buffers.input)
<1>1. Writes(q, CubeInOffsets) /\ Len(CubeInOffsets) = 5
  BY CubeInWrites DEF CubeInOffsets
<1>2. /\ q[1] = Cmd(DpuRdmaDataCubeWidth, <<<<"width", s.width - 1>>>>)
      /\ q[4] = Cmd(DpuRdmaSrcBaseAddr, <<<<"src_base_addr", buffers.input>>>>)
  BY Tuple5 DEF CubeIn
<1> HIDE DEF q
<1>3. CubeInOffsets[1] = \h500c /\ CubeInOffsets[4] = \h5018
      /\ (\A j \in 1..5 : CubeInOffsets[j] = \h500c => j = 1)
      /\ (\A j \in 1..5 : CubeInOffsets[j] = \h5018 => j = 4)
  BY DEF CubeInOffsets
<1>4. ASSUME NEW i \in 1..5, NEW reg, reg.offset = CubeInOffsets[i],
             \A j \in 1..5 : CubeInOffsets[j] = reg.offset => j = i
      PROVE  Sole(q, reg, q[i])
  <2>1. i \in 1..Len(CubeInOffsets) /\ CubeInOffsets[i] = reg.offset
    BY <1>1, <1>4
  <2>2. \A j \in 1..Len(CubeInOffsets) : CubeInOffsets[j] = reg.offset => j = i
    BY <1>1, <1>4
  <2> QED  BY <1>1, <2>1, <2>2, SoleAt
<1>5. Sole(q, DpuRdmaDataCubeWidth, q[1]) /\ Sole(q, DpuRdmaSrcBaseAddr, q[4])
  <2>1. 1 \in 1..5 /\ 4 \in 1..5
    OBVIOUS
  <2> QED  BY <1>3, <1>4, <2>1, CubeRegisters
<1>6. IsProgram(q) /\ IsProgram(p)
  BY <1>1 DEF Writes, Begun, Outs
<1>7. ASSUME NEW reg, \A j \in 1..5 : CubeInOffsets[j] # reg.offset PROVE Absent(q, reg)
  <2>1. \A j \in 1..Len(CubeInOffsets) : CubeInOffsets[j] # reg.offset
    BY <1>1, <1>7
  <2> QED  BY <1>1, <2>1, AbsentFrom
<1>8. /\ Absent(q, DpuDstBaseAddr) /\ Absent(q, DpuDstSurfStride) /\ Absent(q, DpuDataCubeWidth)
      /\ Absent(q, DpuDataCubeChannel) /\ Absent(q, DpuSurfaceAdd)
  <2>1. \A j \in 1..5 : CubeInOffsets[j] \in Nat /\ CubeInOffsets[j] >= \h500c
    BY DEF CubeInOffsets
  <2>2. \A n \in Nat : n < \h500c => \A j \in 1..5 : CubeInOffsets[j] # n
    BY <2>1
  <2>3. /\ \A j \in 1..5 : CubeInOffsets[j] # \h4020 /\ CubeInOffsets[j] # \h4024
             /\ CubeInOffsets[j] # \h4030 /\ CubeInOffsets[j] # \h403c /\ CubeInOffsets[j] # \h40c0
    BY <2>2
  <2> QED  BY <1>7, <2>3, CubeRegisters
<1>9. Outs(p, s, buffers.output) /\ Absent(p, DpuRdmaDataCubeWidth) /\ Absent(p, DpuRdmaSrcBaseAddr)
  BY DEF Begun
<1>10. Outs(p \o q, s, buffers.output)
  <2>1. IsProgram(p \o q)
    BY <1>6, ConcatProgram
  <2>2. ASSUME NEW reg, NEW c, Sole(p, reg, c), Absent(q, reg) PROVE Sole(p \o q, reg, c)
    BY <1>6, <2>2, SoleFirst
  <2> QED  BY <1>8, <1>9, <2>1, <2>2 DEF Outs
<1>11. Sole(p \o q, DpuRdmaDataCubeWidth, q[1]) /\ Sole(p \o q, DpuRdmaSrcBaseAddr, q[4])
  BY <1>5, <1>6, <1>9, SoleSecond
<1>12. Whole(p \o q, s, buffers)
  BY <1>2, <1>10, <1>11 DEF Whole
<1> QED  BY <1>12 DEF q

(* What a chain of two leaves in its second field.                         *)
LEMMA ValueOfTwo ==
  ASSUME NEW reg, NEW a, NEW b, NEW x, NEW y, a # b
  PROVE  ValueOf(Cmd(reg, <<<<a, x>>, <<b, y>>>>), b) = y
<1> DEFINE sets == <<<<a, x>>, <<b, y>>>>
           chain == Cmd(reg, sets)
<1>1. Len(sets) = 2 /\ sets[1][1] = a /\ sets[2][1] = b /\ sets[2][2] = y
  OBVIOUS
<1> HIDE DEF sets
<1>2. chain.sets = sets
  BY CmdIs
<1> HIDE DEF chain
<1>3. \A j \in 1..2 : j \in {1, 2}
  OBVIOUS
<1>4. PICK i \in 1..Len(chain.sets) : i = 2
  <2>1. \E i \in 1..2 : i = 2
    OBVIOUS
  <2> QED  BY <1>1, <1>2, <2>1
<1>5. ASSUME NEW j \in 1..Len(chain.sets), chain.sets[j][1] = b PROVE j = i
  <2>1. j \in 1..2 /\ sets[j][1] = b
    BY <1>1, <1>2, <1>5
  <2> QED  BY <1>1, <1>3, <1>4, <2>1
<1>6. chain.sets[i][1] = b
  BY <1>1, <1>2, <1>4
<1>7. ValueOf(chain, b) = chain.sets[i][2]
  BY <1>5, <1>6, ValueAt
<1>8. ValueOf(chain, b) = y
  BY <1>1, <1>2, <1>4, <1>7
<1> QED  BY <1>8 DEF chain, sets

(* What the registers of a whole program hold.                             *)
LEMMA WholeValues ==
  ASSUME NEW p, NEW s, NEW buffers, Whole(p, s, buffers)
  PROVE  /\ Programmed(p, DpuDstBaseAddr, "dst_base_addr") = buffers.output
         /\ Programmed(p, DpuDstSurfStride, "dst_surf_stride") = s.width * s.height
         /\ Programmed(p, DpuDataCubeWidth, "width") = s.width - 1
         /\ Programmed(p, DpuDataCubeChannel, "channel") = task_channels(s.channels) - 1
         /\ Programmed(p, DpuSurfaceAdd, "surf_add") = s.width * s.height
         /\ Programmed(p, DpuRdmaDataCubeWidth, "width") = s.width - 1
         /\ Programmed(p, DpuRdmaSrcBaseAddr, "src_base_addr") = buffers.input
<1>1. Outs(p, s, buffers.output)
  BY DEF Whole
<1>2. Programmed(p, DpuDstBaseAddr, "dst_base_addr") = buffers.output
  BY <1>1, SoleIs, ValueAlone DEF Outs
<1>3. Programmed(p, DpuDstSurfStride, "dst_surf_stride") = s.width * s.height
  BY <1>1, SoleIs, ValueAlone DEF Outs
<1>4. Programmed(p, DpuDataCubeWidth, "width") = s.width - 1
  BY <1>1, SoleIs, ValueAlone DEF Outs
<1>5. Programmed(p, DpuDataCubeChannel, "channel") = task_channels(s.channels) - 1
  <2> DEFINE c == Cmd(DpuDataCubeChannel, <<<<"orig_channel", s.channels - 1>>,
                                            <<"channel", task_channels(s.channels) - 1>>>>)
  <2>1. Sole(p, DpuDataCubeChannel, c)
    BY <1>1 DEF Outs
  <2>2. ValueOf(c, "channel") = task_channels(s.channels) - 1
    BY ValueOfTwo
  <2> HIDE DEF c
  <2> QED  BY <2>1, <2>2, SoleIs
<1>6. Programmed(p, DpuSurfaceAdd, "surf_add") = s.width * s.height
  BY <1>1, SoleIs, ValueAlone DEF Outs
<1>7. Programmed(p, DpuRdmaDataCubeWidth, "width") = s.width - 1
  BY SoleIs, ValueAlone DEF Whole
<1>8. Programmed(p, DpuRdmaSrcBaseAddr, "src_base_addr") = buffers.input
  BY SoleIs, ValueAlone DEF Whole
<1> QED  BY <1>2, <1>3, <1>4, <1>5, <1>6, <1>7, <1>8

(* Fp16Path leaves the registers of the cubes alone.                       *)
LEMMA Fp16PathElsewhere ==
  Elsewhere(Fp16Path)
<1> DEFINE q == Fp16Path
<1>1. Len(q) = 5 /\ IsProgram(q)
      /\ q[1].reg = DpuDataFormat
      /\ q[2].reg = DpuBsCfg
      /\ q[3].reg = DpuBnCfg
      /\ q[4].reg = DpuOutCvtScale
      /\ q[5].reg = DpuRdmaFeatureModeCfg
  BY Tuple5, CmdIs DEF Fp16Path
<1> HIDE DEF q
<1>2. DpuDataFormat.offset = \h4010 /\ DpuBsCfg.offset = \h4040 /\ DpuBnCfg.offset = \h4060 /\ DpuOutCvtScale.offset = \h4084 /\ DpuRdmaFeatureModeCfg.offset = \h5044
  BY DEF Reg, DpuDataFormat, DpuBsCfg, DpuBnCfg, DpuOutCvtScale, DpuRdmaFeatureModeCfg
<1>3. \A i \in 1..5 : i \in {1, 2, 3, 4, 5}
  OBVIOUS
<1>4. \A i \in 1..Len(q) : q[i].reg.offset \notin CubeOffsets
  BY <1>1, <1>2, <1>3 DEF CubeOffsets
<1>5. Elsewhere(q)
  BY <1>1, <1>4, ElsewhereAt
<1> QED  BY <1>5 DEF q

(* BinaryStage leaves the registers of the cubes alone.                    *)
LEMMA BinaryStageElsewhere ==
  ASSUME NEW op, NEW relu
  PROVE  Elsewhere(BinaryStage(op, relu))
<1> DEFINE q == BinaryStage(op, relu)
<1>1. Len(q) = 1 /\ IsProgram(q)
      /\ q[1].reg = DpuEwCfg
  BY Tuple1, CmdIs DEF BinaryStage
<1> HIDE DEF q
<1>2. DpuEwCfg.offset = \h4070
  BY DEF Reg, DpuEwCfg
<1>3. \A i \in 1..1 : i \in {1}
  OBVIOUS
<1>4. \A i \in 1..Len(q) : q[i].reg.offset \notin CubeOffsets
  BY <1>1, <1>2, <1>3 DEF CubeOffsets
<1>5. Elsewhere(q)
  BY <1>1, <1>4, ElsewhereAt
<1> QED  BY <1>5 DEF q

(* UnaryStage leaves the registers of the cubes alone.                     *)
LEMMA UnaryStageElsewhere ==
  ASSUME NEW op
  PROVE  Elsewhere(UnaryStage(op))
<1> DEFINE q == UnaryStage(op)
<1>1. Len(q) = 1 /\ IsProgram(q)
      /\ q[1].reg = DpuEwCfg
  BY Tuple1, CmdIs DEF UnaryStage
<1> HIDE DEF q
<1>2. DpuEwCfg.offset = \h4070
  BY DEF Reg, DpuEwCfg
<1>3. \A i \in 1..1 : i \in {1}
  OBVIOUS
<1>4. \A i \in 1..Len(q) : q[i].reg.offset \notin CubeOffsets
  BY <1>1, <1>2, <1>3 DEF CubeOffsets
<1>5. Elsewhere(q)
  BY <1>1, <1>4, ElsewhereAt
<1> QED  BY <1>5 DEF q

(* OperandIn leaves the registers of the cubes alone.                      *)
LEMMA OperandInElsewhere ==
  ASSUME NEW s, NEW operand
  PROVE  Elsewhere(OperandIn(s, operand))
<1> DEFINE q == OperandIn(s, operand)
<1>1. Len(q) = 3 /\ IsProgram(q)
      /\ q[1].reg = DpuRdmaErdmaCfg
      /\ q[2].reg = DpuRdmaEwBaseAddr
      /\ q[3].reg = DpuRdmaEwSurfStride
  BY Tuple3, CmdIs DEF OperandIn
<1> HIDE DEF q
<1>2. DpuRdmaErdmaCfg.offset = \h5034 /\ DpuRdmaEwBaseAddr.offset = \h5038 /\ DpuRdmaEwSurfStride.offset = \h5040
  BY DEF Reg, DpuRdmaErdmaCfg, DpuRdmaEwBaseAddr, DpuRdmaEwSurfStride
<1>3. \A i \in 1..3 : i \in {1, 2, 3}
  OBVIOUS
<1>4. \A i \in 1..Len(q) : q[i].reg.offset \notin CubeOffsets
  BY <1>1, <1>2, <1>3 DEF CubeOffsets
<1>5. Elsewhere(q)
  BY <1>1, <1>4, ElsewhereAt
<1> QED  BY <1>5 DEF q

(* NoOperand leaves the registers of the cubes alone.                      *)
LEMMA NoOperandElsewhere ==
  Elsewhere(<<Cmd(DpuRdmaErdmaCfg, <<<<"erdma_disable", 1>>>>)>>)
<1> DEFINE q == <<Cmd(DpuRdmaErdmaCfg, <<<<"erdma_disable", 1>>>>)>>
<1>1. Len(q) = 1 /\ IsProgram(q)
      /\ q[1].reg = DpuRdmaErdmaCfg
  BY Tuple1, CmdIs
<1> HIDE DEF q
<1>2. DpuRdmaErdmaCfg.offset = \h5034
  BY DEF Reg, DpuRdmaErdmaCfg
<1>3. \A i \in 1..1 : i \in {1}
  OBVIOUS
<1>4. \A i \in 1..Len(q) : q[i].reg.offset \notin CubeOffsets
  BY <1>1, <1>2, <1>3 DEF CubeOffsets
<1>5. Elsewhere(q)
  BY <1>1, <1>4, ElsewhereAt
<1> QED  BY <1>5 DEF q

(* LutTail leaves the registers of the cubes alone.                        *)
LEMMA LutTailElsewhere ==
  Elsewhere(<<Cmd(DpuRdmaErdmaCfg, <<<<"erdma_disable", 1>>>>),
           Cmd(DpuRdmaFeatureModeCfg, <<<<"flying_mode", 1>>, <<"burst_len", 15>>>>)>>)
<1> DEFINE q == <<Cmd(DpuRdmaErdmaCfg, <<<<"erdma_disable", 1>>>>),
           Cmd(DpuRdmaFeatureModeCfg, <<<<"flying_mode", 1>>, <<"burst_len", 15>>>>)>>
<1>1. Len(q) = 2 /\ IsProgram(q)
      /\ q[1].reg = DpuRdmaErdmaCfg
      /\ q[2].reg = DpuRdmaFeatureModeCfg
  BY Tuple2, CmdIs
<1> HIDE DEF q
<1>2. DpuRdmaErdmaCfg.offset = \h5034 /\ DpuRdmaFeatureModeCfg.offset = \h5044
  BY DEF Reg, DpuRdmaErdmaCfg, DpuRdmaFeatureModeCfg
<1>3. \A i \in 1..2 : i \in {1, 2}
  OBVIOUS
<1>4. \A i \in 1..Len(q) : q[i].reg.offset \notin CubeOffsets
  BY <1>1, <1>2, <1>3 DEF CubeOffsets
<1>5. Elsewhere(q)
  BY <1>1, <1>4, ElsewhereAt
<1> QED  BY <1>5 DEF q

(* LutStages leaves the registers of the cubes alone.                      *)
LEMMA LutStagesElsewhere ==
  ASSUME NEW s, NEW function
  PROVE  Elsewhere(LutStages(s, function))
<1>1. \A i \in 1..Len(LutStagesOffsets) : LutStagesOffsets[i] \notin CubeOffsets
  BY DEF LutStagesOffsets, CubeOffsets
<1> QED  BY <1>1, LutStagesWrites, ElsewhereWrites

(* LutCommands leaves the registers of the cubes alone.                    *)
LEMMA LutCommandsElsewhere ==
  ASSUME NEW function
  PROVE  Elsewhere(LutCommands(function))
<1>1. \A i \in 1..Len(LutCommandsOffsets) : LutCommandsOffsets[i] \notin CubeOffsets
  BY DEF LutCommandsOffsets, CubeOffsets
<1> QED  BY <1>1, LutCommandsWrites, ElsewhereWrites

(* The three element-wise programs are whole.                              *)
LEMMA BinaryWhole ==
  ASSUME NEW s, NEW op, NEW relu, NEW buffers
  PROVE  Whole(build_add_regcmd(s, op, relu, buffers), s, buffers)
<1> DEFINE a == CubeOut(s, buffers.output)
           b == Fp16Path
           c == BinaryStage(op, relu)
           d == CubeIn(s, buffers.input)
           e == OperandIn(s, buffers.operand)
<1>1. build_add_regcmd(s, op, relu, buffers) = (((a \o b) \o c) \o d) \o e
  BY DEF build_add_regcmd
<1>2. Begun(a, s, buffers.output)
  BY CubeOutBegins
<1>3. Elsewhere(b) /\ Elsewhere(c) /\ Elsewhere(e)
  BY Fp16PathElsewhere, BinaryStageElsewhere, OperandInElsewhere
<1>4. \A p : Begun(p, s, buffers.output) => Whole(p \o d, s, buffers)
  BY CubeInCompletes
<1> HIDE DEF a, b, c, d, e
<1>5. Begun((a \o b) \o c, s, buffers.output)
  BY <1>2, <1>3, BegunMore
<1>6. Whole((((a \o b) \o c) \o d) \o e, s, buffers)
  BY <1>3, <1>4, <1>5, WholeMore
<1> QED  BY <1>1, <1>6

(* So is the program of a unary operation.                                 *)
LEMMA UnaryWhole ==
  ASSUME NEW s, NEW op, NEW operand, NEW buffers
  PROVE  Whole(build_unary_regcmd(s, op, operand, buffers), s, buffers)
<1> DEFINE a == CubeOut(s, buffers.output)
           b == Fp16Path
           c == UnaryStage(op)
           l == [lane \in 1..8 |-> Cmd(DpuEwOpValue(lane - 1), <<<<"ew_operand", operand>>>>)]
           d == CubeIn(s, buffers.input)
           e == <<Cmd(DpuRdmaErdmaCfg, <<<<"erdma_disable", 1>>>>)>>
<1>1. build_unary_regcmd(s, op, operand, buffers) = ((((a \o b) \o c) \o l) \o d) \o e
  BY DEF build_unary_regcmd
<1>2. Begun(a, s, buffers.output)
  BY CubeOutBegins
<1>3. Elsewhere(b) /\ Elsewhere(c) /\ Elsewhere(e)
  BY Fp16PathElsewhere, UnaryStageElsewhere, NoOperandElsewhere
<1>4. Chains(l) /\ Len(l) = 8
      /\ \A i \in 1..8 : l[i].reg.offset \in Nat /\ l[i].reg.offset >= \h4090 /\ l[i].reg.offset < \h40c0
  BY LaneCommands
<1>5. \A p : Begun(p, s, buffers.output) => Whole(p \o d, s, buffers)
  BY CubeInCompletes
<1> HIDE DEF a, b, c, d, e, l
<1>6. Elsewhere(l)
  <2>1. \A n \in Nat : n >= \h4090 /\ n < \h40c0 => n \notin CubeOffsets
    BY DEF CubeOffsets
  <2>2. \A i \in 1..Len(l) : l[i].reg.offset \notin CubeOffsets
    BY <1>4, <2>1
  <2>3. IsProgram(l)
    BY <1>4 DEF Chains
  <2> QED  BY <2>2, <2>3, ElsewhereAt
<1>7. Begun(((a \o b) \o c) \o l, s, buffers.output)
  BY <1>2, <1>3, <1>6, BegunMore
<1>8. Whole(((((a \o b) \o c) \o l) \o d) \o e, s, buffers)
  BY <1>3, <1>5, <1>7, WholeMore
<1> QED  BY <1>1, <1>8

(* So is the program of a curve.                                           *)
LEMMA LutWhole ==
  ASSUME NEW s, NEW function, NEW buffers
  PROVE  Whole(build_lut_regcmd(s, function, buffers), s, buffers)
<1> DEFINE a == CubeOut(s, buffers.output)
           b == LutStages(s, function)
           c == LutCommands(function)
           d == CubeIn(s, buffers.input)
           e == <<Cmd(DpuRdmaErdmaCfg, <<<<"erdma_disable", 1>>>>),
                  Cmd(DpuRdmaFeatureModeCfg, <<<<"flying_mode", 1>>, <<"burst_len", 15>>>>)>>
<1>1. build_lut_regcmd(s, function, buffers) = (((a \o b) \o c) \o d) \o e
  BY DEF build_lut_regcmd
<1>2. Begun(a, s, buffers.output)
  BY CubeOutBegins
<1>3. Elsewhere(b) /\ Elsewhere(c) /\ Elsewhere(e)
  BY LutStagesElsewhere, LutCommandsElsewhere, LutTailElsewhere
<1>4. \A p : Begun(p, s, buffers.output) => Whole(p \o d, s, buffers)
  BY CubeInCompletes
<1> HIDE DEF a, b, c, d, e
<1>5. Begun((a \o b) \o c, s, buffers.output)
  BY <1>2, <1>3, BegunMore
<1>6. Whole((((a \o b) \o c) \o d) \o e, s, buffers)
  BY <1>3, <1>4, <1>5, WholeMore
<1> QED  BY <1>1, <1>6
-----------------------------------------------------------------------------
Pos(n) == n \in Nat \ {0}

(* The bytes of a pixel of a surface.                                      *)
CornerIs(block, pixels, surfaces, pixel) ==
  /\ pixel \in Nat /\ block * pixels \in Nat
  /\ (block * pixels + pixel) * 16 = SourceByte(pixels, 16, pixel, block * 16)
  /\ (block * pixels + pixel) * 16 + 16 <= pixels * surfaces * 16

(* They are the packed layout's, and none past the cube.                   *)
Inside(at, columns, pitch, rows, pixels) ==
  /\ Pos(rows) /\ Pos(columns) /\ at \in Nat /\ pitch \in Nat /\ pixels \in Nat
  /\ at + columns <= pitch /\ rows * pitch <= pixels
End(n, count) == n \in {0, count - 1}
PixelAt(row, pitch, at, column) == row * pitch + at + column

(* The atom of a pixel inside the cube is where SourceByte says, and ends  *)
(* inside the cube.                                                        *)
LEMMA Corner ==
  ASSUME NEW surfaces, Pos(surfaces), NEW pixels, NEW rows, NEW columns, NEW at, NEW pitch,
         Inside(at, columns, pitch, rows, pixels),
         NEW row, End(row, rows), NEW column, End(column, columns), NEW block, End(block, surfaces),
         NEW pixel, pixel = PixelAt(row, pitch, at, column)
  PROVE  CornerIs(block, pixels, surfaces, pixel)
<1>0. /\ surfaces \in Nat \ {0} /\ rows \in Nat \ {0} /\ columns \in Nat \ {0}
      /\ at \in Nat /\ pitch \in Nat /\ pixels \in Nat
      /\ at + columns <= pitch /\ rows * pitch <= pixels
      /\ row \in {0, rows - 1} /\ column \in {0, columns - 1} /\ block \in {0, surfaces - 1}
      /\ pixel = row * pitch + at + column
  BY DEF Pos, Inside, End, PixelAt
<1> DEFINE a == (block * pixels + pixel) * 16
<1>1. row \in Nat /\ column \in Nat /\ block \in Nat /\ column < columns
  BY <1>0
<1>2. row * pitch \in Nat /\ row * pitch + pitch <= rows * pitch
  <2>1. CASE row = 0
    <3>1. 0 * pitch = 0 /\ rows = (rows - 1) + 1 /\ rows - 1 \in Nat
      BY <1>0
    <3>2. PICK m \in Nat : m = rows - 1
      BY <1>0, <3>1
    <3>3. (m + 1) * pitch = m * pitch + pitch /\ m * pitch \in Nat
      BY <1>0
    <3> QED  BY <1>0, <2>1, <3>1, <3>2, <3>3
  <2>2. CASE row = rows - 1
    <3>1. rows = row + 1
      BY <1>0, <2>2
    <3>2. (row + 1) * pitch = row * pitch + pitch /\ row * pitch \in Nat
      BY <1>0, <1>1
    <3> QED  BY <1>0, <3>1, <3>2
  <2> QED  BY <1>0, <2>1, <2>2
<1>3. pixel \in Nat /\ pixel + 1 <= pixels
  <2> DEFINE x == row * pitch
             y == rows * pitch
  <2>1. x \in Nat /\ y \in Int /\ x + pitch <= y /\ y <= pixels /\ pixel = x + at + column
    BY <1>0, <1>2
  <2> HIDE DEF x, y
  <2> QED  BY <1>0, <1>1, <2>1
<1>4. block * pixels \in Nat /\ block * pixels + pixels <= pixels * surfaces
  <2>1. CASE block = 0
    <3>1. PICK m \in Nat : m = surfaces - 1
      BY <1>0
    <3>2. pixels * (m + 1) = pixels * m + pixels /\ pixels * m \in Nat /\ surfaces = m + 1
      BY <1>0, <3>1
    <3>3. 0 * pixels = 0
      BY <1>0
    <3> QED  BY <1>0, <2>1, <3>2, <3>3
  <2>2. CASE block = surfaces - 1
    <3>1. surfaces = block + 1
      BY <1>0, <2>2
    <3>2. pixels * (block + 1) = block * pixels + pixels /\ block * pixels \in Nat
      BY <1>0, <1>1
    <3> QED  BY <1>0, <3>1, <3>2
  <2> QED  BY <1>0, <2>1, <2>2
<1>5. a + 16 <= pixels * surfaces * 16
  <2> DEFINE x == block * pixels
             y == pixels * surfaces
  <2>1. x \in Nat /\ y \in Int /\ x + pixels <= y /\ a = (x + pixel) * 16
    BY <1>0, <1>4
  <2> HIDE DEF x, y, a
  <2>2. a + 16 <= y * 16
    BY <1>0, <1>3, <2>1
  <2> QED  BY <1>0, <2>2 DEF y
<1>6. a = SourceByte(pixels, 16, pixel, block * 16)
  <2>1. (block * 16) \div 16 = block /\ ((block * 16) % 16) = 0
    BY <1>0, <1>1
  <2>2. SourceByte(pixels, 16, pixel, block * 16)
          = (((block * 16) \div 16) * pixels + pixel) * 16 + ((block * 16) % 16)
    BY DEF SourceByte
  <2>3. (block * pixels + pixel) * 16 \in Int
    BY <1>0, <1>3, <1>4
  <2> QED  BY <1>0, <2>1, <2>2, <2>3
<1> QED  BY <1>0, <1>3, <1>4, <1>5, <1>6 DEF CornerIs

(* A cube whose pixels fill whole surfaces.                                *)
Filled(g, surfaces, width, height) ==
  /\ surfaces \in Nat \ {0} /\ packed_surfaces(g) = surfaces
  /\ g.surface_pixel_count \in Nat /\ height * width <= g.surface_pixel_count
  /\ \A n : nc1hwc2_storage_size(n, g.packed_bytes_per_pixel) = n * surfaces * 16

(* Channels that fill the surfaces to the last byte.                       *)
Counted(channels, bytes, surfaces) == channels \in Int /\ channels * bytes = surfaces * 16

(* A pixel of a multiple of sixteen bytes fills its surfaces.              *)
LEMMA WholeSurfaces ==
  ASSUME NEW g, NEW k \in Nat \ {0}, g.packed_bytes_per_pixel = k * 16
  PROVE  /\ packed_surfaces(g) = k
         /\ \A n : nc1hwc2_storage_size(n, g.packed_bytes_per_pixel) = n * k * 16
<1>1. (k * 16 + 16 - 1) \div 16 = k
  OBVIOUS
<1>2. div_ceil(g.packed_bytes_per_pixel, 16) = k
  BY <1>1 DEF div_ceil
<1>3. FEATURE_ATOM_BYTES = 16
  BY DEF FEATURE_ATOM_BYTES
<1> QED  BY <1>2, <1>3 DEF packed_surfaces, nc1hwc2_storage_size

(* The cube of a pool and the cube of an element-wise kernel, and the      *)
(* channels their programs count.                                          *)
LEMMA RoundedUp ==
  ASSUME NEW a \in Nat \ {0}, NEW b \in {4, 8, 16}
  PROVE  /\ div_ceil(a, b) \in Nat \ {0} /\ next_multiple_of(a, b) = div_ceil(a, b) * b
         /\ a <= next_multiple_of(a, b) /\ next_multiple_of(a, b) \in Nat
  BY DEF div_ceil, next_multiple_of

PoolCubeIs(g, bytes, width, height, channels) ==
  \E surfaces : /\ Filled(g, surfaces, width, height)
                /\ Counted(packed_channels("Pooling", bytes, channels), bytes, surfaces)
                /\ g.surface_pixel_count = next_multiple_of(width * height, 4)

(* The cube of a pool is filled, and its program counts its channels.      *)
LEMMA PoolCube ==
  ASSUME NEW bytes \in {1, 2}, NEW width, Pos(width), NEW height, Pos(height),
         NEW channels, Pos(channels), NEW g, g = cube_geometry("Pooling", bytes, width, height, channels)
  PROVE  PoolCubeIs(g, bytes, width, height, channels)
<1>0. width \in Nat \ {0} /\ height \in Nat \ {0} /\ channels \in Nat \ {0}
  BY DEF Pos
<1> DEFINE k == div_ceil(channels, 16 \div bytes)
           area == width * height
<1>1. 16 \div bytes \in {8, 16} /\ (16 \div bytes) * bytes = 16
  OBVIOUS
<1>2. k \in Nat \ {0}
  BY <1>0, <1>1, RoundedUp
<1>3. packed_channels("Pooling", bytes, channels) = k * (16 \div bytes)
  BY DEF packed_channels, is_ppu, next_multiple_of, FEATURE_ATOM_BYTES
<1>4. packed_channels("Pooling", bytes, channels) * bytes = k * 16
  <2> HIDE DEF k
  <2>1. \A m \in {8, 16} : m * bytes = 16 => (k * m) * bytes = k * 16
    BY <1>2
  <2> QED  BY <1>1, <1>3, <2>1
<1>5. g.packed_bytes_per_pixel = k * 16 /\ g.surface_pixel_count = next_multiple_of(area, 4)
  BY <1>4 DEF cube_geometry, is_ppu
<1>6. area \in Nat \ {0} /\ height * width = area
  BY <1>0
<1> HIDE DEF k, area
<1>7. next_multiple_of(area, 4) \in Nat /\ area <= next_multiple_of(area, 4)
  BY <1>6, RoundedUp
<1>8. Filled(g, k, width, height)
  BY <1>2, <1>5, <1>6, <1>7, WholeSurfaces DEF Filled
<1>9. Counted(packed_channels("Pooling", bytes, channels), bytes, k)
  <2>1. packed_channels("Pooling", bytes, channels) \in Int
    <3> HIDE DEF k
    <3>1. \A m \in {8, 16} : k * m \in Int
      BY <1>2
    <3> QED  BY <1>1, <1>3, <3>1
  <2> QED  BY <1>4, <2>1 DEF Counted
<1> QED  BY <1>5, <1>8, <1>9 DEF area, PoolCubeIs

LaneCubeIs(g, bytes, width, height, channels) ==
  \E surfaces : /\ Filled(g, surfaces, width, height)
                /\ Counted(task_channels(channels), bytes, surfaces)
                /\ g.surface_pixel_count = width * height

(* So is the cube of an element-wise kernel.                               *)
LEMMA LaneCube ==
  ASSUME NEW bytes \in {1, 2}, NEW width, Pos(width), NEW height, Pos(height),
         NEW channels, Pos(channels), NEW g, g = cube_geometry("Elementwise", bytes, width, height, channels)
  PROVE  LaneCubeIs(g, bytes, width, height, channels)
<1>0. width \in Nat \ {0} /\ height \in Nat \ {0} /\ channels \in Nat \ {0}
  BY DEF Pos
<1> DEFINE most == Max2(channels, 16)
           d == div_ceil(most, 16)
           k == d * bytes
           area == width * height
<1>1. most \in Nat \ {0}
  BY <1>0 DEF Max2
<1>2. task_channels(channels) = d * 16
  BY DEF task_channels, next_multiple_of
<1>3. packed_channels("Elementwise", bytes, channels) = task_channels(channels)
  BY DEF packed_channels, is_ppu, task_channels
<1>4. g.packed_bytes_per_pixel = task_channels(channels) * bytes /\ g.surface_pixel_count = area
  BY <1>3 DEF cube_geometry, is_ppu
<1>5. area \in Nat \ {0} /\ height * width = area
  BY <1>0
<1> HIDE DEF most, area
<1>6. d \in Nat \ {0}
  BY <1>1, RoundedUp
<1> HIDE DEF d
<1>7. (d * 16) * bytes = k * 16 /\ k \in Nat \ {0} /\ d * 16 \in Int
  BY <1>6
<1> HIDE DEF k
<1>8. Filled(g, k, width, height)
  BY <1>2, <1>4, <1>5, <1>7, WholeSurfaces DEF Filled
<1>9. Counted(task_channels(channels), bytes, k)
  BY <1>2, <1>7 DEF Counted
<1> QED  BY <1>4, <1>8, <1>9 DEF area, LaneCubeIs
-----------------------------------------------------------------------------
(* The corners of the cubes of an element-wise program.                    *)
LEMMA LaneCorners ==
  ASSUME IInv, program # NONE, exec.kernel # "pooling"
  PROVE  KernelReadsWritten
<1> DEFINE d == resolved.dims
           w == d["width"]
           h == d["height"]
           c == d["channels"]
           g == InputCube
<1>1. /\ exec # NONE /\ stage \in {"programs", "recorded", "aborted"} /\ resolved # NONE
      /\ resolve_shape(exec, call.words) /\ resolved = ResolvedOf(exec, call.words)
  BY DEF IInv, FileInv, CallInv, PlanInv
<1>2. exec.kernel \notin {"conv2d", "matmul"}
  BY <1>1 DEF IInv, CallInv
<1>3. Prepared(exec)
  BY <1>1, <1>2, ExecPrepared
<1>4. exec.kernel \in {"elementwise_unary", "elementwise_binary", "elementwise_lut"}
  BY <1>2, <1>3 DEF Prepared, Kernels
<1>5. DimNames(exec.kernel) = {"width", "height", "channels"}
  <2>1. DimensionsOf(exec.kernel) = <<"width", "height", "channels">>
    BY <1>4 DEF DimensionsOf
  <2>2. DOMAIN <<"width", "height", "channels">> = {1, 2, 3}
    OBVIOUS
  <2> QED  BY <2>1, <2>2 DEF DimNames, RETIRED
<1>6. w \in Nat \ {0} /\ h \in Nat \ {0} /\ c \in Nat \ {0}
  <2>1. Pushes(call, exec)
    BY <1>1, <1>2, CallPushes
  <2>2. ResolvedDims(exec, call.words) \in [DimNames(exec.kernel) -> Nat \ {0}]
    BY <1>1, <1>3, <2>1, DimsResolved
  <2>3. resolved.dims = ResolvedDims(exec, call.words)
    BY <1>1 DEF ResolvedOf
  <2> QED  BY <1>5, <2>2, <2>3
<1>7. PICK s : Whole(program, s, Buffers) /\ s.width = w /\ s.height = h /\ s.channels = c
  <2>1. CASE exec.kernel = "elementwise_unary"
    BY <2>1, UnaryWhole DEF IInv, ProgramInv
  <2>2. CASE exec.kernel = "elementwise_binary"
    BY <2>2, BinaryWhole DEF IInv, ProgramInv
  <2>3. CASE exec.kernel = "elementwise_lut"
    <3> DEFINE s == LutShapeOf(exec, resolved.dims)
    <3>1. Whole(program, s, Buffers)
      BY <2>3, LutWhole DEF IInv, ProgramInv
    <3>2. s.width = w /\ s.height = h /\ s.channels = c
      BY DEF LutShapeOf
    <3> QED  BY <3>1, <3>2
  <2> QED  BY <1>4, <2>1, <2>2, <2>3
<1>8. /\ P(DpuDstBaseAddr, "dst_base_addr") = Buffers.output
      /\ P(DpuDstSurfStride, "dst_surf_stride") = w * h
      /\ P(DpuDataCubeWidth, "width") = w - 1
      /\ P(DpuDataCubeChannel, "channel") = task_channels(c) - 1
      /\ P(DpuSurfaceAdd, "surf_add") = w * h
      /\ P(DpuRdmaDataCubeWidth, "width") = w - 1
      /\ P(DpuRdmaSrcBaseAddr, "src_base_addr") = Buffers.input
  BY <1>7, WholeValues DEF P
<1>9. ReadsBack(program)
  BY ProgramReadsBack
<1>10. ElementBytes \in {1, 2}
  BY DEF ElementBytes
<1>11. OutputCube = g /\ g = cube_geometry("Elementwise", ElementBytes, w, h, c)
  BY DEF OutputCube, InputCube
<1> HIDE DEF d, w, h, c, g
<1>12. PICK surfaces : Filled(g, surfaces, w, h) /\ task_channels(c) * ElementBytes = surfaces * 16
                       /\ task_channels(c) \in Int /\ g.surface_pixel_count = w * h
  <2> DEFINE bytes == ElementBytes
  <2>1. bytes \in {1, 2} /\ g = cube_geometry("Elementwise", bytes, w, h, c)
    BY <1>10, <1>11
  <2> HIDE DEF bytes
  <2>2. Pos(w) /\ Pos(h) /\ Pos(c)
    BY <1>6 DEF Pos
  <2>3. LaneCubeIs(g, bytes, w, h, c)
    BY <2>1, <2>2, LaneCube
  <2> QED  BY <2>3 DEF bytes, Counted, LaneCubeIs
<1> DEFINE spc == g.surface_pixel_count
           in == P(DpuRdmaSrcBaseAddr, "src_base_addr")
           out == P(DpuDstBaseAddr, "dst_base_addr")
           channel == P(DpuDataCubeChannel, "channel")
<1>13. /\ surfaces \in Nat \ {0} /\ packed_surfaces(g) = surfaces /\ spc \in Nat /\ h * w <= spc
       /\ nc1hwc2_storage_size(spc, g.packed_bytes_per_pixel) = spc * surfaces * 16
  BY <1>12 DEF Filled
<1>14. (channel + 1) * ElementBytes = packed_surfaces(g) * 16
  <2>1. channel + 1 = task_channels(c)
    BY <1>8, <1>12
  <2> QED  BY <1>12, <1>13, <2>1
<1>15. in - Buffers.input = 0 /\ out - Buffers.output = 0
  <2>1. Buffers.input \in Nat /\ Buffers.output \in Nat
    BY BuffersAssumption
  <2> QED  BY <1>8, <2>1
<1>16. P(DpuSurfaceAdd, "surf_add") = spc /\ P(DpuDstSurfStride, "dst_surf_stride") = spc
       /\ P(DpuRdmaDataCubeWidth, "width") + 1 = w /\ P(DpuDataCubeWidth, "width") + 1 = w
  BY <1>6, <1>8, <1>12
<1> HIDE DEF spc, in, out, channel
<1>17. ASSUME NEW row \in {0, h - 1}, NEW column \in {0, w - 1}, NEW block \in {0, surfaces - 1},
              NEW z, z = 0
       PROVE  LET a == z + (block * spc + row * w + column) * 16
              IN  a = SourceByte(spc, 16, row * w + 0 + column, block * 16)
                  /\ a + 16 <= spc * surfaces * 16
  <2>1. 0 + w <= w /\ 0 \in Nat /\ w \in Nat
    BY <1>6
  <2>7. PICK at : at \in Nat /\ at + w <= w /\ at = 0
    BY <1>6
  <2>2. PICK pixel : pixel = PixelAt(row, w, at, column)
    OBVIOUS
  <2>6. CornerIs(block, spc, surfaces, pixel)
    <3>1. Pos(surfaces) /\ Inside(at, w, w, h, spc)
      BY <1>6, <1>13, <2>7 DEF Pos, Inside
    <3>2. End(row, h) /\ End(column, w) /\ End(block, surfaces)
      BY DEF End
    <3> QED  BY <2>2, <3>1, <3>2, Corner
  <2>3. block * spc \in Int /\ row * w \in Int /\ column \in Int
    BY <1>6, <1>13
  <2> DEFINE x == block * spc
             y == row * w
  <2>4. x \in Int /\ y \in Int /\ column \in Int
    BY <2>3
  <2> HIDE DEF x, y
  <2>5. z + (x + y + column) * 16 = (x + (y + 0 + column)) * 16
    BY <1>17, <2>4
  <2> QED  BY <2>2, <2>5, <2>6, <2>7 DEF x, y, CornerIs, PixelAt
<1>18. ASSUME NEW row \in {0, h - 1}, NEW column \in {0, w - 1}, NEW block \in {0, surfaces - 1}
       PROVE  /\ InCube(ReadAddress(row, column, block), g, row * w + 0 + column, block)
              /\ InCube(WriteAddress(row, column, block), g, row * w + 0 + column, block)
  <2>1. ReadAddress(row, column, block)
          = (in - Buffers.input)
              + (block * P(DpuSurfaceAdd, "surf_add")
                   + row * (P(DpuRdmaDataCubeWidth, "width") + 1) + column) * 16
    BY DEF ReadAddress, in
  <2>2. WriteAddress(row, column, block)
          = (out - Buffers.output)
              + (block * P(DpuDstSurfStride, "dst_surf_stride")
                   + row * (P(DpuDataCubeWidth, "width") + 1) + column) * 16
    BY DEF WriteAddress, out
  <2> DEFINE i == in - Buffers.input
             o == out - Buffers.output
  <2>3. i = 0 /\ o = 0
    BY <1>15
  <2>4. /\ ReadAddress(row, column, block) = i + (block * spc + row * w + column) * 16
        /\ WriteAddress(row, column, block) = o + (block * spc + row * w + column) * 16
    BY <1>16, <2>1, <2>2
  <2> HIDE DEF i, o
  <2>5. ASSUME NEW address, address = i + (block * spc + row * w + column) * 16
                            \/ address = o + (block * spc + row * w + column) * 16
        PROVE  InCube(address, g, row * w + 0 + column, block)
    BY <1>13, <1>17, <2>3, <2>5 DEF InCube, spc
  <2> QED  BY <2>4, <2>5
<1>19. ProgrammedChannels * ElementBytes = packed_surfaces(g) * 16
  <2>1. ProgrammedChannels = 1 + channel
    BY DEF ProgrammedChannels, channel
  <2>2. channel \in Int
    BY <1>8, <1>12 DEF channel
  <2> QED  BY <1>14, <2>1, <2>2
<1>20. InputCube = g /\ OutputCube = g
  BY <1>11 DEF g
<1> QED  BY <1>9, <1>13, <1>18, <1>19, <1>20 DEF KernelReadsWritten, d, w, h
-----------------------------------------------------------------------------
(* A tile starts and ends within the output.                               *)
LEMMA SharedWithin ==
  ASSUME NEW width \in Nat, NEW count \in Nat \ {0}, NEW i \in 0..count
  PROVE  Shared(width, count, i) \in Nat /\ Shared(width, count, i) <= width
<1> DEFINE b == width \div count
           r == width % count
<1>1. b \in Nat /\ r \in Nat /\ r < count /\ width = count * b + r
  OBVIOUS
<1>2. Shared(width, count, i) = i * b + Max2(i - (count - r), 0)
  BY DEF Shared
<1> HIDE DEF b, r
<1>3. PICK m \in Nat : count = i + m
  <2>1. count - i \in Nat /\ count = i + (count - i)
    OBVIOUS
  <2> QED  BY <2>1
<1>4. (i + m) * b = i * b + m * b /\ i * b \in Nat /\ m * b \in Nat /\ i \in Nat
  BY <1>1, <1>3
<1> DEFINE x == i * b
           y == m * b
           z == Max2(i - (count - r), 0)
<1>5. z \in Nat /\ z <= r
  BY <1>1 DEF Max2
<1>6. x \in Nat /\ y \in Nat /\ width = x + y + r
  BY <1>1, <1>3, <1>4
<1> HIDE DEF x, y, z
<1>7. x + z \in Nat /\ x + z <= width
  BY <1>1, <1>5, <1>6
<1> QED  BY <1>2, <1>7 DEF x, z

(* No tile starts outside the output.                                      *)
LEMMA StartWithin ==
  ASSUME NEW s, validate(s), s.precision \in {"int8", "fp16"}, NEW i \in 0..tile_count(s)
  PROVE  StartOf(s, i) \in Nat /\ StartOf(s, i) <= s.output_width
<1>1. CASE avoid_equal_int8_k2_tiles(s)
  <2>1. s.output_width = 128
    BY <1>1 DEF avoid_equal_int8_k2_tiles
  <2>2. StartOf(s, i) = 0 \/ StartOf(s, i) = 63 \/ StartOf(s, i) = 128
    BY <1>1 DEF StartOf
  <2> QED  BY <2>1, <2>2
<1>2. CASE ~avoid_equal_int8_k2_tiles(s)
  <2> DEFINE n == tile_count(s)
             w == s.output_width
  <2>1. n \in Nat \ {0} /\ w \in Nat /\ i \in 0..n
    BY TileCount, ValidExtents DEF Extent
  <2>2. StartOf(s, i) = Shared(w, n, i)
    BY <1>2 DEF StartOf
  <2> HIDE DEF n, w
  <2>3. Shared(w, n, i) \in Nat /\ Shared(w, n, i) <= w
    BY <2>1, SharedWithin
  <2> QED  BY <2>2, <2>3 DEF w
<1> QED  BY <1>1, <1>2

(* The one value a register of a program that fits is given.               *)
LEMMA SoleFits ==
  ASSUME NEW p, FieldsFit(p), NEW reg, NEW name, NEW value,
         Sole(p, reg, Cmd(reg, <<<<name, value>>>>)), reg.fields[name][1] # 32
  PROVE  value >= 0
<1> DEFINE sets == <<<<name, value>>>>
           c == Cmd(reg, sets)
<1>1. PICK i \in 1..Len(p) : p[i] = c
  BY DEF Sole
<1>2. Len(sets) = 1 /\ sets[1][1] = name /\ sets[1][2] = value
  OBVIOUS
<1> HIDE DEF sets
<1>3. c.sets = sets /\ c.reg = reg
  BY CmdIs
<1> HIDE DEF c
<1>4. PICK j \in 1..Len(p[i].sets) : j = 1
  <2>1. Len(p[i].sets) = 1
    BY <1>1, <1>2, <1>3
  <2>2. \E j \in 1..1 : j = 1
    OBVIOUS
  <2> QED  BY <2>1, <2>2
<1>5. BitsNew(p[i].reg.fields[p[i].sets[j][1]][1], p[i].sets[j][2])
  BY <1>4 DEF FieldsFit
<1>6. BitsNew(reg.fields[name][1], value)
  BY <1>1, <1>2, <1>3, <1>4, <1>5
<1> QED  BY <1>6 DEF BitsNew

(* A tile whose program fits reads a column and writes a column.           *)
LEMMA TileNotEmpty ==
  ASSUME NEW s, NEW t, NEW buffers, FieldsFit(build_pooling_tile_task(s, t, buffers))
  PROVE  t.input_width - 1 >= 0 /\ t.output_width - 1 >= 0
<1> DEFINE q == PpuCommands(s, t, buffers.output + t.output_first * 16)
           r == PpuRdmaCommands(s, t, buffers.input + t.input_first * 16)
           p == build_pooling_tile_task(s, t, buffers)
<1>1. (\A i \in 1..16 : Sole(p, q[i].reg, q[i])) /\ (\A i \in 1..7 : Sole(p, r[i].reg, r[i]))
  BY PoolSoles
<1>2. q[4] = Cmd(PpuDataCubeOutWidth, <<<<"cube_out_width", t.output_width - 1>>>>)
  BY Tuple16 DEF PpuCommands
<1>3. r[1] = Cmd(PpuRdmaCubeInWidth, <<<<"cube_in_width", t.input_width - 1>>>>)
  BY Tuple7 DEF PpuRdmaCommands
<1> HIDE DEF p, q, r
<1>4. Sole(p, PpuDataCubeOutWidth, Cmd(PpuDataCubeOutWidth, <<<<"cube_out_width", t.output_width - 1>>>>))
  <2>1. 4 \in 1..16
    OBVIOUS
  <2> QED  BY <1>1, <1>2, <2>1, CmdIs
<1>5. Sole(p, PpuRdmaCubeInWidth, Cmd(PpuRdmaCubeInWidth, <<<<"cube_in_width", t.input_width - 1>>>>))
  <2>1. 1 \in 1..7
    OBVIOUS
  <2> QED  BY <1>1, <1>3, <2>1, CmdIs
<1>6. PpuDataCubeOutWidth.fields["cube_out_width"][1] # 32
      /\ PpuRdmaCubeInWidth.fields["cube_in_width"][1] # 32
  BY DEF PpuDataCubeOutWidth, PpuRdmaCubeInWidth, Reg
<1>7. FieldsFit(p)
  BY DEF p
<1>8. t.output_width - 1 >= 0
  BY <1>4, <1>6, <1>7, SoleFits
<1>9. t.input_width - 1 >= 0
  BY <1>5, <1>6, <1>7, SoleFits
<1> QED  BY <1>8, <1>9
-----------------------------------------------------------------------------
(* The tile a pool's last program runs lies within the image and within    *)
(* the output.                                                             *)
LEMMA TileInside ==
  ASSUME IInv, program # NONE, exec.kernel = "pooling"
  PROVE  LET s == Pooled
             t == tiles[next - 1]
         IN  /\ program = build_pooling_tile_task(s, t, Buffers)
             /\ t.input_first \in Nat /\ Pos(t.input_width)
             /\ t.input_first + t.input_width <= s.input_width
             /\ t.output_first \in Nat /\ Pos(t.output_width)
             /\ t.output_first + t.output_width <= s.output_width
<1> DEFINE s == Pooled
           i == next - 2
           n == tile_count(s)
           t == tiles[next - 1]
           raw_first == TileFirst(s, i) * s.stride_x - s.pad_left
           raw_end == (TileFirst(s, i) + TileWidth(s, i) - 1) * s.stride_x + s.kernel_width - s.pad_left
           from == Max2(raw_first, 0)
           end == Max2(Min2(raw_end, s.input_width), 0)
<1>1. resolved # NONE
  BY DEF IInv, CallInv, PlanInv
<1>2. validate(s) /\ s.precision \in {"int8", "fp16"}
  BY <1>1, PoolIs
<1>3. /\ n \in Nat \ {0} /\ DOMAIN PoolingTiles(s) = 1..n /\ Len(PoolingTiles(s)) = n
  BY <1>2, TileCount
<1>4. /\ tiles = PoolingTiles(s) /\ next - 1 \in 1..Len(tiles) /\ next \in Nat
      /\ program = build_pooling_tile_task(s, t, Buffers) /\ FieldsFit(program)
  BY DEF IInv, PlanInv, ProgramInv
<1>5. s.input_width \in Nat /\ s.output_width \in Nat
  BY <1>2, ValidExtents DEF Extent
<1>6. s.kernel_width \in Nat /\ s.stride_x \in Nat /\ s.pad_left \in Nat
  BY <1>2, ValidWindow, ValidPads
<1>7. t.input_width - 1 >= 0 /\ t.output_width - 1 >= 0
  BY <1>4, TileNotEmpty
<1> HIDE DEF s
<1>8. \A j \in 1..n : tiles[j] = PoolingTile(s, j - 1)
  BY <1>3, <1>4 DEF PoolingTiles
<1>9. t = PoolingTile(s, i) /\ i \in 0..(n - 1) /\ i \in 0..n /\ i + 1 \in 0..n
  BY <1>3, <1>4, <1>8
<1>10. /\ t.output_first = TileFirst(s, i) /\ t.output_width = TileWidth(s, i)
       /\ t.input_first = from /\ t.input_width = end - from
  BY <1>9 DEF PoolingTile
<1>11. TileFirst(s, i) = StartOf(s, i) /\ StartOf(s, i + 1) = StartOf(s, i) + TileWidth(s, i)
  BY <1>2, <1>9, StartsFollow, FirstIs
<1>12. /\ StartOf(s, i) \in Nat /\ StartOf(s, i + 1) \in Nat /\ StartOf(s, i + 1) <= s.output_width
  BY <1>2, <1>9, StartWithin
<1> DEFINE first == TileFirst(s, i)
           width == TileWidth(s, i)
<1>13. width \in Int
  <2>1. n \in Nat /\ i \in Int /\ s.output_width \div n \in Int /\ n - (s.output_width % n) \in Int
    BY <1>3, <1>5, <1>9
  <2>2. \A a, b \in Int : Flag(a >= b) \in Int
    BY DEF Flag
  <2> HIDE DEF n, i
  <2>3. TileWidth(s, i) = IF avoid_equal_int8_k2_tiles(s) THEN (s.output_width \div n) - 1 + 2 * i
                          ELSE (s.output_width \div n) + Flag(i >= n - (s.output_width % n))
    BY DEF TileWidth, n
  <2>4. Flag(i >= n - (s.output_width % n)) \in Int
    BY <2>1, <2>2
  <2> QED  BY <2>1, <2>3, <2>4
<1>14. first \in Nat /\ first + width <= s.output_width
  BY <1>11, <1>12
<1>15. raw_first \in Int /\ raw_end \in Int
  <2> HIDE DEF first, width
  <2>1. first \in Int /\ width \in Int
    BY <1>13, <1>14
  <2>2. \A a, b, c, k \in Int : a * b - c \in Int /\ a * b + k - c \in Int
    OBVIOUS
  <2>3. first + width - 1 \in Int
    BY <2>1
  <2>4. raw_first = first * s.stride_x - s.pad_left
        /\ raw_end = (first + width - 1) * s.stride_x + s.kernel_width - s.pad_left
    BY DEF first, width
  <2> QED  BY <1>6, <2>1, <2>2, <2>3, <2>4
<1> HIDE DEF raw_first, raw_end, first, width, i, n
<1>16. from \in Nat /\ end \in Nat /\ end <= s.input_width
  BY <1>5, <1>15 DEF Max2, Min2
<1> HIDE DEF from, end
<1>17. t.output_first = first /\ t.output_width = width
  BY <1>10 DEF first, width
<1> HIDE DEF t
<1>18. t.input_first \in Nat /\ t.input_width \in Nat \ {0}
       /\ t.input_first + t.input_width <= s.input_width
  BY <1>5, <1>7, <1>10, <1>16
<1>19. t.output_first \in Nat /\ t.output_width \in Nat \ {0}
       /\ t.output_first + t.output_width <= s.output_width
  BY <1>5, <1>7, <1>13, <1>14, <1>17
<1> QED  BY <1>4, <1>18, <1>19 DEF Pos, s, t

(* The corners of the cubes of a pool's program.                           *)
LEMMA PoolCorners ==
  ASSUME IInv, program # NONE, exec.kernel = "pooling"
  PROVE  KernelReadsWritten
<1> DEFINE s == Pooled
           t == tiles[next - 1]
           bytes == ElementBytes
           iw == s.input_width
           ih == s.input_height
           ow == s.output_width
           oh == s.output_height
           channels == s.input_channels
           first == t.input_first
           columns == t.input_width
           begin == t.output_first
           wide == t.output_width
           gi == InputCube
           go == OutputCube
<1>1. resolved # NONE
  BY DEF IInv, CallInv, PlanInv
<1>2. validate(s) /\ s.precision \in {"int8", "fp16"} /\ s.precision = exec.precision
  BY <1>1, PoolIs
<1>3. Pos(iw) /\ Pos(ih) /\ Pos(ow) /\ Pos(oh) /\ Pos(channels)
  BY <1>2, ValidExtents DEF Extent, Pos
<1>4. /\ program = build_pooling_tile_task(s, t, Buffers)
      /\ first \in Nat /\ Pos(columns) /\ first + columns <= iw
      /\ begin \in Nat /\ Pos(wide) /\ begin + wide <= ow
  BY TileInside
<1>5. /\ P(PpuOperationModeCfg, "notch_addr") = ow - wide
      /\ P(PpuDataCubeOutWidth, "cube_out_width") = wide - 1
      /\ P(PpuDataCubeOutChannel, "cube_out_channel") = programmed_channels(s) - 1
      /\ P(PpuDstBaseAddr, "dst_base_addr") = (Buffers.output + begin * 16) \div 16
      /\ P(PpuDstSurfStride, "dst_surf_stride") = surf_stride(ow, oh)
      /\ P(PpuRdmaSrcBaseAddr, "src_base_addr") = Buffers.input + first * 16
      /\ P(PpuRdmaSrcLineStride, "src_line_stride") = iw
      /\ P(PpuRdmaSrcSurfStride, "src_surf_stride") = surf_stride(iw, ih)
  BY <1>4, PoolValues DEF P
<1>6. ReadsBack(program)
  BY ProgramReadsBack
<1>7. bytes \in {1, 2} /\ programmed_channels(s) = packed_channels("Pooling", bytes, channels)
  BY <1>2 DEF ElementBytes, programmed_channels, pool_element_bytes
<1>8. gi = cube_geometry("Pooling", bytes, iw, ih, channels)
      /\ go = cube_geometry("Pooling", bytes, ow, oh, channels)
  BY DEF InputCube, OutputCube
<1> HIDE DEF s, bytes, iw, ih, ow, oh, channels, first, columns, begin, wide, gi, go
<1>9. PoolCubeIs(gi, bytes, iw, ih, channels) /\ PoolCubeIs(go, bytes, ow, oh, channels)
  BY <1>3, <1>7, <1>8, PoolCube
<1>10. PICK si : /\ Filled(gi, si, iw, ih)
                 /\ Counted(packed_channels("Pooling", bytes, channels), bytes, si)
                 /\ gi.surface_pixel_count = next_multiple_of(iw * ih, 4)
  BY <1>9 DEF PoolCubeIs
<1>11. PICK so : /\ Filled(go, so, ow, oh)
                 /\ Counted(packed_channels("Pooling", bytes, channels), bytes, so)
                 /\ go.surface_pixel_count = next_multiple_of(ow * oh, 4)
  BY <1>9 DEF PoolCubeIs
<1> DEFINE ni == gi.surface_pixel_count
           no == go.surface_pixel_count
<1>12. surf_stride(iw, ih) = ni /\ surf_stride(ow, oh) = no
  BY <1>10, <1>11 DEF surf_stride
<1>13. /\ Pos(si) /\ packed_surfaces(gi) = si /\ ni \in Nat /\ ih * iw <= ni
       /\ nc1hwc2_storage_size(ni, gi.packed_bytes_per_pixel) = ni * si * 16
  BY <1>10 DEF Filled, Pos
<1>14. /\ Pos(so) /\ packed_surfaces(go) = so /\ no \in Nat /\ oh * ow <= no
       /\ nc1hwc2_storage_size(no, go.packed_bytes_per_pixel) = no * so * 16
  BY <1>11 DEF Filled, Pos
<1>15. /\ ProgrammedChannels * ElementBytes = packed_surfaces(gi) * 16
       /\ ProgrammedChannels * ElementBytes = packed_surfaces(go) * 16
  <2> DEFINE m == packed_channels("Pooling", bytes, channels)
  <2>1. m \in Int /\ m * bytes = si * 16 /\ m * bytes = so * 16
    BY <1>10, <1>11 DEF Counted
  <2>2. ProgrammedChannels = 1 + (m - 1)
    BY <1>5, <1>7 DEF ProgrammedChannels
  <2> HIDE DEF m
  <2>3. ProgrammedChannels = m
    BY <2>1, <2>2
  <2> QED  BY <1>13, <1>14, <2>1, <2>3 DEF bytes
<1>16. /\ (Buffers.input + first * 16) - Buffers.input = first * 16
       /\ ((Buffers.output + begin * 16) \div 16) * 16 - Buffers.output = begin * 16
  <2> DEFINE x == Buffers.input
             y == Buffers.output
  <2>1. x \in Nat /\ y \in Nat /\ (y % 16) = 0
    BY BuffersAssumption
  <2> HIDE DEF x, y
  <2>2. (x + first * 16) - x = first * 16
    BY <1>4, <2>1
  <2>3. PICK k \in Nat : y = k * 16
    BY <2>1
  <2>4. (k * 16 + begin * 16) \div 16 = k + begin
    BY <1>4
  <2>5. ((y + begin * 16) \div 16) * 16 - y = begin * 16
    BY <1>4, <2>3, <2>4
  <2> QED  BY <2>2, <2>5 DEF x, y
<1> HIDE DEF ni, no
<1>17. wide - 1 + 1 + (ow - wide) = ow
  BY <1>3, <1>4 DEF Pos
<1>18. ASSUME NEW row \in {0, ih - 1}, NEW column \in {0, columns - 1}, NEW block \in {0, si - 1}
       PROVE  InCube(ReadAddress(row, column, block), gi, row * iw + first + column, block)
  <2>1. PICK pixel : pixel = PixelAt(row, iw, first, column)
    OBVIOUS
  <2>2. CornerIs(block, ni, si, pixel)
    <3>1. Inside(first, columns, iw, ih, ni)
      BY <1>3, <1>4, <1>13 DEF Pos, Inside
    <3>2. End(row, ih) /\ End(column, columns) /\ End(block, si)
      BY DEF End
    <3> QED  BY <1>13, <2>1, <3>1, <3>2, Corner
  <2>3. ReadAddress(row, column, block) = first * 16 + (block * ni + row * iw + column) * 16
    BY <1>5, <1>12, <1>16 DEF ReadAddress
  <2> DEFINE x == block * ni
             y == row * iw
  <2>4. x \in Int /\ y \in Int /\ column \in Int /\ first \in Int
    BY <1>3, <1>4, <1>13 DEF Pos
  <2>5. pixel = y + first + column
    BY <2>1 DEF PixelAt
  <2>6. ReadAddress(row, column, block) = first * 16 + (x + y + column) * 16
    BY <2>3
  <2>7. /\ (x + pixel) * 16 = SourceByte(ni, 16, pixel, block * 16)
        /\ (x + pixel) * 16 + 16 <= ni * si * 16
    BY <2>2 DEF CornerIs
  <2>8. row * iw + first + column = pixel
    BY <2>5
  <2> HIDE DEF x, y
  <2>9. ReadAddress(row, column, block) = (x + pixel) * 16
    BY <2>4, <2>5, <2>6
  <2> QED  BY <1>13, <2>7, <2>8, <2>9 DEF InCube, ni
<1>19. ASSUME NEW row \in {0, oh - 1}, NEW column \in {0, wide - 1}, NEW block \in {0, so - 1}
       PROVE  InCube(WriteAddress(row, column, block), go, row * ow + begin + column, block)
  <2>1. PICK pixel : pixel = PixelAt(row, ow, begin, column)
    OBVIOUS
  <2>2. CornerIs(block, no, so, pixel)
    <3>1. Inside(begin, wide, ow, oh, no)
      BY <1>3, <1>4, <1>14 DEF Pos, Inside
    <3>2. End(row, oh) /\ End(column, wide) /\ End(block, so)
      BY DEF End
    <3> QED  BY <1>14, <2>1, <3>1, <3>2, Corner
  <2>3. WriteAddress(row, column, block) = begin * 16 + (block * no + row * ow + column) * 16
    BY <1>5, <1>12, <1>16, <1>17 DEF WriteAddress
  <2> DEFINE x == block * no
             y == row * ow
  <2>4. x \in Int /\ y \in Int /\ column \in Int /\ begin \in Int
    BY <1>3, <1>4, <1>14 DEF Pos
  <2>5. pixel = y + begin + column
    BY <2>1 DEF PixelAt
  <2>6. WriteAddress(row, column, block) = begin * 16 + (x + y + column) * 16
    BY <2>3
  <2>7. /\ (x + pixel) * 16 = SourceByte(no, 16, pixel, block * 16)
        /\ (x + pixel) * 16 + 16 <= no * so * 16
    BY <2>2 DEF CornerIs
  <2>8. row * ow + begin + column = pixel
    BY <2>5
  <2> HIDE DEF x, y
  <2>9. WriteAddress(row, column, block) = (x + pixel) * 16
    BY <2>4, <2>5, <2>6
  <2> QED  BY <1>14, <2>7, <2>8, <2>9 DEF InCube, no
<1>20. InputCube = gi /\ OutputCube = go
  BY DEF gi, go
<1> QED  BY <1>6, <1>13, <1>14, <1>15, <1>18, <1>19, <1>20
         DEF KernelReadsWritten, s, iw, ih, ow, oh, first, columns, begin, wide

(* The program of every tile and of every element-wise kernel steps        *)
(* through the cube the driver packed and the cube it compacts, whatever   *)
(* the shape and wherever the buffers lie: the corners of every surface    *)
(* are at the addresses of the packed layout, none past the scratch.       *)
THEOREM KernelReadsWrittenAlways == Spec => []KernelReadsWritten
<1>1. IInv => KernelReadsWritten
  <2>1. program = NONE => KernelReadsWritten
    BY DEF KernelReadsWritten
  <2> QED  BY <2>1, LaneCorners, PoolCorners
<1> QED  BY <1>1, ExecutableInvariant, PTL
=============================================================================
