---------------------------- MODULE MCExecutable ----------------------------
(***************************************************************************)
(* Targets, files and dispatches for the executable.                       *)
(***************************************************************************)
EXTENDS Executable, TLC

MCBuffers == [input |-> 1048576, output |-> 4194304, operand |-> 8388608]

(* A target of a kernel with the fields it does not set left as every      *)
(* table has them; its push constants are the ones it declares.            *)
Base(kernel, dims, runtime, op, precision) ==
  [kernel |-> kernel, runtime |-> runtime, op |-> op, precision |-> precision,
   dims |-> [n \in DimNames(kernel) |-> IF n \in Listed(runtime) THEN 0 ELSE dims[n]],
   activation |-> "none", epilogue |-> "none", pads |-> <<0, 0, 0, 0>>, out |-> <<0, 0>>,
   zps |-> <<0, 0, 0>>, scales |-> <<0, 0, 0>>, quant |-> <<>>, layout |-> FALSE,
   dense_readers |-> FALSE, operand |-> 0, exports |-> 1, constants |-> 0]
Counted(t) == [t EXCEPT !.constants = ConstantCount(t)]
-----------------------------------------------------------------------------
(* Pools.                                                                  *)

PoolDims(window, channels) ==
  [input_width |-> 6, input_height |-> 6, channels |-> channels,
   kernel_width |-> window[1], kernel_height |-> window[2],
   stride_x |-> window[3], stride_y |-> window[4]]
Extents == <<"input_width", "input_height">>
Every == <<"stride_y", "stride_x", "kernel_height", "input_height", "input_width", "channels",
           "kernel_width">>

Windows == {<<1, 1, 1, 1>>, <<2, 2, 2, 2>>, <<2, 2, 1, 1>>, <<3, 3, 1, 1>>, <<3, 3, 2, 2>>,
            <<5, 5, 2, 2>>, <<3, 5, 1, 1>>, <<4, 4, 4, 4>>, <<8, 8, 3, 8>>, <<2, 3, 3, 2>>}

RuntimePools ==
  {Counted([Base("pooling", PoolDims(w, c), Extents, op, p) EXCEPT !.pads = pads]) :
     w \in Windows, op \in {"avg", "max"}, p \in {"int8", "fp16"}, c \in {3, 24},
     pads \in {<<0, 0, 0, 0>>, <<1, 1, 1, 1>>, <<0, 1, 2, 0>>}}
  \cup {Counted([Base("pooling", PoolDims(<<2, 2, 2, 2>>, 8), Every, "min", p)
                   EXCEPT !.layout = b, !.dense_readers = ~b]) :
          p \in {"int8", "fp16"}, b \in BOOLEAN}

StaticPools ==
  {[Counted([Base("pooling", PoolDims(w, 8), <<>>, "max", "fp16")
               EXCEPT !.out = out, !.layout = b]) EXCEPT !.exports = n] :
     w \in {<<2, 2, 2, 2>>, <<3, 3, 1, 1>>, <<8, 8, 1, 1>>}, out \in {<<3, 3>>, <<4, 4>>, <<0, 0>>},
     b \in BOOLEAN, n \in {1, 2}}

(* Every pool the matchers of the compiler admit, at channels that matter  *)
(* for none of them.                                                       *)
AdmittedPools ==
  {Counted(Base("pooling", PoolDims(<<kw, kh, s, s>>, 8), Extents, op, "fp16")) :
     kw \in {2, 3, 5}, kh \in {2, 3, 5}, s \in {1, 2}, op \in {"max", "avg"}}
-----------------------------------------------------------------------------
(* Convolutions and matmuls.                                               *)

ConvDims == [input_width |-> 14, input_height |-> 14, input_channels |-> 24,
             output_channels |-> 64, weights_width |-> 3, weights_height |-> 3]
Quants == {<<>>, <<"output_scale">>, <<"output_zero_point", "input_zero_point">>,
           <<"output_zero_point", "output_scale", "input_zero_point">>}
ConvRuntimes == {<<>>, <<"input_width">>, <<"output_channels", "input_height", "weights_width">>}

Convs ==
  {Counted([Base("conv2d", ConvDims, r, "none", p)
              EXCEPT !.quant = q, !.activation = a, !.zps = <<z, 3 * z, 0>>, !.layout = b,
                     !.scales = <<0, n, IF "output_scale" \in Listed(q) THEN ZERO_SCALE ELSE 0>>]) :
     r \in ConvRuntimes, p \in {"int8", "fp16", "int8acc"}, q \in Quants,
     a \in {"none", "relux"}, z \in {0, -5}, b \in BOOLEAN,
     n \in {-3, 14, 15, NEGATIVE_SCALE}}
  \cup {Counted([Base("conv2d", ConvDims, <<"input_width">>, "none", "fp16")
                   EXCEPT !.epilogue = e, !.dense_readers = TRUE, !.layout = b]) :
          e \in {"none", "relu", "relux"}, b \in BOOLEAN}

Matmuls ==
  {Counted([Base("matmul", [m |-> 3, k |-> 64, n |-> 32], r, "none", p)
              EXCEPT !.dense_readers = b, !.activation = a]) :
     r \in {<<>>, <<"n", "m">>}, p \in {"int8", "fp16", "int8acc"}, b \in BOOLEAN,
     a \in {"none", "relu"}}
  \cup {Counted(Base("fully_connected", [m |-> 1, k |-> 64, n |-> nn], <<>>, "none", p)) :
          nn \in {0, 32}, p \in {"int8", "fp16"}}
-----------------------------------------------------------------------------
(* Element-wise operations.                                                *)

EwRuntime == <<"channels", "width", "height">>
EwDims == [width |-> 5, height |-> 3, channels |-> 20]
Ew(kernel, op, p) == Base(kernel, EwDims, EwRuntime, op, p)

Units ==
  {Counted([Ew("elementwise_unary", op, "fp16") EXCEPT !.operand = x, !.layout = b]) :
     op \in EwUnaryOps, x \in {0, -1065353216}, b \in BOOLEAN}
  \cup {Counted([Ew("elementwise_binary", op, "fp16") EXCEPT !.dense_readers = b]) :
          op \in EwBinaryOps, b \in BOOLEAN}
  \cup {Base("elementwise_binary", [EwDims EXCEPT !["width"] = w], <<>>, "add", "fp16") :
          w \in {0, 5}}
  \cup {[Ew("elementwise_unary", "abs", "fp16") EXCEPT !.constants = 2],
        [Ew("elementwise_unary", "abs", "fp16") EXCEPT !.runtime = <<"width", "width">>]}

Curves ==
  {Counted([Ew("elementwise_lut", op, "int8")
              EXCEPT !.zps = z, !.scales = scales]) :
     op \in LutFunctions, z \in {<<0, 0, 0>>, <<-128, -128, 0>>, <<127, 5, 0>>, <<-2, -1, 0>>},
     scales \in {<<-4, 0, -7>>, <<0, 0, 0>>, <<3, 0, -30>>, <<-61, 0, 2>>}}
  \cup {Counted([Ew("elementwise_lut", "tanh", "int8") EXCEPT !.zps = z, !.scales = scales]) :
          z \in {<<1, 0, 0>>, <<0, 128, 0>>, <<0, 0, 0>>},
          scales \in {<<0, 0, 0>>, <<ZERO_SCALE, 0, 0>>, <<0, 0, INFINITE_SCALE>>}}

MCTargets == RuntimePools \cup StaticPools \cup Convs \cup Matmuls \cup Units \cup Curves
-----------------------------------------------------------------------------
(* Files another producer wrote.                                           *)

Whole == Encode(Counted(Ew("elementwise_unary", "abs", "fp16")))
WholeConv == Encode(Counted(Base("conv2d", ConvDims, <<"input_width">>, "none", "fp16")))
MCForeign ==
  {Whole, [Whole EXCEPT !.header = FALSE], [Whole EXCEPT !.exports = 2],
   [Whole EXCEPT !.op = 9], [Whole EXCEPT !.dims["channels"] = 4],
   [Whole EXCEPT !.layout = TRUE, !.dense_readers = TRUE], [Whole EXCEPT !.format = ""],
   [Whole EXCEPT !.format = "rocket-v9"],
   WholeConv, [WholeConv EXCEPT !.runtime = <<3>>], [WholeConv EXCEPT !.precision = 7],
   [WholeConv EXCEPT !.quant = <<1>>], [WholeConv EXCEPT !.epilogue = 2],
   [WholeConv EXCEPT !.activation = 3]}
  \cup {[format |-> "rocket-conv2d-v1", tag |-> tag,
         payload |-> IF whole THEN decode_flatbuffer_shape(WholeConv) ELSE NONE] :
          tag \in 0..3, whole \in BOOLEAN}
-----------------------------------------------------------------------------
(* Dispatches: one value for each word the caller was told to push.        *)

ValuesOf(e, name) ==
  CASE name \in {"input_width"} /\ e.kernel = "pooling" ->
         IF Len(e.runtime) > 2 THEN {9, 131} ELSE {1, 7, 24, 35, 64, 130, 257}
    [] name = "input_height" /\ e.kernel = "pooling" -> {1, 6, 9}
    [] name = "output_scale" -> {-2, 3, -20, NEGATIVE_SCALE}
    [] name \in {"input_zero_point", "output_zero_point"} -> {-7, 9}
    [] name = "channels" -> IF e.kernel = "pooling" THEN {8, 8193} ELSE {0, 20, 33}
    [] name = "width" -> {1, 8193}
    [] name = "height" -> {3}
    [] OTHER -> {2, 3}

NamesOf(e) == e.runtime \o e.quant

MCDispatchesOf(e) ==
  LET names == NamesOf(e)
      Words(v) == [i \in DOMAIN names |-> v[names[i]]]
      Tail1(i, r) == IF e.layout THEN <<i + HalfWord * r>>
                     ELSE IF e.dense_readers THEN <<r>> ELSE <<>>
      Choices[i \in 0..Len(names)] ==
        IF i = 0 THEN {<<>>}
        ELSE {(names[i] :> x) @@ v : v \in Choices[i - 1], x \in ValuesOf(e, names[i])}
      All == Choices[Len(names)]
      Call(v, i, r) == [words |-> Words(v) \o Tail1(i, r), values |-> v, inputs |-> i,
                        readers |-> r, bindings |-> 3, short |-> {}]
  IN  {Call(v, 0, 0) : v \in All}
      \cup (IF Trailing(e) THEN {Call(v, 5, 2) : v \in All} ELSE {})
      \cup (IF e.kernel \in {"elementwise_binary", "elementwise_unary"}
            THEN {[Call(v, 0, 0) EXCEPT !.bindings = 2] : v \in All}
                 \cup {[Call(v, 0, 0) EXCEPT !.short = {3}] : v \in All}
                 \cup {[Call(v, 0, 0) EXCEPT !.words = <<>>] : v \in All}
            ELSE {})
=============================================================================
