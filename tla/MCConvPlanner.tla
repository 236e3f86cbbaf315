--------------------------- MODULE MCConvPlanner ---------------------------
(***************************************************************************)
(* Descriptors for the planner.                                            *)
(***************************************************************************)
EXTENDS ConvPlanner

Default == <<-1, -1>>
Sq(k) == <<k, k>>

Conv(w, h, st, cin, cout, p, ks, pad, dw) ==
  [entry |-> "conv", width |-> w, height |-> h, stride |-> st, in_channels |-> cin,
   out_channels |-> cout, precision |-> p, kernels |-> ks, pad |-> pad, depthwise |-> dw,
   activation |-> "none", zero_point |-> FALSE, banks |-> <<>>]

MCBuffers == [input |-> 1048576, weights |-> 4194304, bias |-> 8388608, output |-> 16777216]

(* Convolutions the compiler claims: kernels 1 and 3, every precision and  *)
(* stride, one tile to many.                                               *)
Claimed ==
  {Conv(x[1], x[2], st, cin, 64, p, Sq(k), Default, FALSE) :
     x \in {<<14, 14>>, <<160, 8>>}, st \in 1..4, cin \in {24, 160, 512},
     p \in {"fp16", "int8acc", "int8"}, k \in {1, 3}}
  \cup {Conv(14, 14, st, cin, 64, p, Sq(3), Default, FALSE) :
          st \in 1..3, cin \in {1152, 1216, 2048}, p \in {"fp16", "int8acc", "int8"}}
  \cup {Conv(113, 57, st, cin, 64, p, Sq(3), pad, FALSE) :
          st \in 1..3, cin \in {24, 100}, p \in {"fp16", "int8acc", "int8"},
          pad \in {Default, <<0, 0>>}}
  \cup {Conv(14, 14, 1, cin, 64, p, Sq(k), Default, FALSE) :
          cin \in {32, 96, 704}, p \in Precisions, k \in {1, 3}}
  \cup {Conv(x[1], x[2], st, c, c, p, Sq(k), Default, TRUE) :
          x \in {<<14, 14>>, <<113, 57>>}, st \in {1, 2}, c \in {24, 144, 1344},
          p \in {"fp16", "int8acc", "int8"}, k \in {1, 3}}

(* Kernels beyond 3x3, square, even and rectangular.                       *)
Large ==
  {Conv(x[1], x[2], st, cin, 64, p, ks, Default, FALSE) :
     x \in {<<20, 20>>, <<90, 13>>}, st \in {1, 2}, cin \in {3, 40, 64, 208},
     p \in {"fp16", "int8"},
     ks \in {Sq(k) : k \in {2, 4, 5, 7, 8, 9, 11}} \cup {<<3, 5>>, <<7, 1>>, <<2, 4>>}}
  \cup {Conv(256, 32, 1, x[1], 64, "fp16", Sq(x[2]), Default, FALSE) :
          x \in {<<64, 9>>, <<48, 11>>, <<64, 11>>}}
  \cup {[Conv(256, 32, 1, 48, 64, "fp16", Sq(11), Default, FALSE)
           EXCEPT !.entry = "banks", !.banks = <<d, 12 - d>>] : d \in {1, 4, 5}}
  \cup {Conv(20, 20, 1, cin, 128, "int4", Sq(7), Default, FALSE) : cin \in {192, 224}}

(* Feature maps of at most four channels, whose rows end inside an atom.   *)
DenseMaps ==
  {Conv(w, h, st, cin, 32, p, Sq(3), pad, FALSE) :
     w \in {5, 255, 1021}, h \in {9, 40}, st \in {1, 2, 3}, cin \in 1..4,
     p \in {"fp16", "int8"}, pad \in {Default, <<0, 0>>}}
  \cup {Conv(w, 2, st, cin, 32, "fp16", Sq(3), Default, FALSE) :
          w \in {2047, 2048, 2049}, st \in {1, 2}, cin \in {3, 16, 40}}

(* Tilings of small images, under explicit splits that leave one to three  *)
(* rows, or four columns, to a tile.                                       *)
Tight ==
  {[Conv(w, h, st, 4096, 16, "fp16", ks, pad, FALSE)
      EXCEPT !.entry = "banks", !.banks = <<d, 12 - d>>] :
     w \in {4, 19, 37}, h \in {3, 8}, st \in 1..3, ks \in {Sq(1), Sq(3), <<2, 5>>},
     pad \in {Default, <<0, 1>>}, d \in {0, 1, 3, 7}}

Matmuls ==
  {[Conv(m, 1, 1, k, n, p, Sq(1), <<0, 0>>, FALSE) EXCEPT !.entry = "matmul"] :
     m \in {0, 1, 197, 1035, 2047}, k \in {3, 8, 32, 512, 4096}, n \in {10, 1000},
     p \in {"fp16", "int8acc"}}
  \cup {[Conv(m, 1, 1, k, 512, "fp16", Sq(1), <<0, 0>>, FALSE) EXCEPT !.entry = "matmul"] :
          m \in {2048, 4096, 4097}, k \in {32, 64, 512, 2048}}

(* One descriptor for each register the planner does not bound, but for    *)
(* the image of 2^25 pixels or more that DpuSurfaceAdd cannot hold.        *)
Oversized ==
  {Conv(14, 14, 8, 24, 64, "fp16", Sq(1), Default, FALSE),
   Conv(2047, 2, 1, 8, 16, "fp16", Sq(2), Default, FALSE),
   Conv(12000, 1, 1, 64, 16, "fp16", Sq(1), Default, FALSE),
   [Conv(2, 2, 1, 4096, 16, "fp16", Sq(11), Default, FALSE)
      EXCEPT !.entry = "banks", !.banks = <<6, 6>>]}

Malformed ==
  {Conv(0, 8, 1, 8, 8, "fp16", Sq(1), Default, FALSE),
   Conv(8, 8, 1, 8, 8, "fp16", Sq(12), Default, FALSE),
   Conv(8, 8, 1, 8, 8, "fp16", Sq(3), <<-1, 1>>, FALSE),
   Conv(8, 8, 1, 8, 8, "fp16", Sq(3), <<3, 1>>, FALSE),
   Conv(8, 8, 1, 8, 8, "fp16", Sq(3), <<16, 1>>, FALSE),
   Conv(2, 2, 1, 8, 8, "fp16", Sq(11), <<1, 1>>, FALSE),
   Conv(8, 8, 1, 8, 16, "fp16", Sq(3), Default, TRUE),
   Conv(65536, 65536, 1, 8, 16, "fp16", Sq(3), Default, FALSE),
   Conv(16, 16, 1, 4096, 4096, "tf32", Sq(8), Default, FALSE),
   [Conv(8, 8, 1, 8, 8, "int8acc", Sq(1), Default, FALSE) EXCEPT !.zero_point = TRUE],
   [Conv(8, 8, 1, 8, 8, "int8acc", Sq(1), Default, FALSE) EXCEPT !.activation = "relu"]}

Filters ==
  {[Conv(8, 8, 1, cin, cout, p, ks, Default, FALSE) EXCEPT !.entry = "pack"] :
     cin \in {3, 24, 33, 40, 88}, cout \in {1, 17, 34}, p \in Precisions, ks \in {Sq(1), <<2, 3>>, Sq(0)}}
  \cup {[Conv(8, 8, 1, c, c, p, ks, Default, TRUE) EXCEPT !.entry = "pack"] :
          c \in {8, 24, 40, 80, 144}, p \in {"fp16", "int8", "int8acc"}, ks \in {Sq(1), Sq(3), Sq(0)}}
  \cup {[Conv(8, 1, 1, k, n, "fp16", Sq(1), Default, FALSE) EXCEPT !.entry = "pack_matmul"] :
          k \in {20, 50}, n \in {15, 40}}

Cube(kind, e, w, h, c) ==
  [kind |-> kind, element_bytes |-> e, width |-> w, height |-> h, channels |-> c]
Chains ==
  [entry : {"chain"},
   producer : {Cube(k, e, w, 2, c) : k \in CubeKinds, e \in {1, 2}, w \in {2, 3}, c \in {8, 24}},
   consumer : {Cube(k, e, w, 2, c) : k \in CubeKinds, e \in {0, 1, 2}, w \in {2, 3}, c \in {8, 16, 24}}]

MCCalls ==
  Claimed \cup Large \cup DenseMaps \cup Tight \cup Matmuls \cup Oversized \cup Malformed \cup Filters \cup Chains
=============================================================================
