-------------------------- MODULE MCCommandBuffer --------------------------
(***************************************************************************)
(* Sites for programs over 4 pixels of 16 channels (8 cells of fp16),      *)
(* one of 3 pixels whose PPU surfaces are padded, and halves of them.      *)
(***************************************************************************)
EXTENDS CommandBuffer

Tensor(w, c) == [element_bytes |-> 2, width |-> w, height |-> 1, channels |-> c]
Even == Tensor(4, 16)
Odd == Tensor(3, 16)
Thin == Tensor(2, 8)
Spec_(kind, cube, tensor, at) == [kind |-> kind, cube |-> cube, tensor |-> tensor, at |-> at]

Site(op, kind, reads, out) ==
  [op |-> op, kind |-> kind, reads |-> reads, out |-> out,
   declares |-> TRUE, tiled |-> FALSE, tied |-> FALSE]
Conv(t) == Site("dispatch", "Conv", <<Spec_("Conv", TRUE, t, 0)>>, t)
Weighted(t) ==
  Site("dispatch", "Conv", <<Spec_("Conv", TRUE, t, 0), Spec_("Conv", FALSE, Thin, 2)>>, t)
Pool(t) == Site("dispatch", "Pooling", <<Spec_("Pooling", TRUE, t, 0)>>, t)
Add(t) == Site("dispatch", "Elementwise",
               <<Spec_("Elementwise", TRUE, t, 0), Spec_("Elementwise", TRUE, t, 0)>>, t)
Tiled(t) == [Conv(t) EXCEPT !.tiled = TRUE]
Legacy(t) == [Conv(t) EXCEPT !.declares = FALSE]
Copy == Site("copy", "Conv", <<Spec_("Conv", FALSE, Thin, 0)>>, Thin)
Fill == Site("fill", "Conv", <<>>, Even)
Patch == [Site("fill", "Conv", <<>>, Thin) EXCEPT !.tied = TRUE]
Host(t) == Site("host", "Conv", <<Spec_("Conv", FALSE, t, 0)>>, Tensor(0, 16))

(* A producer, a reader or an overwrite, a reader that may spoil the       *)
(* chain, and a last reader.                                               *)
MCMenu ==
  <<{Conv(Even), Tiled(Even), Pool(Odd)},
    {Conv(Even), Pool(Even), Conv(Odd), Pool(Odd), Fill},
    {Weighted(Even), Add(Even), Legacy(Even), Pool(Odd), Copy, Patch},
    {Conv(Even), Host(Odd)}>>
MCPlaces == {0, 8}
=============================================================================
