---------------------------- MODULE MCLifetimes ----------------------------
(***************************************************************************)
(* Devices of two contexts, and scratch of the 512 KiB class: a budget one *)
(* byte short of 1 MiB keeps one such buffer and a register program, never *)
(* two of them.                                                            *)
(***************************************************************************)
EXTENDS Lifetimes

MCRequests == {300 * KIB}
=============================================================================
