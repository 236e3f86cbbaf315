------------------------------ MODULE MCDispatch ------------------------------
(* Small instances of Dispatch for TLC. *)
EXTENDS Dispatch, TLC

Shape(mode, tiles, epilogue) == [mode |-> mode, tiles |-> tiles, epilogue |-> epilogue]

\* The mode transition with one tile, a dispatch that fans out, and one with a
\* residual epilogue.
SingleShapes == {Shape("dense", 1, FALSE), Shape("depthwise", 1, FALSE)}
TiledShapes  == {Shape("dense", 2, FALSE), Shape("depthwise", 1, TRUE)}
FannedShapes == {Shape("dense", 2, FALSE)}

\* Cores are interchangeable.
SwapCores == Permutations(Cores)
=============================================================================
