------------------------------- MODULE MCUndo -------------------------------
(* Model-checking instances of Undo: the constants are set in the cfg files.   *)
(* No symmetry, because the runs check liveness properties too.                *)
EXTENDS Undo
=============================================================================
