--------------------------- MODULE MCConfirmation ---------------------------
(* Model-checking instance of Confirmation: the constants are set in the cfg   *)
(* file.  No symmetry, because the run checks a liveness property too.         *)
EXTENDS Confirmation
=============================================================================
