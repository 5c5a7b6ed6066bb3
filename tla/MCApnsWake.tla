----------------------------- MODULE MCApnsWake -----------------------------
(* Model-checking instance of ApnsWake: the constants are set in the cfg file. *)
(* No symmetry, because the run checks a liveness property too.                *)
EXTENDS ApnsWake
=============================================================================
