------------------------------ MODULE MCOutbox ------------------------------
(* Model-checking instances of Outbox: the constants are set in the cfg files. *)
EXTENDS Outbox, TLC

\* The drains are interchangeable: sound for the safety runs.
Symmetry == Permutations(Workers)
=============================================================================
