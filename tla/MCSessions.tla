------------------------------ MODULE MCSessions ------------------------------
(* Model-checking instance of Sessions: the constants are set in the cfg files. *)
EXTENDS Sessions, TLC

\* Requests are interchangeable, and so are events.
RequestSymmetry == Permutations(Requests) \cup Permutations(Events)
=============================================================================
