----------------------------- MODULE MCReminders ----------------------------
(* Model-checking instance of Reminders: the constants are set in the cfg      *)
(* file.  No symmetry, because the run checks liveness properties too.         *)
EXTENDS Reminders
=============================================================================
