---------------------------- MODULE ActionLifecycle ----------------------------
(***************************************************************************)
(* What sessions.rs promises about each action an agent offers: it is      *)
(* offered once, chosen or confirmed from there, handed on once, and what  *)
(* has ended stays as it ended.  Sessions implements it.                   *)
(***************************************************************************)
CONSTANT Actions   \* the actions that may be offered

VARIABLE status    \* the status of each action, "none" before it is offered

Final == {"done", "failed", "expired", "cancelled"}
Statuses == {"none", "offered", "pending_confirm", "queued", "claimed"} \cup Final

\* The statuses an action may take after the one it has.
After ==
  [s \in Statuses |->
     CASE s = "none" -> {"offered"}
       [] s = "offered" -> {"pending_confirm", "queued", "cancelled", "expired"}
       [] s = "pending_confirm" -> {"queued", "cancelled", "expired"}
       [] s = "queued" -> {"claimed", "done", "failed", "expired"}
       [] s = "claimed" -> {"done", "failed", "expired"}
       [] OTHER -> {}]

Init == status = [a \in Actions |-> "none"]

\* Several actions may move at once: a batch of the database chooses one action
\* and withdraws the others.
Next ==
  /\ status' \in [Actions -> Statuses]
  /\ \A a \in Actions : status'[a] = status[a] \/ status'[a] \in After[status[a]]

Spec == Init /\ [][Next]_status
=============================================================================
