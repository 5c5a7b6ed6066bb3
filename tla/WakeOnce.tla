------------------------------ MODULE WakeOnce ------------------------------
(***************************************************************************)
(* What the wake rows of outbox.rs promise to one device about one         *)
(* terminal version of a command: at most one notification, and a record   *)
(* that says `succeeded' or `failed' only if that is what happened and     *)
(* `unknown' otherwise.  ApnsWake implements it.                           *)
(***************************************************************************)
EXTENDS Naturals

VARIABLES
  silent,   \* the deployment sends no notifications
  woken,    \* the notifications that have reached APNs
  verdict   \* "open" until the record is final

Verdicts == {"succeeded", "failed", "unknown"}

Init == silent \in BOOLEAN /\ woken = 0 /\ verdict = "open"

\* A request that is still on its way when the verdict is `unknown' may arrive.
Wake ==
  /\ verdict \in {"open", "unknown"} /\ woken = 0 /\ ~silent
  /\ woken' = 1 /\ UNCHANGED <<silent, verdict>>

Decide(v) ==
  /\ verdict = "open" /\ verdict' = v
  /\ v = "succeeded" => woken = 1 \/ silent
  /\ v = "failed" => woken = 0
  /\ UNCHANGED <<silent, woken>>

Next == Wake \/ \E v \in Verdicts : Decide(v)

Spec == Init /\ [][Next]_<<silent, woken, verdict>>
=============================================================================
