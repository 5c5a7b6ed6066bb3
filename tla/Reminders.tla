----------------------------- MODULE Reminders ------------------------------
(***************************************************************************)
(* Delivery of a local reminder that has come due: reminders.rs, with      *)
(* notify_user of push.rs, against Undo and the deletion of the session.   *)
(*                                                                         *)
(* Reminders do not affect each other, so the module follows one.  Drains  *)
(* overlap: the cron trigger starts one every minute and none waits for    *)
(* another.  A claim has no token: its only fence is the row's state, and  *)
(* its age is that of updated_at, which is the time the page was read.     *)
(*                                                                         *)
(* Abstractions: a timestamp is a flag that time sets (claimed.old,        *)
(* drain[d].old: more than LEASE_SECONDS ago); the user has one device.    *)
(***************************************************************************)
EXTENDS Integers, FiniteSets

CONSTANTS
  Drains,        \* the overlapping drains
  Modes,         \* the values of PUSH_MODE deployments have, with APNs configured
  MaxAttempts,   \* MAX_ATTEMPTS, 3 in the code
  FaultBound     \* bound of the model: crashes, failed calls, stalls

ASSUME ModesAssumption == Modes \subseteq {"dev", "apns", "both"}
ASSUME BoundsAssumption == MaxAttempts \in Nat \ {0} /\ FaultBound \in Nat

VARIABLES
  mode,      \* PUSH_MODE of the deployment, fixed
  reminder,  \* the row: status, notification_state, notification_attempts, age of updated_at
  due,       \* due_at has passed
  deleted,   \* the session has been deleted
  drain,     \* the drains
  inbox,     \* the pushes rows under the dedupe key of the reminder
  alerts,    \* history: the APNs alerts the device has received
  faults     \* how much of FaultBound is used

vars == <<mode, reminder, due, deleted, drain, inbox, alerts, faults>>

-----------------------------------------------------------------------------
Statuses == {"scheduled", "cancelled", "completed"}
NotificationStates == {"pending", "processing", "retrying", "sent", "failed", "cancelled"}
PCs == {"idle", "recover", "page", "claim", "inbox", "alert", "fallback", "sent", "error"}
Delivering == {"inbox", "alert", "fallback", "sent", "error"}

Idle == [pc |-> "idle", attempts |-> 0, old |-> FALSE]

TypeOK ==
  /\ mode \in Modes
  /\ reminder \in [status : Statuses, state : NotificationStates,
                   attempts : 0..MaxAttempts, old : BOOLEAN]
  /\ due \in BOOLEAN /\ deleted \in BOOLEAN
  /\ drain \in [Drains -> [pc : PCs, attempts : 0..MaxAttempts, old : BOOLEAN]]
  /\ inbox \in Nat /\ alerts \in Nat /\ faults \in 0..FaultBound

\* create_reminder inserts the row; the session may be gone by then.
Init ==
  /\ mode \in Modes
  /\ reminder = [status |-> "scheduled", state |-> "pending", attempts |-> 0, old |-> FALSE]
  /\ due = FALSE /\ deleted \in BOOLEAN
  /\ drain = [d \in Drains |-> Idle]
  /\ inbox = 0 /\ alerts = 0 /\ faults = 0

-----------------------------------------------------------------------------
Goto(d, pc) == drain' = [drain EXCEPT ![d].pc = pc]
Leave(d) == drain' = [drain EXCEPT ![d] = Idle]
Fault == faults < FaultBound /\ faults' = faults + 1

pushVars == <<inbox, alerts>>
worldVars == <<mode, due, deleted>>

Scheduled == reminder.status = "scheduled"
Processing == reminder.state = "processing"

CancelForDeletedSession ==
  reminder' = [reminder EXCEPT !.status = "cancelled", !.state = "cancelled", !.old = FALSE]

\* A barrier that trusts the deletion to have cancelled what was not claimed.
Orphaned_ClaimedOnly == Scheduled /\ deleted /\ Processing

\* The rows cancel_deleted_session_reminders finds.
Orphaned == Scheduled /\ deleted

SweepDeleted(d) ==
  /\ drain[d].pc = "idle" /\ Goto(d, "recover")
  /\ IF Orphaned THEN CancelForDeletedSession ELSE UNCHANGED reminder
  /\ UNCHANGED <<faults, pushVars, worldVars>>

\* The state recover_stale_claims gives an expired claim.
RecoveredState == IF reminder.attempts >= MaxAttempts THEN "failed" ELSE "retrying"

RecoverStale(d) ==
  /\ drain[d].pc = "recover" /\ Goto(d, "page")
  /\ IF Scheduled /\ Processing /\ reminder.old
     THEN reminder' = [reminder EXCEPT !.state = RecoveredState, !.old = FALSE]
     ELSE UNCHANGED reminder
  /\ UNCHANGED <<faults, pushVars, worldVars>>

\* A claim that takes a row another drain is delivering.
Claimable_Processing ==
  /\ Scheduled /\ reminder.state \in {"pending", "retrying", "processing"}
  /\ reminder.attempts < MaxAttempts /\ due /\ ~deleted

\* The condition the page and the claim share.
Claimable ==
  /\ Scheduled /\ reminder.state \in {"pending", "retrying"}
  /\ reminder.attempts < MaxAttempts /\ due /\ ~deleted

\* The page is read; its rows are snapshots.
ReadPage(d) ==
  /\ drain[d].pc = "page"
  /\ \/ /\ Claimable
        /\ drain' = [drain EXCEPT ![d] = [pc |-> "claim", attempts |-> reminder.attempts,
                                          old |-> FALSE]]
     \/ ~Claimable /\ Leave(d)
  /\ UNCHANGED <<reminder, faults, pushVars, worldVars>>

\* claim: compare-and-set.  updated_at becomes the time the page was read.
Claim(d) ==
  /\ drain[d].pc = "claim"
  /\ \/ /\ Claimable
        /\ reminder' = [reminder EXCEPT !.state = "processing", !.attempts = @ + 1,
                                        !.old = drain[d].old]
        /\ Goto(d, IF mode = "apns" THEN "alert" ELSE "inbox")
     \/ ~Claimable /\ Leave(d) /\ UNCHANGED reminder
  /\ UNCHANGED <<faults, pushVars, worldVars>>

-----------------------------------------------------------------------------
(* deliver: notify_user. *)

\* INSERT OR IGNORE by the dedupe key.
Enqueued == IF inbox = 0 THEN 1 ELSE inbox

\* The inbox row comes first in the modes that keep one ...
EnqueueInbox(d) ==
  /\ drain[d].pc = "inbox" /\ inbox' = Enqueued
  /\ Goto(d, IF mode = "both" THEN "alert" ELSE "sent")
  /\ UNCHANGED <<reminder, alerts, faults, worldVars>>

\* An unsent alert that is not made up for.
AfterUnsent_NoFallback == "sent"

\* Where notify_user goes on when no alert is known to be sent.
AfterUnsent == IF mode = "apns" THEN "fallback" ELSE "sent"

\* ... then the alert; APNs may refuse it, its answer may be lost, or there may
\* be no device ...
SendAlert(d) ==
  /\ drain[d].pc = "alert"
  /\ \/ alerts' = alerts + 1 /\ Goto(d, "sent")
     \/ alerts' \in {alerts, alerts + 1} /\ Goto(d, AfterUnsent)
  /\ UNCHANGED <<reminder, inbox, faults, worldVars>>

\* ... and what was not sent at all goes to the inbox.
EnqueueFallback(d) ==
  /\ drain[d].pc = "fallback" /\ inbox' = Enqueued /\ Goto(d, "sent")
  /\ UNCHANGED <<reminder, alerts, faults, worldVars>>

\* A database call of notify_user fails before the alert is sent, or after none
\* could be.
DeliveryFails(d) ==
  /\ drain[d].pc \in {"inbox", "alert", "fallback"} /\ Fault /\ Goto(d, "error")
  /\ UNCHANGED <<reminder, pushVars, worldVars>>

\* A completion that only looks for the claim.
Finishable_Processing == Processing

\* The condition of finish_sent and finish_error: no token tells whose claim.
Finishable == Scheduled /\ Processing

FinishSent(d) ==
  /\ drain[d].pc = "sent" /\ Leave(d)
  /\ IF Finishable
     THEN reminder' = [reminder EXCEPT !.status = "completed", !.state = "sent", !.old = FALSE]
     ELSE UNCHANGED reminder
  /\ UNCHANGED <<faults, pushVars, worldVars>>

\* An off-by-one in attempts_exhausted.
AttemptsExhausted_OffByOne(n) == n >= MaxAttempts

\* attempts_exhausted, of the attempts the page has read.
AttemptsExhausted(n) == n + 1 >= MaxAttempts

FinishError(d) ==
  /\ drain[d].pc = "error" /\ Leave(d)
  /\ IF Finishable
     THEN reminder' = [reminder EXCEPT !.old = FALSE,
            !.state = IF AttemptsExhausted(drain[d].attempts) THEN "failed" ELSE "retrying"]
     ELSE UNCHANGED reminder
  /\ UNCHANGED <<faults, pushVars, worldVars>>

-----------------------------------------------------------------------------
(* What happens meanwhile. *)

\* The isolate is evicted, or a call outside notify_user fails and ends the drain.
Crash(d) ==
  /\ drain[d].pc # "idle" /\ Fault /\ Leave(d)
  /\ UNCHANGED <<reminder, pushVars, worldVars>>

Held == \E d \in Drains : drain[d].pc \in Delivering

\* A claim nobody works on outlives LEASE_SECONDS ...
ClaimAges ==
  /\ Processing /\ ~reminder.old /\ ~Held
  /\ reminder' = [reminder EXCEPT !.old = TRUE]
  /\ UNCHANGED <<drain, faults, pushVars, worldVars>>

\* ... or its drain is slower than that ...
Stall ==
  /\ Processing /\ ~reminder.old /\ Held /\ Fault
  /\ reminder' = [reminder EXCEPT !.old = TRUE]
  /\ UNCHANGED <<drain, pushVars, worldVars>>

\* ... or has spent as long on the rows before this one.
PageAges(d) ==
  /\ drain[d].pc = "claim" /\ ~drain[d].old /\ Fault
  /\ drain' = [drain EXCEPT ![d].old = TRUE]
  /\ UNCHANGED <<reminder, pushVars, worldVars>>

BecomesDue ==
  /\ ~due /\ due' = TRUE
  /\ UNCHANGED <<mode, reminder, deleted, drain, faults, pushVars>>

\* The condition of undo_effect_update_sql.
Undoable == Scheduled

\* finalize_undo_transaction, of a reminder in D1: notification_state is kept.
Undo ==
  /\ Undoable /\ reminder' = [reminder EXCEPT !.status = "cancelled"]
  /\ UNCHANGED <<drain, faults, pushVars, worldVars>>

\* phone_delete_session: the reminders of the session are cancelled with it.
DeleteSession ==
  /\ ~deleted /\ deleted' = TRUE
  /\ IF Scheduled THEN CancelForDeletedSession ELSE UNCHANGED reminder
  /\ UNCHANGED <<mode, due, drain, faults, pushVars>>

DrainStep(d) ==
  \/ SweepDeleted(d) \/ RecoverStale(d) \/ ReadPage(d) \/ Claim(d)
  \/ EnqueueInbox(d) \/ SendAlert(d) \/ EnqueueFallback(d)
  \/ FinishSent(d) \/ FinishError(d)

Next ==
  \/ \E d \in Drains : DrainStep(d) \/ DeliveryFails(d) \/ Crash(d) \/ PageAges(d)
  \/ ClaimAges \/ Stall \/ BecomesDue \/ Undo \/ DeleteSession

Spec == Init /\ [][Next]_vars

\* The cron trigger starts a drain every minute, a drain that meets no fault runs
\* to its end, and time passes.
Fairness ==
  /\ \A d \in Drains : WF_vars(DrainStep(d))
  /\ WF_vars(ClaimAges) /\ WF_vars(BecomesDue)

FairSpec == Spec /\ Fairness

-----------------------------------------------------------------------------
(* Properties. *)

\* The device is alerted once more only if something went wrong: a crash, a
\* stall or a failed call each cost at most one duplicate, however the drains
\* overlap.  The dedupe key covers the inbox, not the alerts.
DuplicateNeedsFault == inbox <= 1 /\ alerts <= 1 + faults

\* A reminder is completed only if the user was told, in whatever mode and however
\* the sending of the alert went.
CompletedWasDelivered == reminder.status = "completed" => inbox + alerts > 0

\* The user is told, and told once.
DeliveredOnce == TypeOK /\ DuplicateNeedsFault /\ CompletedWasDelivered

\* A reminder that was undone, or whose session was deleted, while it was being
\* delivered stays cancelled, and a completed one can no longer be undone.
StatusIsFinal == [][reminder.status # "scheduled" => reminder'.status = reminder.status]_vars

NoOverlap == Cardinality({d \in Drains : drain[d].pc # "idle"}) <= 1

\* As long as drains do not overlap, a reminder that came due is delivered,
\* cancelled, or reported as failed: no fault leaves it behind.
EventuallyHandled == []NoOverlap => (due ~> (~Scheduled \/ reminder.state = "failed"))

\* The reminders of a deleted session go with it, also the one that was
\* materialised after the deletion by an effect that had already begun.
DeletedIsCancelled == deleted ~> ~Scheduled
=============================================================================
