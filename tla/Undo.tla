-------------------------------- MODULE Undo --------------------------------
(***************************************************************************)
(* Undo of a reminder that an external provider has scheduled: commands.rs *)
(* undo, action_effects.rs undo and the two reconciliations the cron       *)
(* trigger runs.                                                           *)
(*                                                                         *)
(* The command has succeeded, its reminder row names the provider's        *)
(* resource, and the provider is asked to cancel it under one idempotency  *)
(* key.  An action_attempts row of its own is the fence around that call;  *)
(* it has no token, only a state and the age of updated_at.                *)
(*                                                                         *)
(* Abstractions: attempt.old is "updated_at is older than                  *)
(* CANCEL_LEASE_SECONDS"; a response that does not name the resource is an *)
(* answer like a lost one, which is what it is mapped to.                  *)
(***************************************************************************)
EXTENDS Integers, FiniteSets

CONSTANTS
  Requests,      \* the concurrent Undo requests
  Crons,         \* the overlapping passes of the cron trigger
  ModeMayChange, \* whether a deployment may disable the providers for a while
  FaultBound     \* bound of the model: crashes, lost answers, stalls

ASSUME ActorsAssumption == Requests \cap Crons = {}
ASSUME ModeAssumption == ModeMayChange \in BOOLEAN
ASSUME BoundAssumption == FaultBound \in Nat

VARIABLES
  reminder,  \* status of the reminder row
  version,   \* version of the command: every change of it is one further
  attempt,   \* the attempt row of the cancellation: state, and the age of updated_at
  provider,  \* what the provider has done about the reminder
  external,  \* ACTION_PROVIDER_MODE is external
  open,      \* the undo window is open
  worker,    \* the requests and passes in progress
  misled,    \* history: a call was ended as failed without the provider's word
  faults     \* how much of FaultBound is used

vars == <<reminder, version, attempt, provider, external, open, worker, misled, faults>>

-----------------------------------------------------------------------------
Workers == Requests \cup Crons
AttemptStates == {"none", "running", "unknown", "failed", "succeeded"}
ProviderStates == {"scheduled", "cancelling", "cancelled", "refused"}
Answers == {"none", "unknown", "failed", "succeeded"}
PCs == {"idle", "effect", "claim", "existing", "expired", "reclaim", "call", "calling",
        "finish", "finalize"}

Idle == [pc |-> "idle", ver |-> 0, answer |-> "none"]

TypeOK ==
  /\ reminder \in {"scheduled", "cancelled"} /\ version \in Nat
  /\ attempt \in [state : AttemptStates, old : BOOLEAN]
  /\ provider \in ProviderStates
  /\ external \in BOOLEAN /\ open \in BOOLEAN
  /\ worker \in [Workers -> [pc : PCs, ver : Nat, answer : Answers]]
  /\ misled \in BOOLEAN
  /\ faults \in 0..FaultBound

\* finish_success has left the command at some version, here 4.
Init ==
  /\ reminder = "scheduled" /\ version = 4
  /\ attempt = [state |-> "none", old |-> FALSE]
  /\ provider = "scheduled"
  /\ external = TRUE /\ open = TRUE
  /\ worker = [w \in Workers |-> Idle]
  /\ misled = FALSE
  /\ faults = 0

-----------------------------------------------------------------------------
Goto(w, pc) == worker' = [worker EXCEPT ![w].pc = pc]
Leave(w) == worker' = [worker EXCEPT ![w] = Idle]
Fault == faults < FaultBound /\ faults' = faults + 1

SetAttempt(s) == attempt' = [state |-> s, old |-> FALSE]

rowVars == <<reminder, version>>
worldVars == <<provider, external, open, misled>>

\* The command is read, with its version, and what follows starts at pc.
StartAt(w, pc) ==
  /\ worker[w].pc = "idle"
  /\ worker' = [worker EXCEPT ![w] = [Idle EXCEPT !.pc = pc, !.ver = version]]
  /\ UNCHANGED <<attempt, faults, rowVars, worldVars>>

\* An Undo request; one that comes too late is allowed when there is nothing
\* left to do.
Request(w) == (open \/ reminder = "cancelled") /\ StartAt(w, "effect")

\* A reconciliation that looks for the answers only, not for the lost workers.
PendingDue_UnknownOnly == reminder = "scheduled" /\ attempt.state = "unknown"

\* pending_cancel_reconciliation_sql.
PendingDue ==
  /\ reminder = "scheduled"
  /\ attempt.state = "unknown" \/ (attempt.state = "running" /\ attempt.old)

\* reconcile_external_cancellations.
ReconcilePending(w) == external /\ PendingDue /\ StartAt(w, "effect")

\* reconcile_succeeded_cancellations: the command, the reminder and the recorded
\* answer are all there.
ReconcileSucceeded(w) ==
  reminder = "scheduled" /\ attempt.state = "succeeded" /\ StartAt(w, "finalize")

ReadEffect(w) ==
  /\ worker[w].pc = "effect"
  /\ IF reminder = "cancelled" THEN Leave(w) ELSE Goto(w, "claim")
  /\ UNCHANGED <<attempt, faults, rowVars, worldVars>>

-----------------------------------------------------------------------------
(* claim_cancel_attempt, the call, and what is made of its answer. *)

\* INSERT ... ON CONFLICT DO NOTHING.
Claim(w) ==
  /\ worker[w].pc = "claim"
  /\ IF attempt.state = "none" THEN SetAttempt("running") /\ Goto(w, "call")
     ELSE Goto(w, "existing") /\ UNCHANGED attempt
  /\ UNCHANGED <<faults, rowVars, worldVars>>

\* The existing row is read: its answer is used again, or its claim is taken
\* over if it may be.
ReadExisting(w) ==
  /\ worker[w].pc = "existing"
  /\ \/ attempt.state = "succeeded" /\ Goto(w, "finalize")
     \/ attempt.state = "running" /\ attempt.old /\ Goto(w, "expired")
     \/ attempt.state = "running" /\ ~attempt.old /\ Leave(w)
     \/ attempt.state \in {"unknown", "failed"} /\ Goto(w, "reclaim")
  /\ UNCHANGED <<attempt, faults, rowVars, worldVars>>

\* A claim that is taken over whoever holds it.
ExpiredStill_Running == attempt.state = "running"

\* The condition under which an expired claim is taken over.
ExpiredStill == attempt.state = "running" /\ attempt.old

\* The compare-and-set of a reclaim; its loser leaves the call to the winner.
Reclaim(w) ==
  LET wins == IF worker[w].pc = "expired" THEN ExpiredStill
              ELSE attempt.state \in {"unknown", "failed"}
  IN
  /\ worker[w].pc \in {"expired", "reclaim"}
  /\ IF wins THEN SetAttempt("running") /\ Goto(w, "call")
     ELSE Leave(w) /\ UNCHANGED attempt
  /\ UNCHANGED <<faults, rowVars, worldVars>>

Answered(w, a) ==
  worker' = [worker EXCEPT ![w] = [@ EXCEPT !.pc = "finish", !.answer = a]]

\* providers::cancel.  Another mode is a permanent error, made without a call.
Call(w) ==
  /\ worker[w].pc = "call"
  /\ \/ ~external /\ Answered(w, "failed") /\ misled' = TRUE /\ UNCHANGED provider
     \/ /\ external /\ Goto(w, "calling") /\ UNCHANGED misled
        /\ provider' = IF provider = "scheduled" THEN "cancelling" ELSE provider
  /\ UNCHANGED <<attempt, faults, external, open, rowVars>>

\* A provider that has merely accepted a cancellation is taken at its word.
AnswerOf_AcceptedIsSuccess ==
  IF provider = "refused" THEN "failed" ELSE "succeeded"

\* cancel_delivery_state, and the state undo records for it.
AnswerOf ==
  IF provider = "cancelled" THEN "succeeded"
  ELSE IF provider = "refused" THEN "failed" ELSE "unknown"

Answer(w) ==
  /\ worker[w].pc = "calling" /\ Answered(w, AnswerOf)
  /\ UNCHANGED <<attempt, faults, rowVars, worldVars>>

\* The call fails in a way that may pass: the request or its answer is lost, the
\* provider answers with HTTP 408, 425, 429 or 5xx, or it names another resource.
AnswerLost(w) ==
  /\ worker[w].pc = "calling" /\ Fault /\ Answered(w, "unknown")
  /\ UNCHANGED <<attempt, rowVars, worldVars>>

\* Any other HTTP 4xx is a permanent error, recorded as a failure whatever the
\* provider makes of this call or has made of an earlier one.
AnswerRefused(w) ==
  /\ worker[w].pc = "calling" /\ Fault /\ Answered(w, "failed") /\ misled' = TRUE
  /\ UNCHANGED <<attempt, provider, external, open, rowVars>>

\* An answer that is recorded whatever was recorded before.
Finishable_Always == TRUE

\* The condition of finish_cancel_attempt: whoever holds the claim by now.
Finishable == attempt.state = "running"

Finish(w) ==
  /\ worker[w].pc = "finish"
  /\ IF Finishable THEN SetAttempt(worker[w].answer) ELSE UNCHANGED attempt
  /\ IF worker[w].answer = "succeeded" THEN Goto(w, "finalize") ELSE Leave(w)
  /\ UNCHANGED <<faults, rowVars, worldVars>>

\* A finalization that does not look at what it changes.
FinalizeWins_Always(w) == TRUE

\* undo_effect_update_sql, and undo_command_update_sql tied to it by changes().
FinalizeWins(w) == reminder = "scheduled" /\ version = worker[w].ver

Finalize(w) ==
  /\ worker[w].pc = "finalize" /\ Leave(w)
  /\ IF FinalizeWins(w) THEN reminder' = "cancelled" /\ version' = version + 1
     ELSE UNCHANGED rowVars
  /\ UNCHANGED <<attempt, faults, worldVars>>

-----------------------------------------------------------------------------
(* What happens meanwhile. *)

Crash(w) ==
  /\ worker[w].pc # "idle" /\ Fault /\ Leave(w)
  /\ UNCHANGED <<attempt, rowVars, worldVars>>

Held == \E w \in Workers : worker[w].pc \in {"call", "calling", "finish"}

\* An abandoned claim outlives CANCEL_LEASE_SECONDS, or its worker is that slow.
ClaimAges ==
  /\ attempt.state = "running" /\ ~attempt.old /\ ~Held
  /\ attempt' = [attempt EXCEPT !.old = TRUE]
  /\ UNCHANGED <<worker, faults, rowVars, worldVars>>

Stall ==
  /\ attempt.state = "running" /\ ~attempt.old /\ Held /\ Fault
  /\ attempt' = [attempt EXCEPT !.old = TRUE]
  /\ UNCHANGED <<worker, rowVars, worldVars>>

WindowCloses ==
  /\ open /\ open' = FALSE
  /\ UNCHANGED <<attempt, worker, faults, provider, external, misled, rowVars>>

\* The provider cancels the reminder, or it is too late.
ProviderDecides ==
  /\ provider = "cancelling" /\ provider' \in {"cancelled", "refused"}
  /\ UNCHANGED <<attempt, worker, faults, external, open, misled, rowVars>>

\* A deployment disables the providers; another one enables them again.
Disable ==
  /\ ModeMayChange /\ external /\ Fault /\ external' = FALSE
  /\ UNCHANGED <<attempt, worker, provider, open, misled, rowVars>>

Enable ==
  /\ ~external /\ external' = TRUE
  /\ UNCHANGED <<attempt, worker, faults, provider, open, misled, rowVars>>

Continues(w) ==
  \/ ReadEffect(w) \/ Claim(w) \/ ReadExisting(w) \/ Reclaim(w) \/ Call(w)
  \/ Answer(w) \/ Finish(w) \/ Finalize(w)

Next ==
  \/ \E w \in Requests : Request(w)
  \/ \E w \in Crons : ReconcilePending(w) \/ ReconcileSucceeded(w)
  \/ \E w \in Workers : Continues(w) \/ AnswerLost(w) \/ AnswerRefused(w) \/ Crash(w)
  \/ ClaimAges \/ Stall \/ WindowCloses \/ ProviderDecides \/ Disable \/ Enable

Spec == Init /\ [][Next]_vars

\* The cron trigger reconciles every minute, what runs without a fault ends, time
\* passes, the provider decides, and a disabled configuration is a passing one.
Fairness ==
  /\ \A w \in Crons : WF_vars(ReconcilePending(w) \/ ReconcileSucceeded(w))
  /\ \A w \in Workers : WF_vars(Continues(w))
  /\ WF_vars(ClaimAges) /\ WF_vars(ProviderDecides) /\ WF_vars(Enable)

FairSpec == Spec /\ Fairness

-----------------------------------------------------------------------------
(* Properties. *)

\* The user is told that a reminder is undone only when the provider has really
\* cancelled it.
UndoneIsCancelled == reminder = "cancelled" => provider = "cancelled"

\* The command then carries exactly one undo, whichever of the requests and
\* reconciliations came to the end first.
UndoneOnce == version = IF reminder = "cancelled" THEN 5 ELSE 4

\* An undo is what the provider did, and it is recorded once.
UndoneIsReal == TypeOK /\ UndoneIsCancelled /\ UndoneOnce

\* The fence lets a second call out only when a stall or a crash has cost the
\* first one its lease.
OneCallAtATime == Cardinality({w \in Workers : worker[w].pc = "calling"}) <= 1 + faults

\* What was recorded as cancelled stays recorded: no late answer of a slower call
\* overwrites it.
SuccessIsKept == [][attempt.state = "succeeded" => attempt' = attempt]_vars

\* A cancellation the provider has carried out is eventually reflected in D1, with
\* the window closed and the requests gone, unless a call about it was recorded as
\* failed without the provider's word (by a disabled configuration, or after an
\* HTTP 4xx): no reconciliation looks at a failed attempt again.
CancelledIsReflected ==
  provider = "cancelled" ~>
    (reminder = "cancelled" \/ (attempt.state = "failed" /\ misled))
=============================================================================
