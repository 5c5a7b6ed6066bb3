------------------------------ MODULE ApnsWake ------------------------------
(***************************************************************************)
(* The wake rows of the outbox: process_apns_command_wakeup of outbox.rs,  *)
(* its recovery, and send_command_wakeup of apns.rs.                       *)
(*                                                                         *)
(* The batch that ends a command inserts one row for each device and       *)
(* version (ON CONFLICT DO NOTHING): the module follows one of them, with  *)
(* its row of action_attempts, the durable permit to send.  APNs has no    *)
(* status to ask for, so a request whose answer is lost stays `unknown'.   *)
(*                                                                         *)
(* Abstractions, as in Outbox: a timestamp is a flag that time flips       *)
(* (row.live, row.due), the lease token is the number of the claim         *)
(* (row.claims, which is also the column attempts).                        *)
(***************************************************************************)
EXTENDS Integers

CONSTANTS
  Workers,       \* the concurrent drains
  Modes,         \* the values of PUSH_MODE deployments have; "both" is as "apns"
  MaxAttempts,   \* MAX_ATTEMPTS, 3 in the code
  FaultBound     \* bound of the model: crashes, stalls, failed calls, retryable refusals

ASSUME ModesAssumption == Modes \subseteq {"dev", "apns"}
ASSUME BoundsAssumption == MaxAttempts \in Nat \ {0} /\ FaultBound \in Nat

VARIABLES
  mode,     \* PUSH_MODE of the deployment, fixed
  row,      \* outbox_events with topic command.wakeup.apns
  attempt,  \* state of the action_attempts row, "none" when there is none
  worker,   \* the drains
  woken,    \* history: the requests APNs has accepted
  faults    \* how much of FaultBound is used

vars == <<mode, row, attempt, worker, woken, faults>>

-----------------------------------------------------------------------------
Final == {"succeeded", "failed", "unknown"}
Recorded == {"running", "retrying"} \cup Final
RowStates == {"queued"} \cup Recorded
AttemptStates == {"none"} \cup Recorded
PCs == {"idle", "recover", "page", "preflight", "acquire", "unpermitted",
        "send", "answer", "settle", "fail"}

\* to: the state that is being recorded; both: in the attempt row too.
Idle == [pc |-> "idle", claim |-> 0, attempts |-> 0, to |-> "running", both |-> FALSE]

TypeOK ==
  /\ mode \in Modes
  /\ row \in [state : RowStates, claims : Nat, live : BOOLEAN, due : BOOLEAN]
  /\ attempt \in AttemptStates
  /\ worker \in [Workers -> [pc : PCs, claim : Nat, attempts : Nat, to : Recorded,
                             both : BOOLEAN]]
  /\ woken \in Nat
  /\ faults \in Nat

Init ==
  /\ mode \in Modes
  /\ row = [state |-> "queued", claims |-> 0, live |-> FALSE, due |-> TRUE]
  /\ attempt = "none"
  /\ worker = [w \in Workers |-> Idle]
  /\ woken = 0 /\ faults = 0

-----------------------------------------------------------------------------
Goto(w, pc) == worker' = [worker EXCEPT ![w].pc = pc]
Leave(w) == worker' = [worker EXCEPT ![w] = Idle]
Fault == faults < FaultBound /\ faults' = faults + 1

\* The row leaves its claim; one that is to be retried becomes due later.
Release(s) == row' = [row EXCEPT !.state = s, !.live = FALSE, !.due = FALSE]

\* active_wake_claim_fence_sql.
Active(w) == row.state = "running" /\ row.live /\ row.claims = worker[w].claim

\* The fence of the statements that settle an expired claim.
Expired(w) == row.state = "running" /\ ~row.live /\ row.claims = worker[w].claim

Record(w, s, b) ==
  worker' = [worker EXCEPT ![w] = [@ EXCEPT !.pc = "settle", !.to = s, !.both = b]]

\* A transition that takes an unknown outcome for a refusal.
WakeFailureTransition_RetriesUnknown(failure, attempts) ==
  IF failure # "permanent" /\ attempts < MaxAttempts THEN "retrying" ELSE "failed"

\* wake_failure_transition, of the attempts in memory.
WakeFailureTransition(failure, attempts) ==
  IF failure = "unknown" THEN "unknown"
  ELSE IF failure = "retryable" /\ attempts < MaxAttempts THEN "retrying" ELSE "failed"

\* deliver_apns_command_wakeup ends with an error, with or without the permit.
Fails(w, failure, started) ==
  worker' = [worker EXCEPT ![w] = [@ EXCEPT !.pc = "fail", !.both = started,
               !.to = WakeFailureTransition(failure, worker[w].attempts)]]

-----------------------------------------------------------------------------
(* Recovery of expired claims, which precedes the page of a drain. *)

\* What recover_expired_apns_wakeup makes of the attempt row it reads.
ExpiredTo ==
  IF attempt \in {"running", "unknown"} THEN "unknown"
  ELSE IF attempt \in {"succeeded", "failed"} THEN attempt
  ELSE IF row.claims < MaxAttempts THEN "retrying" ELSE "failed"

\* The expired row and its attempt row are read.  Only another recovery changes
\* them before this one settles the row.
RecoverRead(w) ==
  /\ worker[w].pc = "idle" /\ row.state = "running" /\ ~row.live
  /\ worker' = [worker EXCEPT ![w] = [pc |-> "recover", claim |-> row.claims,
                  attempts |-> row.claims, to |-> ExpiredTo, both |-> ExpiredTo = "unknown"]]
  /\ UNCHANGED <<mode, row, attempt, woken, faults>>

\* settle_expired_apns_unknown, or settle_expired_wake_outbox.
RecoverApply(w) ==
  /\ worker[w].pc = "recover" /\ Leave(w)
  /\ \/ /\ Expired(w) /\ worker[w].both /\ attempt \in {"running", "unknown"}
        /\ attempt' = "unknown" /\ Release("unknown")
     \/ Expired(w) /\ ~worker[w].both /\ Release(worker[w].to) /\ UNCHANGED attempt
     \/ /\ ~Expired(w) \/ (worker[w].both /\ attempt \notin {"running", "unknown"})
        /\ UNCHANGED <<row, attempt>>
  /\ UNCHANGED <<mode, woken, faults>>

-----------------------------------------------------------------------------
(* Claiming and the preflight. *)

\* A selector without the rows that wait for another try.
Due_QueuedOnly == row.state = "queued" /\ row.due

\* The condition the selector and the claim share: unknown wakes are not in it.
Due == row.state \in {"queued", "retrying"} /\ row.due

Select(w) ==
  /\ worker[w].pc = "idle" /\ Due
  /\ worker' = [worker EXCEPT ![w] = [@ EXCEPT !.pc = "page", !.attempts = row.claims]]
  /\ UNCHANGED <<mode, row, attempt, woken, faults>>

\* claim: compare-and-set; the attempts in memory are those of the page.
Claim(w) ==
  /\ worker[w].pc = "page"
  /\ \/ /\ Due
        /\ row' = [state |-> "running", claims |-> row.claims + 1, live |-> TRUE, due |-> FALSE]
        /\ worker' = [worker EXCEPT ![w] = [@ EXCEPT !.pc = "preflight",
                         !.claim = row.claims + 1, !.attempts = worker[w].attempts + 1]]
     \/ ~Due /\ Leave(w) /\ UNCHANGED row
  /\ UNCHANGED <<mode, attempt, woken, faults>>

\* The end of the preflight; a claim whose lease has run out is left to recovery.
Preflight(w) ==
  /\ worker[w].pc = "preflight"
  /\ \/ ~Active(w) /\ Leave(w)
     \/ Active(w) /\ mode = "dev" /\ Record(w, "succeeded", FALSE)
     \/ Active(w) /\ mode = "apns" /\ Goto(w, "acquire")
  /\ UNCHANGED <<mode, row, attempt, woken, faults>>

\* The command is gone, or the device, or its token.
PreflightRefuses(w) ==
  /\ worker[w].pc = "preflight" /\ Fails(w, "permanent", FALSE)
  /\ UNCHANGED <<mode, row, attempt, woken, faults>>

\* acquire_apns_wakeup_attempt_sql: the durable permit to send.
AcquireWins(w) == Active(w) /\ attempt \in {"none", "retrying"}

Acquire(w) ==
  /\ worker[w].pc = "acquire"
  /\ IF AcquireWins(w) THEN attempt' = "running" /\ Goto(w, "send")
     ELSE Goto(w, "unpermitted") /\ UNCHANGED attempt
  /\ UNCHANGED <<mode, row, woken, faults>>

\* The statement fails, or its answer is lost after it was committed.
AcquireFails(w) ==
  /\ worker[w].pc = "acquire" /\ Fault /\ Fails(w, "retryable", FALSE)
  /\ UNCHANGED attempt \/ (AcquireWins(w) /\ attempt' = "running")
  /\ UNCHANGED <<mode, row, woken>>

\* reconcile_unpermitted_apns_wakeup.
ReadUnpermitted(w) ==
  /\ worker[w].pc = "unpermitted"
  /\ \/ attempt \in Final /\ Record(w, attempt, FALSE)
     \/ attempt = "running" /\ Record(w, "unknown", TRUE)
     \/ attempt \in {"none", "retrying"} /\ Leave(w)
  /\ UNCHANGED <<mode, row, attempt, woken, faults>>

-----------------------------------------------------------------------------
(* The request, and the record of its outcome. *)

Send(w) ==
  /\ worker[w].pc = "send" /\ Goto(w, "answer") /\ woken' = woken + 1
  /\ UNCHANGED <<mode, row, attempt, faults>>

Answer(w) ==
  /\ worker[w].pc = "answer" /\ Record(w, "succeeded", TRUE)
  /\ UNCHANGED <<mode, row, attempt, woken, faults>>

\* APNs refuses the request for good, or it could not be built.
Refused(w) ==
  /\ worker[w].pc = "send" /\ Fails(w, "permanent", TRUE)
  /\ UNCHANGED <<mode, row, attempt, woken, faults>>

\* APNs is not ready, or a database call of the preflight fails, or APNs refuses
\* the request for now.
TryLater(w) ==
  /\ worker[w].pc \in {"preflight", "unpermitted", "send"} /\ Fault
  /\ Fails(w, "retryable", worker[w].pc = "send")
  /\ UNCHANGED <<mode, row, attempt, woken>>

\* The request is lost on its way, or its answer is.
AnswerLost(w) ==
  /\ worker[w].pc \in {"send", "answer"} /\ Fault /\ Fails(w, "unknown", TRUE)
  /\ UNCHANGED <<mode, row, attempt, woken>>

\* Whether settle_apns_wakeup or settle_wake_outbox finds what it changes.
Settles(w) == Active(w) /\ (worker[w].both => attempt = "running")

\* settle_apns_wakeup: the row is tied to the attempt by changes().
Settled(w) ==
  IF Settles(w)
  THEN /\ Release(worker[w].to)
       /\ attempt' = IF worker[w].both THEN worker[w].to ELSE attempt
  ELSE UNCHANGED <<row, attempt>>

Settle(w) ==
  /\ worker[w].pc \in {"settle", "fail"} /\ Settled(w) /\ Leave(w)
  /\ UNCHANGED <<mode, woken, faults>>

\* The statement fails, before or after it was committed.  A success that may not
\* be recorded is settled as unknown, any other first settlement is tried again
\* later, and the second one leaves the lease to recovery.
SettleFails(w) ==
  /\ worker[w].pc \in {"settle", "fail"} /\ Fault
  /\ Settled(w) \/ UNCHANGED <<row, attempt>>
  /\ \/ worker[w].pc = "fail" /\ Leave(w)
     \/ /\ worker[w].pc = "settle" /\ worker[w].both /\ worker[w].to = "succeeded"
        /\ Fails(w, "unknown", TRUE)
     \/ /\ worker[w].pc = "settle" /\ ~(worker[w].both /\ worker[w].to = "succeeded")
        /\ Fails(w, "retryable", FALSE)
  /\ UNCHANGED <<mode, woken>>

-----------------------------------------------------------------------------
(* What happens meanwhile. *)

Crash(w) ==
  /\ worker[w].pc # "idle" /\ Fault /\ Leave(w)
  /\ UNCHANGED <<mode, row, attempt, woken>>

Holding == {"preflight", "acquire", "unpermitted", "send", "answer", "settle", "fail"}

Held == \E w \in Workers : worker[w].pc \in Holding /\ worker[w].claim = row.claims

\* An abandoned lease expires, or a worker is slower than its lease.
LeaseExpires ==
  /\ row.state = "running" /\ row.live /\ ~Held
  /\ row' = [row EXCEPT !.live = FALSE]
  /\ UNCHANGED <<mode, attempt, worker, woken, faults>>

Stall ==
  /\ row.state = "running" /\ row.live /\ Held /\ Fault
  /\ row' = [row EXCEPT !.live = FALSE]
  /\ UNCHANGED <<mode, attempt, worker, woken>>

BecomesDue ==
  /\ row.state = "retrying" /\ ~row.due
  /\ row' = [row EXCEPT !.due = TRUE]
  /\ UNCHANGED <<mode, attempt, worker, woken, faults>>

WorkerStep(w) ==
  \/ RecoverRead(w) \/ RecoverApply(w) \/ Select(w) \/ Claim(w)
  \/ Preflight(w) \/ PreflightRefuses(w) \/ Acquire(w) \/ ReadUnpermitted(w)
  \/ Send(w) \/ Answer(w) \/ Refused(w) \/ Settle(w)

WorkerFault(w) ==
  AcquireFails(w) \/ TryLater(w) \/ AnswerLost(w) \/ SettleFails(w) \/ Crash(w)

Next ==
  \/ \E w \in Workers : WorkerStep(w) \/ WorkerFault(w)
  \/ LeaseExpires \/ Stall \/ BecomesDue

Spec == Init /\ [][Next]_vars

\* The cron trigger starts a drain every minute, a drain that meets no fault comes
\* to the end of its row, and time passes.
Fairness ==
  /\ \A w \in Workers : WF_vars(WorkerStep(w))
  /\ WF_vars(LeaseExpires) /\ WF_vars(BecomesDue)

FairSpec == Spec /\ Fairness

-----------------------------------------------------------------------------
(* Why a device is woken once: the parts of an inductive invariant.         *)

\* No two workers hold the same claim ...
ClaimsAreDistinct ==
  /\ \A w \in Workers : worker[w].claim <= row.claims
  /\ \A v, w \in Workers :
       /\ worker[v].pc \in Holding /\ worker[w].pc \in Holding
       /\ worker[v].claim = worker[w].claim
       => v = w

\* ... the attempt row comes to its end together with the wake row ...
AttemptIsRecorded == attempt \in Final => row.state = attempt

\* The workers that have the permit.
Permitted(w) ==
  \/ worker[w].pc \in {"send", "answer"}
  \/ worker[w].both /\ worker[w].pc = "fail"
  \/ worker[w].both /\ worker[w].pc = "settle" /\ worker[w].to = "succeeded"

\* ... the claim of a permit is the last one: the row is released from it only
\* with a verdict ...
PermitIsLast ==
  \A w \in Workers : Permitted(w) =>
    /\ worker[w].claim = row.claims /\ mode # "dev"
    /\ \/ row.state = "running" /\ attempt = "running"
       \/ row.state = "unknown"
       \/ row.state = "succeeded" /\ worker[w].pc = "fail"

\* ... which is never that the device was not woken, if it was ...
WokenIsRecorded ==
  /\ woken \in {0, 1}
  /\ woken = 1 =>
       /\ mode # "dev"
       /\ \/ row.state = "running" /\ attempt = "running"
          \/ row.state \in {"unknown", "succeeded"}

\* ... every worker knows what it may say of that ...
WorkersKnow ==
  \A w \in Workers :
    /\ worker[w].pc = "acquire" => mode # "dev"
    /\ worker[w].pc = "send" => woken = 0
    /\ worker[w].pc = "answer" => woken = 1
    /\ worker[w].pc = "settle" /\ worker[w].both =>
         \/ worker[w].to = "unknown"
         \/ worker[w].to = "succeeded" /\ woken = 1
    /\ worker[w].pc = "fail" =>
         \/ worker[w].to = "unknown" /\ worker[w].both
         \/ worker[w].to \in {"failed", "retrying"} /\ (worker[w].both => woken = 0)
    /\ /\ worker[w].pc \in Holding /\ ~Permitted(w)
       /\ row.state = "running" /\ worker[w].claim = row.claims
       => /\ woken = 0
          /\ worker[w].pc = "settle" /\ ~worker[w].both =>
               worker[w].to = "succeeded" /\ mode = "dev"

\* ... and what a recovery has read is still so when it settles.
RecoveryIsCurrent ==
  \A w \in Workers :
    worker[w].pc = "recover" /\ row.state = "running" /\ row.claims = worker[w].claim =>
      /\ ~row.live
      /\ worker[w].to = ExpiredTo /\ (worker[w].both <=> ExpiredTo = "unknown")

WakeInv ==
  /\ TypeOK /\ ClaimsAreDistinct /\ AttemptIsRecorded /\ PermitIsLast
  /\ WokenIsRecorded /\ WorkersKnow /\ RecoveryIsCurrent

-----------------------------------------------------------------------------
(* Properties. *)

verdict == IF row.state \in Final THEN row.state ELSE "open"

Once == INSTANCE WakeOnce WITH silent <- mode = "dev"

\* The device is woken at most once for a version, and a row says `succeeded' or
\* `failed' only if it was, or was not, whatever crashes, stalls, lost answers and
\* failed settlements there are; what a row says at the end it says for ever.
WakesOnce == Once!Spec

\* Every wake ends as succeeded, failed or unknown: no claim is left behind.
EventuallyDecided == <>(row.state \in Final)
=============================================================================
