------------------------------- MODULE Outbox -------------------------------
(***************************************************************************)
(* Execution of queued commands by the outbox workers of the backend:      *)
(* src/src/outbox.rs, with the effect executor of action_effects.rs and    *)
(* the expiry, cancellation and session deletion that race with it.        *)
(*                                                                         *)
(* A command enters this module when it is `queued' and its outbox row has *)
(* been inserted (the module Confirmation models how it gets there).  Any  *)
(* number of drains run at once: the cron trigger, and the create and      *)
(* confirm requests, which drain inline.  A worker here is one such drain  *)
(* processing one row.  All of them share the D1 database, where a         *)
(* statement, or a batch of statements, is atomic; between two statements  *)
(* anything may happen, the death of the worker included.                  *)
(*                                                                         *)
(* Abstractions.                                                           *)
(*  - A timestamp is a flag that time flips: outbox[c].live (the lease has *)
(*    not expired), outbox[c].due (next_attempt_at has passed), c \in      *)
(*    overdue (commands.expires_at has passed).                            *)
(*  - A claim makes a fresh lease token and increments outbox.attempts in  *)
(*    one statement, so the token is represented by the value of attempts. *)
(*    lease_token is NULL exactly when the row is not `running'.           *)
(*  - action_attempts.attempts is only ever compared with 0 and 1: it is   *)
(*    the flag attempt[c].started, "attempts >= 1".                        *)
(*  - The audit_logs, phone_changes and APNs wake rows are inserted by the *)
(*    same batch as the command transition and under its changes() guard,  *)
(*    so they are represented by the transition.                           *)
(*  - An HTTP 4xx to the request to deliver means that the provider has    *)
(*    refused it.  A 4xx of the status endpoint (wrong credentials, an     *)
(*    unknown key, a path that has moved) says nothing of the delivery.    *)
(*  - Each command has one outbox row and one attempt row: both have       *)
(*    unique keys derived from the command.                                *)
(***************************************************************************)
EXTENDS Integers, FiniteSets

CONSTANTS
  Commands,      \* the commands that were queued
  NoCommand,     \* the command of a worker that has none
  Workers,       \* the concurrent drains
  Intents,       \* the intents of the registry that commands may have
  Modes,         \* the values of ACTION_PROVIDER_MODE deployments may have
  PolicyMayChange, \* whether a deployment may change the policy of an intent
  MaxAttempts,   \* MAX_ATTEMPTS, 3 in the code
  ClaimBound,    \* bound of the model: how often one row may be claimed
  FaultBound     \* bound of the model: crashes, failed calls, stalls, retries

Registry == {"search_history", "create_reminder", "create_draft", "send_message"}

ASSUME NoCommandAssumption == NoCommand \notin Commands
ASSUME IntentsAssumption == Intents \subseteq Registry
ASSUME ModesAssumption == Modes \subseteq {"internal", "external", "disabled"}
ASSUME PolicyAssumption == PolicyMayChange \in BOOLEAN
ASSUME BoundsAssumption ==
  MaxAttempts \in Nat \ {0} /\ ClaimBound \in Nat /\ FaultBound \in Nat

VARIABLES
  mode,        \* ACTION_PROVIDER_MODE of the deployment, fixed
  intent,      \* [Commands -> Intents], fixed
  cmd,         \* commands: state and version
  outbox,      \* outbox_events with topic command.execute
  attempt,     \* action_attempts, "none" when there is no row
  effect,      \* reminders, drafts, outbound_messages: state of the row, or "none"
  prov,        \* what the external provider holds under the command's key
  deleted,     \* the commands whose session has been deleted
  overdue,     \* the commands whose expires_at has passed
  cancelling,  \* the version a cancel request has read, 0 when there is none
  worker,      \* the drains
  begun,       \* history: how often an effect attempt was begun
  sends,       \* history: how many requests to deliver were made
  denied,      \* history: the commands whose status request got an HTTP 4xx
  faults       \* how much of FaultBound is used

vars == <<mode, intent, cmd, outbox, attempt, effect, prov, deleted, overdue,
          cancelling, worker, begun, sends, denied, faults>>

-----------------------------------------------------------------------------
Claimable == {"queued", "retryable", "unknown"}
Terminal == {"succeeded", "failed", "expired", "cancelled"}
CommandStates == Claimable \cup {"running"} \cup Terminal
RowStates == {"queued", "running", "retrying", "unknown", "succeeded", "failed"}
AttemptStates == {"none", "running", "retrying", "unknown", "succeeded", "failed"}
EffectStates == {"none", "scheduled", "draft", "queued", "sent", "failed", "cancelled"}
ProviderStates == {"none", "inflight", "accepted", "delivered", "rejected"}
Responses == {"none", "succeeded", "pending", "failed"}
PCs == {"idle", "page", "claimed", "deleted", "start", "expire", "permit",
        "search", "execute", "status", "begin", "effect", "sending",
        "materialise", "record", "succeed", "retry", "fail"}

\* The intents with an action_attempts row.
EffectIntents == {"create_reminder", "create_draft", "send_message"}

\* The effects the configured provider performs; a draft is always local.
External(c) == mode = "external" /\ intent[c] \in {"create_reminder", "send_message"}

\* A disabled configuration that guards the messages only.
Refused_MessagesOnly(c) == mode = "disabled" /\ intent[c] = "send_message"

\* The effects a disabled configuration refuses; a draft is never refused.
Refused(c) == mode = "disabled" /\ intent[c] \in {"create_reminder", "send_message"}

Idle == [pc |-> "idle", c |-> NoCommand, claim |-> 0, row |-> 0, ver |-> 0,
         resp |-> "none"]

TypeOK ==
  /\ mode \in Modes
  /\ intent \in [Commands -> Intents]
  /\ cmd \in [Commands -> [state : CommandStates, version : Nat]]
  /\ outbox \in [Commands -> [state : RowStates, claims : Nat,
                              live : BOOLEAN, due : BOOLEAN]]
  /\ attempt \in [Commands -> [state : AttemptStates, started : BOOLEAN]]
  /\ effect \in [Commands -> EffectStates]
  /\ prov \in [Commands -> ProviderStates]
  /\ deleted \subseteq Commands
  /\ overdue \subseteq Commands
  /\ cancelling \in [Commands -> Nat]
  /\ worker \in [Workers -> [pc : PCs, c : Commands \cup {NoCommand}, claim : Nat,
                             row : Nat, ver : Nat, resp : Responses]]
  /\ \A w \in Workers : worker[w].pc # "idle" => worker[w].c \in Commands
  /\ begun \in [Commands -> Nat]
  /\ sends \in [Commands -> Nat]
  /\ denied \subseteq Commands
  /\ faults \in Nat

\* create() leaves a command that needs no confirmation `queued' at version 2
\* with a queued row; confirm() does the same for one that needed it.
Init ==
  /\ mode \in Modes
  /\ intent \in [Commands -> Intents]
  /\ cmd = [c \in Commands |-> [state |-> "queued", version |-> 2]]
  /\ outbox = [c \in Commands |->
                 [state |-> "queued", claims |-> 0, live |-> FALSE, due |-> TRUE]]
  /\ attempt = [c \in Commands |-> [state |-> "none", started |-> FALSE]]
  /\ effect = [c \in Commands |-> "none"]
  /\ prov = [c \in Commands |-> "none"]
  /\ deleted = {}
  /\ overdue = {}
  /\ cancelling = [c \in Commands |-> 0]
  /\ worker = [w \in Workers |-> Idle]
  /\ begun = [c \in Commands |-> 0]
  /\ sends = [c \in Commands |-> 0]
  /\ denied = {}
  /\ faults = 0

-----------------------------------------------------------------------------
(* Predicates of the SQL statements. *)

\* ACTION_EFFECT_MAY_HAVE_STARTED_SQL without its last disjunct's states.
MayHaveStarted_ForgetsRunning(c) ==
  \/ attempt[c].state = "succeeded"
  \/ attempt[c].state \in {"unknown", "retrying"} /\ attempt[c].started

\* ACTION_EFFECT_MAY_HAVE_STARTED_SQL.
MayHaveStarted(c) ==
  \/ attempt[c].state = "succeeded"
  \/ attempt[c].state \in {"running", "unknown", "retrying"} /\ attempt[c].started

\* RECOVERABLE_ACTION_ATTEMPT_EXISTS_SQL, with the running attempts forgotten.
RecoverableAttempt_ForgetsRunning(c) == attempt[c].state \in {"succeeded", "unknown", "retrying"}

\* RECOVERABLE_ACTION_ATTEMPT_EXISTS_SQL: a permit blocks a cancellation even
\* before the effect is begun.
RecoverableAttempt(c) ==
  attempt[c].state \in {"succeeded", "running", "unknown", "retrying"}

\* The session clause of start, permit and begin.
SessionAllows(c) == c \notin deleted \/ MayHaveStarted(c)

\* lease_fence_sql: the row is running under the token this worker claimed.
HoldsClaim(w) ==
  /\ outbox[worker[w].c].state = "running"
  /\ outbox[worker[w].c].claims = worker[w].claim

\* active_command_claim_fence_sql: ... and the lease has not expired.
ActiveClaim(w) == HoldsClaim(w) /\ outbox[worker[w].c].live

\* Compare-and-set of the command at the version this worker has read.
AtVersion(w) == cmd[worker[w].c].version = worker[w].ver

\* The attempt row of a permit no effect attempt has followed.
PermitOnly(c) == attempt[c].state = "running" /\ ~attempt[c].started

\* The reconciliation of execute() forgets an attempt that died while running.
MustReconcile_OnlyMarked(c) == attempt[c].state \in {"unknown", "retrying"}

\* The states execute() reconciles instead of beginning an effect.
MustReconcile(c) ==
  ~PermitOnly(c) /\ attempt[c].state \in {"running", "unknown", "retrying"}

-----------------------------------------------------------------------------
(* Updates shared by the actions. *)

Goto(w, pc) == worker' = [worker EXCEPT ![w].pc = pc]

\* The worker is done with its row, settled or not.
Leave(w) == worker' = [worker EXCEPT ![w] = Idle]

SetCommand(c, s) ==
  cmd' = [cmd EXCEPT ![c] = [state |-> s, version |-> @.version + 1]]

\* The row leaves the state `running': its lease columns become NULL.
ReleaseRow(c, s, due) ==
  outbox' = [outbox EXCEPT ![c] = [state |-> s, claims |-> @.claims,
                                   live |-> FALSE, due |-> due]]

SetAttempt(c, s, started) ==
  attempt' = [attempt EXCEPT ![c] = [state |-> s, started |-> started]]

\* One unit of the trouble FaultBound allows.
Fault == faults < FaultBound /\ faults' = faults + 1

\* Whether a failure at in-memory attempt number n is retried automatically.
Retries(n, retryable) == retryable /\ n < MaxAttempts

\* An exhausted budget is reported as a failure of the command.
CommandFailureState_GivesUp(n, retryable) ==
  IF Retries(n, retryable) THEN "retryable" ELSE "failed"

\* command_failure_state.
CommandFailureState(n, retryable) ==
  IF Retries(n, retryable) THEN "retryable"
  ELSE IF retryable THEN "unknown" ELSE "failed"

\* The exhausted row is parked as failed instead of unknown.
RowFailureState_Parks(n, retryable) ==
  IF Retries(n, retryable) THEN "retrying" ELSE "failed"

\* The state of the outbox row, and of the attempt row, after a failure.
RowFailureState(n, retryable) ==
  IF Retries(n, retryable) THEN "retrying"
  ELSE IF retryable THEN "unknown" ELSE "failed"

\* The batch of finish_failure_with_fence, once its first statement has won.
\* The upsert of the attempt row is unconditional: it also overwrites
\* `succeeded', and it sets attempts to at least 1 whether or not an effect
\* attempt was ever begun.
FailCommand(c, n, retryable) ==
  /\ SetCommand(c, CommandFailureState(n, retryable))
  /\ ReleaseRow(c, RowFailureState(n, retryable), FALSE)
  /\ IF intent[c] \in EffectIntents
     THEN SetAttempt(c, RowFailureState(n, retryable), TRUE)
     ELSE UNCHANGED attempt

effectVars == <<effect, prov, begun, sends, denied>>
requestVars == <<mode, intent, deleted, overdue, cancelling>>

-----------------------------------------------------------------------------
(* Claiming a row, and what precedes the executor. *)

\* The selector without the parked rows: an unknown outcome is never claimed.
Due_ForgetsUnknown(c) == outbox[c].state \in {"queued", "retrying"} /\ outbox[c].due

\* The condition the selector and the claim share.
Due(c) == outbox[c].state \in {"queued", "retrying", "unknown"} /\ outbox[c].due

\* A drain reads a page of due rows and comes to the row of c.  The in-memory
\* row is a snapshot: the claim does not read it again.
Select(w, c) ==
  /\ worker[w].pc = "idle" /\ Due(c) /\ outbox[c].claims < ClaimBound
  /\ worker' = [worker EXCEPT ![w] = [@ EXCEPT !.pc = "page", !.c = c,
                                                    !.row = outbox[c].claims]]
  /\ UNCHANGED <<cmd, outbox, attempt, faults, effectVars, requestVars>>

\* claim: compare-and-set of the row; its loser goes on to the next row.
Claim(w) ==
  LET c == worker[w].c IN
  /\ worker[w].pc = "page"
  /\ \/ /\ Due(c) /\ outbox[c].claims < ClaimBound
        /\ outbox' = [outbox EXCEPT ![c] = [state |-> "running", claims |-> @.claims + 1,
                                            live |-> TRUE, due |-> FALSE]]
        /\ worker' = [worker EXCEPT ![w] = [@ EXCEPT !.pc = "claimed", !.row = worker[w].row + 1,
                                                       !.claim = outbox[c].claims + 1]]
     \/ /\ ~(Due(c) /\ outbox[c].claims < ClaimBound)
        /\ Leave(w) /\ UNCHANGED outbox
  /\ UNCHANGED <<cmd, attempt, faults, effectVars, requestVars>>

\* The command and its session are read.  A lease that has expired by then, and
\* a command that has ended, need no more of this worker.
Load(w) ==
  LET c == worker[w].c IN
  /\ worker[w].pc = "claimed"
  /\ \/ /\ ~ActiveClaim(w)
        /\ Leave(w) /\ UNCHANGED outbox
     \/ /\ ActiveClaim(w) /\ cmd[c].state \in Terminal
        /\ ReleaseRow(c, "failed", FALSE) /\ Leave(w)
     \/ /\ ActiveClaim(w) /\ cmd[c].state \notin Terminal
        /\ worker' = [worker EXCEPT ![w] =
                        [@ EXCEPT !.ver = cmd[c].version,
                                  !.pc = IF c \in deleted THEN "deleted" ELSE "start"]]
        /\ UNCHANGED outbox
  /\ UNCHANGED <<cmd, attempt, faults, effectVars, requestVars>>

\* settle_deleted_command: cancel what has not started; if an effect may exist
\* the claim goes on to reconcile it.
SettleDeleted(w) ==
  LET c == worker[w].c
      wins == cmd[c].state \in Claimable /\ AtVersion(w) /\ ~MayHaveStarted(c) /\ ActiveClaim(w)
  IN
  /\ worker[w].pc = "deleted"
  /\ \/ wins /\ SetCommand(c, "cancelled") /\ ReleaseRow(c, "failed", FALSE) /\ Leave(w)
     \/ ~wins /\ Goto(w, "start") /\ UNCHANGED <<cmd, outbox>>
  /\ UNCHANGED <<attempt, faults, effectVars, requestVars>>

\* start_command: its WHERE clause.
StartWins(w) ==
  LET c == worker[w].c IN
  /\ cmd[c].state \in Claimable /\ AtVersion(w)
  /\ c \notin overdue \/ MayHaveStarted(c)
  /\ SessionAllows(c) /\ ActiveClaim(w)

Start(w) ==
  /\ worker[w].pc = "start"
  /\ \/ /\ StartWins(w) /\ SetCommand(worker[w].c, "running")
        /\ worker' = [worker EXCEPT ![w] = [@ EXCEPT !.pc = "permit",
                                                       !.ver = cmd[worker[w].c].version + 1]]
     \/ ~StartWins(w) /\ Goto(w, "expire") /\ UNCHANGED cmd
  /\ UNCHANGED <<outbox, attempt, faults, effectVars, requestVars>>

\* expire_claimed_command; a command that did not expire is left to recovery.
ExpireClaimed(w) ==
  LET c == worker[w].c
      wins == /\ cmd[c].state \in Claimable /\ AtVersion(w) /\ c \in overdue
              /\ ~MayHaveStarted(c) /\ ActiveClaim(w)
  IN
  /\ worker[w].pc = "expire" /\ Leave(w)
  /\ \/ wins /\ SetCommand(c, "expired") /\ ReleaseRow(c, "failed", FALSE)
     \/ ~wins /\ UNCHANGED <<cmd, outbox>>
  /\ UNCHANGED <<attempt, faults, effectVars, requestVars>>

\* acquire_command_execution_permit: it inserts the attempt row with attempts 0,
\* and leaves a row that exists alone.
Permit(w) ==
  LET c == worker[w].c
      wins == cmd[c].state = "running" /\ AtVersion(w) /\ SessionAllows(c) /\ ActiveClaim(w)
  IN
  /\ worker[w].pc = "permit"
  /\ \/ wins /\ intent[c] \notin EffectIntents /\ Goto(w, "search") /\ UNCHANGED attempt
     \/ /\ wins /\ intent[c] \in EffectIntents /\ Goto(w, "execute")
        /\ IF attempt[c].state = "none" THEN SetAttempt(c, "running", FALSE)
           ELSE UNCHANGED attempt
     \/ ~wins /\ Leave(w) /\ UNCHANGED attempt
  /\ UNCHANGED <<cmd, outbox, faults, effectVars, requestVars>>

\* settle_processing_error finds every state unsettled.
SettlesAs_AnyState(c) == "finish"

\* settle_processing_error: which of its two branches the command's state takes.
SettlesAs(c) == IF cmd[c].state \in Terminal THEN "release" ELSE "finish"

\* settle_processing_error reads the command again and fails it under the active
\* fence; the row of a command that has ended is only released.
SettleProcessingError(w, retryable) ==
  LET c == worker[w].c IN
  /\ Leave(w)
  /\ \/ /\ SettlesAs(c) = "finish" /\ ActiveClaim(w)
        /\ FailCommand(c, worker[w].row, retryable)
     \/ /\ SettlesAs(c) = "release" /\ HoldsClaim(w)
        /\ ReleaseRow(c, RowFailureState(worker[w].row, retryable), FALSE)
        /\ UNCHANGED <<cmd, attempt>>
     \/ /\ ~ActiveClaim(w) /\ ~(SettlesAs(c) = "release" /\ HoldsClaim(w))
        /\ UNCHANGED <<cmd, outbox, attempt>>
  /\ UNCHANGED <<effectVars, requestVars>>

\* The persisted policy or arguments do not pass what the deployed code now
\* expects: a permanent error.
RejectPersisted(w) ==
  /\ PolicyMayChange
  /\ worker[w].pc = "start" /\ SettleProcessingError(w, FALSE) /\ UNCHANGED faults

\* A database call of the worker outside the executor fails: a transient error.
ProcessingError(w) ==
  /\ worker[w].pc \in {"claimed", "deleted", "start", "expire", "permit",
                       "succeed", "retry", "fail"}
  /\ Fault /\ SettleProcessingError(w, TRUE)

-----------------------------------------------------------------------------
(* action_effects::execute. *)

\* history::search changes nothing.
Search(w) ==
  /\ worker[w].pc = "search" /\ Goto(w, "succeed")
  /\ UNCHANGED <<cmd, outbox, attempt, faults, effectVars, requestVars>>

\* The attempt row is read, and with it a reminder row that already exists.
\* An earlier attempt decides how this one proceeds.
ReadAttempt(w) ==
  LET c == worker[w].c
      materialised == intent[c] = "create_reminder" /\ effect[c] # "none"
  IN
  /\ worker[w].pc = "execute"
  /\ \/ attempt[c].state = "succeeded" /\ Goto(w, "succeed")
     \/ MustReconcile(c) /\ materialised /\ Goto(w, "record")
     \/ MustReconcile(c) /\ ~materialised /\ mode = "external" /\ Goto(w, "status")
     \/ MustReconcile(c) /\ ~materialised /\ mode = "disabled" /\ Goto(w, "retry")
     \/ MustReconcile(c) /\ ~materialised /\ mode = "internal" /\ Goto(w, "begin")
     \/ attempt[c].state # "succeeded" /\ ~MustReconcile(c) /\ Goto(w, "begin")
  /\ UNCHANGED <<cmd, outbox, attempt, faults, effectVars, requestVars>>

\* The provider holds an undecided request, or a slow worker may yet make one.
Undecided(c) ==
  \/ prov[c] \in {"inflight", "accepted"}
  \/ prov[c] = "none" /\ \E w \in Workers : worker[w].c = c /\ worker[w].pc = "effect"

\* The status endpoint answers, or the call fails in a way that may pass (HTTP
\* 408, 425, 429 or 5xx, the network).  Anything but a terminal state is a 503;
\* so is the absence of a status endpoint for a draft.  A failed call counts
\* against FaultBound, and so does an answer while the request is undecided.
Status(w) ==
  LET c == worker[w].c IN
  /\ worker[w].pc = "status"
  /\ \/ /\ External(c) /\ prov[c] = "delivered"
        /\ worker' = [worker EXCEPT ![w] = [@ EXCEPT !.pc = "materialise",
                                                       !.resp = "succeeded"]]
        /\ UNCHANGED <<effect, faults>>
     \/ /\ External(c) /\ prov[c] = "rejected" /\ Goto(w, "fail")
        /\ effect' = IF intent[c] = "send_message" /\ effect[c] # "none"
                     THEN [effect EXCEPT ![c] = "failed"] ELSE effect
        /\ UNCHANGED faults
     \/ /\ ~External(c) \/ (prov[c] = "none" /\ ~Undecided(c))
        /\ Goto(w, "retry") /\ UNCHANGED <<effect, faults>>
     \/ /\ External(c) /\ (prov[c] # "none" \/ Undecided(c))
        /\ Goto(w, "retry") /\ Fault /\ UNCHANGED effect
  /\ UNCHANGED <<cmd, outbox, attempt, prov, begun, sends, denied, requestVars>>

\* The status endpoint refuses to say: any other HTTP 4xx is a permanent error,
\* whatever has become of the delivery.
StatusRefused(w) ==
  LET c == worker[w].c IN
  /\ worker[w].pc = "status" /\ External(c) /\ Fault
  /\ denied' = denied \cup {c} /\ Goto(w, "fail")
  /\ UNCHANGED <<cmd, outbox, attempt, effect, prov, begun, sends, requestVars>>

\* due_at has passed when a fresh reminder is validated, before or after its
\* attempt is begun: a permanent error.
RejectDueAt(w) ==
  /\ worker[w].pc \in {"begin", "effect"}
  /\ intent[worker[w].c] = "create_reminder"
  /\ Goto(w, "fail")
  /\ UNCHANGED <<cmd, outbox, attempt, faults, effectVars, requestVars>>

\* begin_effect_attempt_sql: its WHERE clause.
BeginWins(w) ==
  LET c == worker[w].c IN
  /\ attempt[c].state \in {"running", "retrying", "unknown"}
  /\ cmd[c].state = "running" /\ AtVersion(w) /\ SessionAllows(c) /\ ActiveClaim(w)

\* begin_effect_attempt: the boundary after which an effect may exist.  Its
\* loser reuses a result recorded meanwhile or fails permanently.
Begin(w) ==
  LET c == worker[w].c IN
  /\ worker[w].pc = "begin"
  /\ \/ /\ BeginWins(w) /\ SetAttempt(c, "running", TRUE)
        /\ begun' = [begun EXCEPT ![c] = @ + 1] /\ Goto(w, "effect")
     \/ /\ ~BeginWins(w) /\ attempt[c].state = "succeeded" /\ Goto(w, "succeed")
        /\ UNCHANGED <<attempt, begun>>
     \/ /\ ~BeginWins(w) /\ attempt[c].state # "succeeded" /\ Goto(w, "fail")
        /\ UNCHANGED <<attempt, begun>>
  /\ UNCHANGED <<cmd, outbox, effect, prov, sends, denied, faults, requestVars>>

\* The configuration disables the effect: a permanent error after the begin.
RefuseDisabled(w) ==
  /\ worker[w].pc = "effect" /\ Refused(worker[w].c) /\ Goto(w, "fail")
  /\ UNCHANGED <<cmd, outbox, attempt, faults, effectVars, requestVars>>

\* providers::send puts the request on the wire; the provider keeps what it
\* already holds under the same idempotency key.
Send(w) ==
  LET c == worker[w].c IN
  /\ worker[w].pc = "effect" /\ External(c) /\ Goto(w, "sending")
  /\ sends' = [sends EXCEPT ![c] = @ + 1]
  /\ prov' = IF prov[c] = "none" THEN [prov EXCEPT ![c] = "inflight"] ELSE prov
  /\ UNCHANGED <<cmd, outbox, attempt, effect, begun, denied, faults, requestVars>>

\* What a worker makes of an accepted request that took any 2xx for success.
ResponseOf_AcceptedIsSuccess(c) ==
  IF prov[c] \in {"accepted", "delivered"} THEN "succeeded" ELSE "failed"

\* send_delivery_state of the answer, by what the provider has done.
ResponseOf(c) ==
  IF prov[c] = "delivered" THEN "succeeded"
  ELSE IF prov[c] = "rejected" THEN "failed" ELSE "pending"

\* The answer arrives.  A message is materialised whatever its delivery state;
\* a reminder only when it was scheduled.  The last disjunct is an HTTP 4xx of
\* the request itself.
SendReturns(w) ==
  LET c == worker[w].c
      resp == ResponseOf(c)
  IN
  /\ worker[w].pc = "sending" /\ prov[c] \in {"accepted", "delivered", "rejected"}
  /\ \/ /\ resp = "succeeded" \/ intent[c] = "send_message"
        /\ worker' = [worker EXCEPT ![w] = [@ EXCEPT !.pc = "materialise", !.resp = resp]]
     \/ intent[c] = "create_reminder" /\ resp = "failed" /\ Goto(w, "fail")
     \/ intent[c] = "create_reminder" /\ resp = "pending" /\ Goto(w, "retry")
     \/ prov[c] = "rejected" /\ Goto(w, "fail")
  /\ IF resp = "pending" THEN Fault ELSE UNCHANGED faults
  /\ UNCHANGED <<cmd, outbox, attempt, effectVars, requestVars>>

\* The request times out, or its answer is lost or unusable: a 503.
SendTimesOut(w) ==
  /\ worker[w].pc = "sending" /\ Fault /\ Goto(w, "retry")
  /\ UNCHANGED <<cmd, outbox, attempt, effectVars, requestVars>>

\* INSERT OR IGNORE of the effect row; the delivery state of an external message
\* is then bound to it, whatever it was.
EffectAfter(c, resp) ==
  IF intent[c] = "send_message" /\ External(c)
  THEN CASE resp = "succeeded" -> "sent" [] resp = "failed" -> "failed" [] OTHER -> "queued"
  ELSE CASE effect[c] # "none" -> effect[c]
         [] intent[c] = "create_reminder" -> "scheduled"
         [] intent[c] = "create_draft" -> "draft"
         [] OTHER -> "queued"

Materialise(w) ==
  LET c == worker[w].c
      resp == worker[w].resp
  IN
  /\ \/ worker[w].pc = "materialise"
     \/ worker[w].pc = "effect" /\ ~External(c) /\ ~Refused(c)
  /\ effect' = [effect EXCEPT ![c] = EffectAfter(c, resp)]
  /\ Goto(w, CASE resp = "pending" -> "retry"
               [] resp = "failed" -> "fail"
               [] OTHER -> "record")
  /\ UNCHANGED <<cmd, outbox, attempt, prov, begun, sends, denied, faults, requestVars>>

\* record_attempt: an upsert without a fence.
Record(w) ==
  /\ worker[w].pc = "record"
  /\ SetAttempt(worker[w].c, "succeeded", TRUE) /\ Goto(w, "succeed")
  /\ UNCHANGED <<cmd, outbox, faults, effectVars, requestVars>>

\* A database call of the executor fails: a transient failure of the command.
ExecutorError(w) ==
  /\ worker[w].pc \in {"search", "execute", "begin", "effect", "materialise", "record"}
  /\ Fault /\ Goto(w, "retry")
  /\ UNCHANGED <<cmd, outbox, attempt, effectVars, requestVars>>

-----------------------------------------------------------------------------
(* Finishing, recovery, and the requests that race with the workers. *)

\* The generation and the lease are not compared.
FinishWins_AnyGeneration(w) == cmd[worker[w].c].state = "running"

\* The command is still the generation this worker started, under its lease.
FinishWins(w) ==
  cmd[worker[w].c].state = "running" /\ AtVersion(w) /\ ActiveClaim(w)

FinishSuccess(w) ==
  LET c == worker[w].c IN
  /\ worker[w].pc = "succeed" /\ Leave(w)
  /\ \/ FinishWins(w) /\ SetCommand(c, "succeeded") /\ ReleaseRow(c, "succeeded", FALSE)
     \/ ~FinishWins(w) /\ UNCHANGED <<cmd, outbox>>
  /\ UNCHANGED <<attempt, faults, effectVars, requestVars>>

FinishFailure(w) ==
  /\ worker[w].pc \in {"retry", "fail"} /\ Leave(w)
  /\ \/ FinishWins(w) /\ FailCommand(worker[w].c, worker[w].row, worker[w].pc = "retry")
     \/ ~FinishWins(w) /\ UNCHANGED <<cmd, outbox, attempt>>
  /\ UNCHANGED <<faults, effectVars, requestVars>>

\* The isolate is evicted, or its drain stops: the lease stays behind.
Crash(w) ==
  /\ worker[w].pc # "idle" /\ Fault /\ Leave(w)
  /\ UNCHANGED <<cmd, outbox, attempt, effectVars, requestVars>>

LeaseExpired(c) == outbox[c].state = "running" /\ ~outbox[c].live

\* The state of a resumed row, by the state of its command.
ResumedRow == [queued |-> "queued", retryable |-> "retrying", unknown |-> "unknown"]

\* Recovery that looks after the running commands only.
RecoveryOf_RunningOnly(c) ==
  IF cmd[c].state \in Terminal THEN "orphan"
  ELSE IF cmd[c].state \in Claimable THEN "none"
  ELSE IF outbox[c].claims >= MaxAttempts THEN "exhausted" ELSE "retry"

\* expired_claim_recovery, and the attempt limit for a running command.
RecoveryOf(c) ==
  IF cmd[c].state \in Terminal THEN "orphan"
  ELSE IF cmd[c].state \in Claimable THEN "resume"
  ELSE IF outbox[c].claims >= MaxAttempts THEN "exhausted" ELSE "retry"

\* recover_stale_claims, for the row of c.
Recover(c) ==
  /\ LeaseExpired(c)
  /\ \/ /\ RecoveryOf(c) = "orphan"
        /\ ReleaseRow(c, "failed", FALSE) /\ UNCHANGED <<cmd, attempt>>
     \/ /\ RecoveryOf(c) = "resume"
        /\ ReleaseRow(c, ResumedRow[cmd[c].state], TRUE) /\ UNCHANGED <<cmd, attempt>>
     \/ /\ RecoveryOf(c) = "exhausted"
        /\ FailCommand(c, outbox[c].claims, TRUE)
     \/ /\ RecoveryOf(c) = "retry"
        /\ SetCommand(c, "retryable") /\ ReleaseRow(c, "retrying", TRUE)
        /\ UNCHANGED attempt
  /\ UNCHANGED <<worker, faults, effectVars, requestVars>>

\* A row nobody has claimed is failed together with its command.
AbandonRow(c) ==
  IF outbox[c].state \in {"queued", "retrying", "unknown"}
  THEN ReleaseRow(c, "failed", FALSE) ELSE UNCHANGED outbox

\* mark_expired, of the sweep that starts every drain or of a request.
MarkExpired(c) ==
  /\ cmd[c].state \in Claimable /\ c \in overdue /\ ~MayHaveStarted(c)
  /\ SetCommand(c, "expired") /\ AbandonRow(c)
  /\ UNCHANGED <<attempt, worker, faults, effectVars, requestVars>>

\* cancel reads the command, and its session, which its batch does not check
\* again.  A command whose TTL has passed is expired instead.
CancelRead(c) ==
  /\ cancelling[c] = 0 /\ c \notin deleted
  /\ cmd[c].state \in {"queued", "retryable", "running"}
  /\ c \notin overdue \/ cmd[c].state = "running" \/ MayHaveStarted(c)
  /\ cancelling' = [cancelling EXCEPT ![c] = cmd[c].version]
  /\ UNCHANGED <<cmd, outbox, attempt, worker, faults, effectVars,
                 mode, intent, deleted, overdue>>

\* cancel_command_sql and cancel_outbox_sql: a row that is running is left to
\* the worker that holds it.
CancelApply(c) ==
  LET wins == /\ cmd[c].state \in {"queued", "retryable", "running"}
              /\ cmd[c].version = cancelling[c] /\ ~RecoverableAttempt(c)
  IN
  /\ cancelling[c] # 0 /\ cancelling' = [cancelling EXCEPT ![c] = 0]
  /\ \/ wins /\ SetCommand(c, "cancelled") /\ AbandonRow(c)
     \/ ~wins /\ UNCHANGED <<cmd, outbox>>
  /\ UNCHANGED <<attempt, worker, faults, effectVars, mode, intent, deleted, overdue>>

\* phone_delete_session: its batch also cancels the local reminders.
DeleteSession(c) ==
  /\ c \notin deleted /\ deleted' = deleted \cup {c}
  /\ effect' = IF effect[c] = "scheduled" /\ mode # "external"
               THEN [effect EXCEPT ![c] = "cancelled"] ELSE effect
  /\ UNCHANGED <<cmd, outbox, attempt, worker, faults, prov, begun, sends, denied,
                 mode, intent, overdue, cancelling>>

-----------------------------------------------------------------------------
(* Time and the provider. *)

Held(c) == \E w \in Workers : worker[w].c = c /\ HoldsClaim(w)

\* The lease of a claim nobody works on any more runs out ...
LeaseExpires(c) ==
  /\ outbox[c].state = "running" /\ outbox[c].live /\ ~Held(c)
  /\ outbox' = [outbox EXCEPT ![c].live = FALSE]
  /\ UNCHANGED <<cmd, attempt, worker, faults, effectVars, requestVars>>

\* ... or a worker is slower than its lease.
Stall(c) ==
  /\ outbox[c].state = "running" /\ outbox[c].live /\ Held(c) /\ Fault
  /\ outbox' = [outbox EXCEPT ![c].live = FALSE]
  /\ UNCHANGED <<cmd, attempt, worker, effectVars, requestVars>>

\* The backoff or the reconciliation delay of an unclaimed row has passed.
BecomesDue(c) ==
  /\ outbox[c].state \in {"queued", "retrying", "unknown"} /\ ~outbox[c].due
  /\ outbox' = [outbox EXCEPT ![c].due = TRUE]
  /\ UNCHANGED <<cmd, attempt, worker, faults, effectVars, requestVars>>

TtlPasses(c) ==
  /\ c \notin overdue /\ overdue' = overdue \cup {c}
  /\ UNCHANGED <<cmd, outbox, attempt, worker, faults, effectVars,
                 mode, intent, deleted, cancelling>>

\* The provider receives a request and decides it.
ProviderSettles(c) ==
  /\ \/ prov[c] = "inflight" /\ prov' = [prov EXCEPT ![c] = "accepted"]
     \/ /\ prov[c] = "accepted"
        /\ \E p \in {"delivered", "rejected"} : prov' = [prov EXCEPT ![c] = p]
  /\ UNCHANGED <<cmd, outbox, attempt, worker, faults, effect, begun, sends, denied,
                 requestVars>>

\* A request is lost on the wire.
RequestLost(c) ==
  /\ prov[c] = "inflight" /\ Fault /\ prov' = [prov EXCEPT ![c] = "none"]
  /\ UNCHANGED <<cmd, outbox, attempt, worker, effect, begun, sends, denied, requestVars>>

-----------------------------------------------------------------------------
\* What a drain does by itself, without a fault.
WorkerStep(w) ==
  \/ \E c \in Commands : Select(w, c)
  \/ Claim(w) \/ Load(w) \/ SettleDeleted(w) \/ Start(w) \/ ExpireClaimed(w)
  \/ Permit(w) \/ Search(w) \/ ReadAttempt(w) \/ Status(w) \/ Begin(w)
  \/ RefuseDisabled(w) \/ Send(w) \/ SendReturns(w) \/ Materialise(w)
  \/ Record(w) \/ FinishSuccess(w) \/ FinishFailure(w)

\* What may go wrong for it.
WorkerFault(w) ==
  \/ RejectPersisted(w) \/ ProcessingError(w) \/ RejectDueAt(w) \/ StatusRefused(w)
  \/ SendTimesOut(w) \/ ExecutorError(w) \/ Crash(w)

\* What time, the provider and the next drain do to a command.
Environment(c) ==
  Recover(c) \/ LeaseExpires(c) \/ BecomesDue(c) \/ ProviderSettles(c)

\* What a user, or an accident, does to a command.
Interference(c) ==
  \/ MarkExpired(c) \/ CancelRead(c) \/ CancelApply(c) \/ DeleteSession(c)
  \/ TtlPasses(c) \/ Stall(c) \/ RequestLost(c)

Next ==
  \/ \E w \in Workers : WorkerStep(w) \/ WorkerFault(w)
  \/ \E c \in Commands : Environment(c) \/ Interference(c)

Spec == Init /\ [][Next]_vars

\* The cron trigger starts a drain every minute, a drain that meets no fault
\* processes its row to the end, time passes, and the provider decides what it
\* has received.
Fairness ==
  /\ \A w \in Workers : WF_vars(WorkerStep(w))
  /\ \A c \in Commands : /\ WF_vars(Recover(c)) /\ WF_vars(LeaseExpires(c))
                         /\ WF_vars(BecomesDue(c)) /\ WF_vars(ProviderSettles(c))

FairSpec == Spec /\ Fairness

-----------------------------------------------------------------------------
(* Properties. *)

\* At most one request to deliver is ever made for a command, whatever crashes,
\* stalls, retries and concurrent drains there are: the permit, the begun flag
\* and the reconciliation of execute() together replace the transaction that
\* cannot include the provider.
AtMostOneSend == \A c \in Commands : sends[c] <= 1

\* Why there is at most one.  A token is made by one claim, so of the workers on
\* one command at most one holds the lease ...
LeasesAreDistinct ==
  \A w \in Workers :
    worker[w].pc \notin {"idle", "page"} =>
      /\ worker[w].claim <= outbox[worker[w].c].claims
      /\ \A u \in Workers :
           /\ u # w /\ worker[u].c = worker[w].c
           /\ worker[u].pc \notin {"idle", "page"}
           => worker[u].claim # worker[w].claim

\* ... the attempt row remembers for ever that an effect attempt was begun ...
BegunIsRemembered ==
  \A c \in Commands :
    /\ attempt[c].state = "none" => ~attempt[c].started
    /\ begun[c] > 0 => attempt[c].started

\* ... so the worker that still holds the lease when it is about to begin an
\* external effect, and whose begin the attempt row admits, is the first ...
BeginIsFirst ==
  \A w \in Workers :
    /\ worker[w].pc = "begin" /\ External(worker[w].c) /\ HoldsClaim(w)
    /\ attempt[worker[w].c].state \in {"running", "retrying", "unknown"}
    => begun[worker[w].c] = 0

\* ... and the request is made once by that worker and by no other.
OneSender ==
  /\ \A c \in Commands :
       /\ sends[c] <= begun[c]
       /\ IF External(c) THEN begun[c] <= 1 ELSE sends[c] = 0
  /\ \A w \in Workers :
       worker[w].pc = "effect" /\ External(worker[w].c) =>
         /\ begun[worker[w].c] = 1 /\ sends[worker[w].c] = 0
         /\ \A u \in Workers :
              worker[u].pc = "effect" /\ worker[u].c = worker[w].c => u = w

\* The inductive strengthening of AtMostOneSend.
SendInv ==
  TypeOK /\ LeasesAreDistinct /\ BegunIsRemembered /\ BeginIsFirst /\ OneSender

\* A command that was cancelled or has expired has had no effect and never will:
\* the predicates over action_attempts in cancel, mark_expired,
\* expire_claimed_command and settle_deleted_command close exactly the window
\* that begin_effect_attempt opens.
AbandonedHasNoEffect ==
  \A c \in Commands :
    cmd[c].state \in {"cancelled", "expired"} =>
      begun[c] = 0 /\ sends[c] = 0 /\ effect[c] = "none" /\ prov[c] = "none"

\* A command that has not ended is either claimed or has a row in the state the
\* selector will find it by: settle_processing_error, recover_stale_claims and
\* finish_failure always move the two tables together.
NoStrandedCommand ==
  \A c \in Commands :
    /\ cmd[c].state = "running" => outbox[c].state = "running"
    /\ cmd[c].state \in Claimable => outbox[c].state \in {"running", ResumedRow[cmd[c].state]}

\* A command reported as succeeded has its result recorded, its effect row
\* exists, and an external provider has really delivered it.
SuccessIsReal ==
  \A c \in Commands :
    cmd[c].state = "succeeded" /\ intent[c] \in EffectIntents =>
      /\ attempt[c].state = "succeeded" /\ effect[c] # "none"
      /\ External(c) => prov[c] = "delivered"

\* An external effect that was delivered is reported as failed only if the status
\* endpoint has refused a request about it: a transient failure, a lost lease or an
\* exhausted budget leads to a reconciliation instead.
DeliveredIsNotFailed ==
  \A c \in Commands : cmd[c].state = "failed" /\ prov[c] = "delivered" => c \in denied

\* A disabled provider mode lets no reminder or message come into being.
DisabledHasNoEffect ==
  mode = "disabled" =>
    \A c \in Commands : effect[c] \in {"none", "draft"} /\ prov[c] = "none"

\* The state of a command never contradicts what has become of its effect, in the
\* database and with the provider.
VerdictIsTrue ==
  AbandonedHasNoEffect /\ SuccessIsReal /\ DeliveredIsNotFailed /\ DisabledHasNoEffect

\* What ended stays ended, and every change of state is one version further:
\* clients resume by version, and every compare-and-set relies on it.
EndsOnceStep ==
  \A c \in Commands :
    /\ cmd[c].state \in Terminal => cmd'[c] = cmd[c]
    /\ cmd'[c] # cmd[c] => cmd'[c].version = cmd[c].version + 1

EndsOnce == [][EndsOnceStep]_vars

\* With the database as provider every command ends, whatever faults there are on
\* the way: no claim, backoff, exhausted budget, cancellation or expiry leaves it
\* behind.  (An external request that was lost is asked after for ever.)
EventuallySettled ==
  mode = "internal" => \A c \in Commands : <>(cmd[c].state \in Terminal)

\* What the provider has delivered is eventually reported as a success, unless
\* the status endpoint refuses to say so: that alone ends the command otherwise.
DeliveryIsReported ==
  \A c \in Commands :
    prov[c] = "delivered" ~>
      \/ cmd[c].state = "succeeded"
      \/ cmd[c].state = "failed" /\ c \in denied

=============================================================================
