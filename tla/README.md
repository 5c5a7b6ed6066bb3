# Formal model of knock-knock-backend

TLA+ modules, TLC configurations and TLAPS proofs for the Rust backend of Knock
Knock: a Cloudflare Worker with a D1 database that takes commands from a phone,
has them confirmed, executes them through an outbox, and tells the phone what
became of them.

Its first subject is the **command lifecycle**, the part of the code that has to give
a transactional promise without a transaction: requests, cron passes and evicted
isolates interleave between the database statements, and the provider calls that
matter most (a message, a reminder, an APNs notification, a cancellation) are in
no batch at all. Its second are the **sessions** in which an agent offers actions and
a phone decides about them, and the **services** both rely on: idempotency keys,
voice asks, credentials, devices, rate limits, retention, memories, and the feed
that phones follow.

Contents: [the system](#the-system) · [modules](#modules) ·
[abstractions](#abstractions) · [runs](#runs) · [fairness](#fairness) ·
[proofs](#proofs) · [divergences](#divergences) · [not modelled](#not-modelled) ·
[plan](#plan)

To repeat a run, in this directory: `tlc -workers 2 -config X.cfg M`, with X and M
from the table of runs; `tlapm P.tla` checks the proofs of a proof module P.

## The system

Line numbers of each definition are in `PROJECT.json`, under `map`; the hazards, each
at the line where it bites, under `hazards`.

### Execution model

Every HTTP request and every cron event runs in an isolate of its own, which may be
evicted at any `await`. They share nothing but D1. One statement, and one
`batch()` of statements, is atomic; between two of them anything may happen, a
second pass over the same row included. Within a batch each statement reads
the clock again. The cron trigger (`run_scheduled_outbox`, lib.rs) fires every
minute and runs, in this order: `reconcile_succeeded_cancellations`,
`outbox::drain`, `reconcile_external_cancellations`, `reminders::drain_due`,
`purge_expired_all`. `create` and `confirm` run `outbox::drain` inline after
their batch. Nothing keeps one pass from overlapping the next.

### Components: the command lifecycle

| Component | State | Operations | What is hard | Correct when |
|---|---|---|---|---|
| **commands** (commands.rs) | `commands` (state, version, payload hash, expiry), `confirmation_tokens` | create, replay under the idempotency key, confirm, cancel, mark_expired, undo | two clients under one key; tokens rotated while in flight; the clock read twice in a batch; cancel against the start of the effect | one token is the authority; a command is queued once, by the newest token; an abandoned command has no effect |
| **outbox** (outbox.rs) | `outbox_events`: state, lease token and expiry, attempts, next attempt | drain: expire, recover, select, claim, load, start, permit, execute, finish | overlapping drains, leases outlived, evictions, errors half-way | no command is stranded; it ends; what ended stays |
| **wake rows** (outbox.rs, `command.wakeup.apns`) | outbox row and attempt row per device and version | preflight, acquire the permit, send, settle, recover | APNs has no status to ask for, so an answer that is lost can never be cleared up | a device is woken at most once; the record is never the opposite of what happened |
| **action_effects** | `action_attempts` (the fence), `reminders`, `drafts`, `outbound_messages` | execute, record, undo, reconcile pending and succeeded cancellations | the provider call lies between two statements; the attempt row has no token | an effect is begun once; success means it exists; undone means cancelled |
| **providers** | configuration: internal, external or disabled | send, status, cancel (webhooks with an idempotency key) | accepted is not delivered; answers late, lost, or unusable | no delivery state is invented |
| **reminders** | status, notification state and attempts of a `reminders` row | cancel orphans, recover stale claims, page, claim, notify, finish | the claim has no token, drains overlap, the page is stale | delivered once unless something failed; completed means delivered; handled in the end |
| **push** | `pushes` under a dedupe key | enqueue, notify_user by `PUSH_MODE`; read, mark, dismiss | the dedupe key covers the inbox and not the device | as for reminders |
| **apns** | JWT cached in the isolate | send_alert, send_command_wakeup | retryable, permanent and unknown failures | their class decides whether a wake may be repeated |
| **router and trigger** (lib.rs) | none | dispatch, the cron order above, `phone_delete_session`, the response after an inline drain | a response is put together from a body and a later snapshot | a response carries a token that can be used |
| **migrations** | the schema: CHECKed states, unique keys | - | - | the unique keys the modules rely on |

How they interact. `create` or `confirm` leaves a command `queued` and inserts the
one `command.execute` row of it in the same batch. A drain claims that row, starts
the command, obtains a permit in `action_attempts`, begins the effect in the same
table, calls the provider or writes the effect row, records the attempt, and ends
command and row in a final batch, which also inserts the audit row, the
`phone_changes` row of the sync cursor and the wake row of each device. A wake row
is claimed by a later pass over the same table. A reminder that an effect made is
delivered by `reminders::drain_due` when it comes due, or taken back by
`commands::undo`, or cancelled by the deletion of its session.

### Components: agents, phones and their sessions

| Component | State | Operations | What is hard | Correct when |
|---|---|---|---|---|
| **sessions and actions** (sessions.rs) | `sessions`, `events`, `actions` | update_progress, report_event, list_queued_actions with claim_actions, submit_action_result, phone_reply, phone_confirm, reconcile_waiting_session, expiry, phone_delete_session | handlers read, decide, and write a batch whose statements are guarded one by one; the phone picks an action while the agent supersedes it, polls it, or it expires | an action goes through its statuses in order and once; an event is answered once; what was cancelled is not done; a deleted session stays as it was |
| **asks** (asks.rs) | `phone_asks`: queued, claimed, expired | create_ask with its replay, list_agent_asks, claim_asks, expire_asks | session, ask and message are three statements; the listener may change in between | a phone is told of its own ask only, with its message; an ask is claimed or expires once |
| **listener bindings** | active, expired, revoked, a lease | register, take over, disconnect, expire | revoking the others and activating oneself are two statements | one listener |
| **phone operations** | idempotency key, claim token, 300 s lease, answer | begin (insert or take over), complete, release | a repetition while the first request runs, or after it stopped | an answer stays the answer of its key, and is true |
| **auth, pairing, refresh** (auth.rs, lib.rs) | `refresh_tokens`, `pairing_codes`, `agents` | login, refresh with rotation, logout, create and claim a code | rotation and issue are two statements; two claims of one code | a login has one token; a code makes one agent |
| **devices** (lib.rs) | `devices` | register_device | the row is looked for before the batch that writes | a push token is bound to one row |
| **history and retention** (history.rs) | `retrieval_items`, snapshots in R2, tombstones | purge_expired, purge_expired_all | objects, rows and changes go one after the other; sweeps overlap; snapshots are shared | no retrieval loses its snapshot to another; no snapshot is left behind |
| **sync cursor** (phone_sync) | `phone_changes` | append with each transition, page | the page's limit, changes of rows that are gone by now | a phone that read to the end holds what is there |
| **rate limits** (rate_limits.rs) | a counter per 60 s window | upsert, then read | others count between the two | a window admits no more than the limit |
| **memories** (memories.rs) | memories by key, request hash, tombstone | create, delete, expire | repeated creates, of other content too; deletes that read before | no revival; a request is answered with its own memory |
| **skills** | manifests | upsert, parse | - | - |
| **pagination, audit, db, error, models** | none of their own | encoding, logging, row types | - | - |
| **scripts and contracts** | none | smoke tests, release, API description | - | - |

How they interact. A phone's reply or confirmation goes through a *phone operation*
around the handler of sessions.rs, so that a repetition is answered and not done
again. An ask creates a session and a message in it, which the agent's chat finds
by polling. The feed is written by triggers and by the sweeps, and read by phones
after each of them.

## Modules

| Module | What it models |
|---|---|
| `Outbox` | Execution of queued commands: drains, leases, recovery, executor, providers' answers, and the cancellation, expiry and session deletion that race with them |
| `Confirmation` | How a command comes to be queued: create, replay, token rotation, confirm, cancel, expiry |
| `Reminders` | Delivery of a reminder that came due |
| `Undo` | Cancellation of a reminder an external provider has scheduled, and its two reconciliations |
| `ApnsWake` | The wake rows |
| `WakeOnce` | What the wake rows promise, as an abstract specification `ApnsWake` implements |
| `Sessions` | A session between an agent and the phones of its user |
| `ActionLifecycle` | What sessions.rs promises about each action, as an abstract specification `Sessions` implements |
| `PhoneOperations` | Idempotency keys around a reply or a confirmation |
| `Asks` | Voice asks and the listener bindings of an agent |
| `Credentials` | Refresh tokens and pairing codes |
| `Devices` | Registration of devices and push tokens |
| `RateLimits` | One bucket |
| `Feed` | `phone_changes` and the phones that follow it; extended by the next two |
| `Retention` | The end of retrievals and of their snapshots |
| `Memories` | Memories by idempotency key |
| `OutboxProofs`, `ConfirmationProofs`, `RemindersProofs`, `UndoProofs`, `ApnsWakeProofs`, `SessionsProofs` | Theorems about the module of that name, and their proofs |
| `ServicesProofs`, `HistoryProofs` | Theorems about `MCServices`: operations, credentials, devices and limits in the first; memories, asks, retrievals and the feed in the second |
| `ConfirmationDocs`, `RemindersDocs` | What a test or a document says and the code does not do |
| `MCOutbox`, `MCConfirmation`, `MCReminders`, `MCUndo`, `MCApnsWake`, `MCSessions` | The instances TLC checks |
| `MCServices` | The instance that checks `PhoneOperations` to `Memories`, one of them per behaviour |

The modules meet at the tables. `Confirmation` ends where its command is `queued` with
its row, the initial state of `Outbox`. `Outbox` ends with a command that is terminal: the batch that ends it inserts the row in
which `ApnsWake` begins. The effect of a `create_reminder` command in `Outbox` is the
initial state of `Reminders` (which therefore allows that the session is deleted
before the reminder exists: `Outbox` reaches that), and with an external provider
that of `Undo`. The work of an operation in `PhoneOperations` is a reply or a
confirmation of `Sessions`, seen as done or refused.

### Outbox

A *worker* is a drain that processes one row; its `pc` names the statement it comes to
next, and its other fields are the values it holds in memory since an earlier one:
the row's attempts (`row`), its lease token (`claim`), the version of the command
it has read (`ver`) and the provider's answer (`resp`).

| Action | Code |
|---|---|
| `Select`, `Claim` | the page query of `drain`; `claim` |
| `Load`, `SettleDeleted`, `Start`, `ExpireClaimed` | `process_claimed`, `settle_deleted_command`, `start_command`, `expire_claimed_command` |
| `Permit` | `acquire_command_execution_permit` |
| `Search`, `ReadAttempt`, `Status`, `StatusRefused`, `Begin`, `Send`, `SendReturns`, `SendTimesOut`, `Materialise`, `Record`, `RejectDueAt`, `RefuseDisabled` | `action_effects::execute` with the `providers` calls |
| `FinishSuccess`, `FinishFailure` | `finish_success`, `finish_failure_with_fence` |
| `RejectPersisted`, `ProcessingError`, `ExecutorError` | the three error paths: persisted policy, a failed call around the executor (`settle_processing_error`), a failed call in it |
| `Recover` | `recover_stale_claims` with its four branches |
| `MarkExpired`, `CancelRead`, `CancelApply`, `DeleteSession` | `mark_expired`, `cancel` (read and batch), `phone_delete_session` |
| `Crash`, `Stall`, `LeaseExpires`, `BecomesDue`, `TtlPasses`, `ProviderSettles`, `RequestLost` | eviction, time, the provider and the wire |

`begun` and `sends` are history variables: they count how often an effect attempt was
begun and how often a request was put on the wire. `denied` is one too: the commands whose
status request was answered by an HTTP 4xx (`StatusRefused`), which `post_json` makes a
permanent error and `classify_error` a failure of the command, whatever became of its
delivery.

### Confirmation

A request is an `async` handler with its `pc`; `held` is the set of tokens some client
has received, so that a client confirms only with a token it was given. `Create`
chooses a payload, `Insert` is the batch or its unique conflict, `Relookup`,
`Reissue`, `Reread` and `Reply` are the replay, `Read` with `ReadToken` and
`ConfirmApply` the confirmation, `CancelApply` the cancellation. `SweepRead` and
`SweepApply` are the expiry that begins every drain, `ExpireFirst` and `ExpireToken`
that of a request. `ConfirmApply` and `Reissue` let the clock pass a deadline
between two statements of their batch.

### Reminders

`SweepDeleted`, `RecoverStale`, `ReadPage`, `Claim`, `EnqueueInbox`, `SendAlert`,
`EnqueueFallback`, `FinishSent` and `FinishError` are the statements of `drain_due`
and `notify_user` in their order; `Undo` and `DeleteSession` race with them.

### Undo

`Request` is an Undo request, `ReconcilePending` and `ReconcileSucceeded` the two passes.
All three go through `ReadEffect`, `Claim` (the insert of the attempt row),
`ReadExisting` and `Reclaim` (when there is one already), `Call`, then `Answer`,
`AnswerLost` (an error that may pass, recorded as `unknown`) or `AnswerRefused` (an HTTP
4xx, recorded as `failed`), `Finish` (`finish_cancel_attempt`) and `Finalize` (the batch
that undoes reminder and command). The history variable `misled` says that a call was
ended as failed without the provider's word, by a 4xx or by a disabled configuration.

### ApnsWake and WakeOnce

`RecoverRead` and `RecoverApply` are the recovery of an expired wake claim, `Select` and
`Claim` as in `Outbox`, `Preflight` and `PreflightRefuses` what is known before a
permit (no APNs, no device), `Acquire` the durable permit, `ReadUnpermitted` what its
loser does, `Send`, `Answer`, `Refused`, `TryLater` and `AnswerLost` the request,
`Settle` and `SettleFails` the record. `WakeOnce` has one step that wakes and one that
decides: `woken` never exceeds 1, `succeeded` needs a wake (or a deployment that
sends none), `failed` needs that there was none, and a verdict is for ever.

### Sessions and ActionLifecycle

A request has a `pc`, the `goal` it was sent for, and what it read: the state it will
write (`next`), the keys left to choose (`keys`), the rows it lists (`got`). `Start*`
is a handler up to the read its decision rests on, `Write*` its batch.

| Action | Code |
|---|---|
| `StartReport`, `WriteReport` | `report_event`: the insert of the event is the condition of every statement of the batch |
| `StartProgress`, `WriteProgress` | `update_progress` |
| `StartPoll`, `ClaimActions`, `Deliver` | `list_queued_actions`, `claim_actions`, the answer |
| `StartResult`, `WriteResult` | `submit_action_result` |
| `StartReply`, `WriteReply` | `phone_reply`: the choice and the withdrawal of the others, two statements |
| `StartConfirm`, `WriteConfirm` | `phone_confirm`, of a confirmation and of a cancellation |
| `StartDetail`, `WriteDetail` | `reconcile_waiting_session` |
| `RefuseSession`, `RefuseAction` | a handler that finds a lifetime past, marks it and answers 4xx |
| `Delete`, `SessionTimesOut`, `ActionTimesOut`, `Stop` | `phone_delete_session`, time, eviction |

`ActionLifecycle` is the relation between the statuses of one action; several actions
may move in one step, since a batch chooses one and withdraws the others.

### The services

*PhoneOperations.* `BeginOperation`, `LookAtRow`, `TakeOver`, `CompleteOperation` and
`ReleaseOperation` are the statements of phone_operations.rs, `Work` is the handler
between them. The claim token is the request that holds it; a request that stops
takes its token along.
*Asks.* `Register`, `RevokeOthers`, `SaveBinding` and `Disconnect` are the listener's
requests, `StartPoll`, `ListAsks` and `ClaimAsk` its poll, `StartAsk`, `AskSession`,
`InsertAsk` and `EnsureMessage` the creation of an ask.
*Credentials.* `StartRefresh`, `RotateToken` and `IssueToken` are a refresh, `StartClaim`
and `ClaimCode` the claim of a code, whose batch is one step.
*Devices.* `StartRegistration` reads, `WriteRegistration` is the batch.
*RateLimits.* `CountRequest` is the upsert, `Decide` the read that decides.
*Retention.* `StartSweep`, `ReadReferences`, `DeleteObject`, `ExpireRows` and `PublishRow`
are the steps of a sweep, `SweepFails` its end between any two of them.
*Memories.* `InsertMemory` and `AnswerCreate`, `StartDelete` and `DeleteMemory`,
`SweepMemories`; triggers publish in the same step.
*Feed.* `Sync` is `phone_sync` and what the phone does with its page.

## Abstractions

- **Time.** A timestamp that is compared with the clock is a flag that time flips:
  the lease is `live`, the row is `due`, the command is `overdue`, a token is `stale`,
  a claim is `old`; in `Sessions` and the services every lifetime is a `due`. Every order of expiries with every statement is possible.
- **Tokens.** A claim makes a fresh lease token and increments `attempts` in one
  statement, so `claims` stands for the token. Confirmation tokens are numbered in the
  order in which they are issued.
- **One of each.** Commands do not affect each other except through a drain's page, so
  the outbox instances follow one command (the module takes any set, and the theorems
  hold for any set); `Confirmation`, `Reminders`, `Undo` and `ApnsWake` follow one
  idempotency key, one reminder, one undo, one wake row. `Sessions` follows one
  session, `RateLimits` one bucket, `Asks` one agent; `Feed` is the feed of one user.
- **Data.** A payload is a model value, an argument is left out, an error is transient
  or permanent, an answer of the provider is one of what `send_delivery_state` and
  its counterparts make of it.
- **Batches.** Rows a batch inserts under the same `changes()` guard as the
  transition (audit, `phone_changes`, wake rows) are represented by the transition.
- **The provider** decides once: in flight, accepted, delivered or rejected. It keeps
  what it holds under an idempotency key. It is external code, modelled from how
  `providers.rs` calls it.
- **HTTP 4xx.** An answer of 4xx (but for 408, 425 and 429, which are retried) to the request
  that delivers is the provider's refusal. To a status request or a cancellation, which may
  be refused for reasons of their own (a changed credential, a resource the provider has
  forgotten), it says nothing of the delivery, and may come at any time, as a fault.
- **History variables** (`begun`, `sends`, `denied`, `misled`, `alerts`, `woken`, `held`, `told`, `agents`,
  `overlap`, `admitted`, `cut`, `raced`, `split`) are read by no guard but `held`,
  which says which tokens a client can send. `agents` are rows as well.
- **Names.** An action is named by its event and its key, a memory and an ask by their
  idempotency keys, since these are unique by an index.

## Runs

A bound is a constant of its own in every module. `FaultBound` counts whatever the
environment does against a worker: evictions, failed calls, stalls beyond the lease,
lost, retryable or refused answers, and, in `Undo`, deployments that disable the provider.
`ClaimBound` and `TokenBound` end behaviours that would otherwise claim or replay for
ever. Deadlock is not checked, because each system really stops: the command ends,
every actor is done, and only the clock was left to move.

| Run | Instance | Shows |
|---|---|---|
| `outbox_local` | `OutboxLocal.cfg`, `MCOutbox`: 2 drains, all 4 intents, internal and disabled modes, policies that change, 2 attempts, 3 claims, 2 faults; 1.4 M states | `VerdictIsTrue`, `NoStrandedCommand`, `EndsOnce` |
| `outbox_external` | `OutboxExternal.cfg`: 2 drains, reminder and message, external provider; 0.9 M states | `AtMostOneSend`, `VerdictIsTrue` |
| `outbox_live` | `OutboxLive.cfg`: 1 drain with fairness, internal and external, 5 claims, 2 faults | `EventuallySettled`, `DeliveryIsReported` |
| `confirm` | `Confirm.cfg`, `MCConfirmation`: 2 clients, 1 sweep, 2 payloads of which one needs confirmation, 3 tokens, 1 fault; 0.4 M states | `KeyIsOneCommand`, `OneAuthority`, `QueuedByNewestToken`, `ReplayTokenIsCurrent`, `EventuallyDecided` |
| `reminders` | `Reminders.cfg`, `MCReminders`: 2 drains, 3 push modes, 3 attempts, 4 faults; 0.2 M states | `DeliveredOnce`, `StatusIsFinal`, `EventuallyHandled`, `DeletedIsCancelled` |
| `undo` | `Undo.cfg`, `MCUndo`: 2 requests, a cron pass, a mode that changes, 2 faults; 0.1 M states | `UndoneIsReal`, `OneCallAtATime`, `SuccessIsKept`, `CancelledIsReflected` |
| `apns_wake` | `ApnsWake.cfg`, `MCApnsWake`: 3 drains, with and without APNs, 3 attempts, 4 faults; 0.35 M states | the refinement `WakesOnce`, `EventuallyDecided` |
| `sessions` | `Sessions.cfg`, `MCSessions`: 2 events that offer nothing or a safe and a risky action, 2 requests at a time, 1 mishap; 1.9 M states | `OneChoicePerEvent`, `CancelledNeverDone`, the refinement `ImplementsLifecycle`, `DeletedIsFrozen` |
| `services` | `Services.cfg`, `MCServices`: each part with 2 or 3 requests at a time and one or two of everything they share; 0.7 M states | what each part promises, see below |
| `docs_token`, `docs_exhausted`, `docs_tombstone` | the smallest instances that show each | a violation each, see [divergences](#divergences) |

### Why the bounds are enough

- **Two drains** are what the races need: one that is slow and one that took over. A
  third adds another of the same kind; the wake rows, which are small, are run with
  three, and `SendInv` and `WakeInv` are proved for any number.
- **Two requests and one pass** in `Undo`: a pass goes through the steps of a request from the
  effect or from the finalization on, so whatever two passes could do to each other a pass
  and a request, or two requests, can. The safety properties are proved for any numbers.
- **The mode of a behaviour of `Outbox`** is chosen at its beginning and stays: a deployment that
  changes it between two attempts of a command is not exercised there, only in `Undo`.
- **Two attempts instead of three** in `Outbox`: the budget is compared with
  `attempts` in two places, and with 2 both sides of both comparisons occur: a first
  failure, which is retried, an exhausted one, and with three claims the one beyond
  the budget that reconciles an `unknown` outcome. `ApnsWake` and `Reminders` keep
  the code's 3.
- **Two faults** in `Outbox` make the pairs that matter: a stall and a crash of the one
  that took over, a failed record and a failed settlement, a lost answer and a lost
  retry. `outbox_live` has five claims, more than two faults and the budget can use
  up, so that `ClaimBound` never is what stops a behaviour.
- **Three tokens** are the first one and a rotation by each of two competing replays.
- **Four faults** in `Reminders` and `ApnsWake` exceed the three attempts, so that
  each attempt can fail.

- **One mishap** in `Sessions` (a lifetime that passes, a Worker that stops, the deletion)
  meets every pair of handlers at every point; two events are one that supersedes
  the other, and of their two actions one needs a confirmation. Requests begin anew
  when they have ended, so that two at a time make histories of any length.
- **In `Services.cfg`** stops and expiries are not bounded. Three repetitions of one key are
  one that is slow, one that took over and one that finds the answer; three tokens are
  a rotation and its competitor's; a limit of 2 with counts up to `MaxCount` 5 has
  requests on both sides of the limit and more of them than run at a time; a page of
  1 (`Batch`, `FeedLimit`) makes every sweep and sync leave something over. The parts
  share no table but the feed, which only one of them uses in a behaviour, so
  `MCServices` picks a part in its initial state and the others stand still.

### What the properties say

Where several invariants make one promise, a run checks their conjunction, which the
module defines under a name of its own.

*Outbox.* `AtMostOneSend`: one request to deliver per command, whatever happens.
`VerdictIsTrue`: the state of a command never contradicts what became of its effect.
A command that is `cancelled` or `expired` has begun no effect, sent nothing, left no
row and nothing with the provider (`AbandonedHasNoEffect`); one that succeeded has its
result (`SuccessIsReal`), one that failed was not delivered, unless its status request
was answered by an HTTP 4xx (`DeliveredIsNotFailed`),
and a disabled deployment makes nothing but drafts (`DisabledHasNoEffect`).
`NoStrandedCommand`: a command that has not ended has a row some drain will find.
`EndsOnce`: an ended command never changes, every transition is one version further.
`DeliveryIsReported`: what an external provider delivered is reported as a success, with
the same exception.

Their conditions. `EventuallySettled` is claimed with the database as provider only:
an external request that was lost is asked after for ever, and its command stays
`unknown`, which the code wants. With a provider, `VerdictIsTrue` is checked for a
policy that does not change: a deployment that changes the registry's policy between a
delivery and its reconciliation makes `process_claimed` reject the persisted command
permanently, before the executor could ask for the status.

*Confirmation.* `OneAuthority`: never two unused tokens, and a waiting command has one
unless its own time has passed. `KeyIsOneCommand`: one outbox row, in step with the
command (`OneExecution`), and tokens for the payload that was sent only
(`TokenForItsPayload`). `QueuedByNewestToken`: what queues a waiting command is the
newest token, used in that step. `ReplayTokenIsCurrent` is about responses. `EventuallyDecided`: no command waits for ever.

*Reminders.* `DeliveredOnce`: a completed reminder was delivered
(`CompletedWasDelivered`), and a second alert costs a crash, a stall or a failed call,
although claims have no token (`DuplicateNeedsFault`). `EventuallyHandled` holds while drains do not
overlap; with overlap the second divergence below leaves a reminder behind.
`DeletedIsCancelled` includes the reminder an effect makes after the deletion.

*Undo.* `UndoneIsReal` (`UndoneIsCancelled`, `UndoneOnce`) ties the local rows to the
provider.
`CancelledIsReflected`: what the provider cancelled reaches the database, with every
request gone, unless a call about it was recorded as failed without the provider's word.

*ApnsWake.* `WakesOnce` is the refinement of `WakeOnce`.

*Sessions.* `ImplementsLifecycle`: no replay, choice, poll or result that comes late moves
an action back or revives it. `OneChoicePerEvent`: of the actions an event offers one at
most is handed to the agent to be done, although reply, confirmation and their
withdrawals are guarded one by one. `CancelledNeverDone`: a cancellation that is
handed to the agent is never recorded as a success. `DeletedIsFrozen`: after the
deletion only expiry moves an action.

*Services.* `AnswersStand`, `ClaimIsKept`: the answer a phone was given stays the answer of
its key (`ToldIsRecorded`), it is true (`RecordedIsReal`), and nobody else has the
key while its lease lasts. `ToldIsTheAsk`, `AskEndsOnce`, `TwoListenersNeedOverlap`: a phone is told of
its own ask, an ask ends once, and two listeners cost registrations that overlap.
`OneTokenPerLogin`, `OneAgentPerCode`: racing refreshes and claims have one winner.
`OneRowEach`: a push token has one row (`TokenBoundOnce`), and so has a device whose
registrations do not overlap (`TwoRowsNeedOverlap`).
`WindowAdmitsLimit`: counting and deciding in two statements admits no more.
`SnapshotsMatchRows`: a snapshot is there while a retrieval needs it
(`SharedObjectIsKept`) and goes with the last (`NoOrphanObject`), with the exceptions named in [divergences](#divergences).
`ToldIsTheMemory`, `DeletedIsFinal`: as for asks. `SyncedPhoneIsCurrent`: pages of
any limit lead to what is there.

## Fairness

- A step of a drain, a sweep or a reconciliation is weakly fair: the cron trigger
  fires every minute, whatever happened to the last pass, and a pass that meets no
  fault processes its rows to the end.
- Time is weakly fair: leases expire, backoffs pass, a TTL ends.
- The provider is weakly fair in deciding what it has received.
- In `Undo`, a disabled configuration is eventually enabled again.
- `Sessions` and the services have no fairness: what they promise is safety.
- No client, no user, no crash, stall, or change of policy is fair: nobody has to
  confirm, cancel, undo or delete anything, and no property needs them to.

Weak fairness of the whole step of a worker is the weakest form that serves: it does
not choose between a worker's alternatives.

## Proofs

TLAPS checks the eight proof modules to the last leaf, for every value of the
constants. Every invariant, every action property and both refinements that a passing run
checks is a theorem; what is left to TLC alone is liveness, see the
[end](#only-model-checked) of this section.

The assumptions are those the modules name and no others, and TLC evaluates each of
them: the intents and modes are those of the code, `MaxAttempts` is positive, the
bounds are natural numbers, the value that stands for no command, no payload or no
row (`NoCommand`, `NoPayload`, `NoOne`) is none of them, and a request is not a
sweep. The sets of commands, workers, requests, keys, tokens and rows are arbitrary,
infinite ones included, except that `RateLimits` counts its requests and needs them
finite. The theorems on the services are about `MCServices` itself, with all parts in
place, so they need no hypothesis about how a module is instantiated.

One theorem has a hypothesis, `VerdictIsTrueCorrect`; the reason is given below.

**Outbox.** `TypeCorrect` is `Spec => []TypeOK`. `EndsOnceCorrect` follows from it by
cases over the steps: whatever changes a command does so from a state that is not
terminal and increments its version by one.

`AtMostOneSendCorrect` is the central one. `sends[c] <= 1` is not inductive: nothing
in it says why the worker about to send is alone. `SendInv` adds

1. `LeasesAreDistinct`: of the workers on one command no two hold the same claim, as
   each claim makes a new one. So one at most passes a fence.
2. `BegunIsRemembered`: an effect that was begun leaves `started` in the attempt row,
   and no later statement clears it.
3. `BeginIsFirst`: a worker that came to `begin` with an external effect, still holds the
   lease and whose attempt row admits a begin, finds that none was begun. This is
   where `execute` matters: it sends whoever finds `started` to the status endpoint,
   and whoever looked before a competitor began no longer holds the lease.
4. `OneSender`: so an external effect is begun once, by one worker, and sent by it.

Most actions cannot disturb any of this. The lemma `QuietKeepsSendInv` says so once,
for every step that keeps claims, starts no row, brings no worker to `begin` or
`effect`, and begins and sends nothing; `Claim`, `ReadAttempt`, `Begin` and `Send`
have a lemma each.

`VerdictIsTrueCorrect` joins that with what the tables say of the effect. `VerdictInv` is
`SendInv` and

1. `VersionsKnown`: the version a worker has read is not ahead of the command's. Its
   compare-and-set can still win (`Current`) only if nothing happened since.
2. `RowTrue`, what the tables say: an attempt that `succeeded` has its effect, one that
   `failed` belongs to a failed command, a failed command was not delivered or its status
   was denied (`MayFail`), an effect exists only if one was begun, an abandoned command
   has begun none.
3. `StageTrue`, what a worker relies on at its `pc` and nobody can take away: who
   records has an effect, who materialises has the provider's final word.
4. `CurrentTrue`, what it relies on only as long as its compare-and-set can win: who is
   about to fail an external command knows that it was not and will not be
   delivered, or was denied its status, and who is about to complete one has a recorded success. A slow worker
   may be wrong about both, and then its batch changes nothing.

What a step may do to a command, a row, an attempt and a worker is stated once
(`CmdMove`, `RowMove` and their like); each action is shown to be such moves, and
`VerdictInv` is shown to survive them. The hypothesis is
`PolicyMayChange => "external" \notin Modes`: for a deployment that changes the registry's
policy between a delivery and its reconciliation the property is false, as said under
[what the properties say](#what-the-properties-say). `EffectMatchesVerdict` states the three
parts that hold without it.

`NoStrandedCommandCorrect` needs little more than types: whatever changes a command or
its row changes the pair of them in one of the ways of `PairMove`, and each leaves a
command that has ended, or a row that is claimed or that the selector finds.

**Confirmation.** `KeyIsOneCommandCorrect`, `OneAuthorityCorrect`,
`QueuedByNewestTokenCorrect`, `ReplayTokenIsCurrentCorrect`. The invariant `Inv` says of
the command that it has its outbox row exactly from `queued` on (`CommandOK`), of the
tokens that an unused one is the newest and that a waiting command has it unless its
time is over (`TokensOK`), and of each request what it has read that is still true
(`Stage`). The last is the heart: a replay reads payload and version, rotates
the token, reads again and answers, with other requests in between. `Advance` says
what any step may do to the tables: a command is never taken back, its payload and the
passing of its time are for ever, versions and tokens only grow, and state and
authority change with the version only. The lemma `StagesStay` concludes that what the
others have read stays true, so each action has to be examined for its own request
only.

**Reminders.** `DeliveredOnceCorrect`, `StatusIsFinalCorrect`. The claim has no token, so
nothing ties the row to one drain, and the proof counts instead (`Account`): the alerts
sent, the drains that may still send one (`Debtors`), and one more if the row can be
claimed again (`Allowed`) are together at most one and the faults. A claim moves the
one from `Allowed` to `Debtors`, an alert from `Debtors` to the alerts; only a crash, a
stall or a failed call makes a new one, and each is counted. `Told` says who has
enqueued or alerted before the status says so.

**Undo.** `UndoneIsRealCorrect`, `OneCallAtATimeCorrect`, `SuccessIsKeptCorrect`. The
attempt row has no token either, and `Account` is the same count of the requests and
passes that hold it. `Assured`: who goes on to finalize has the provider's word that
the reminder is cancelled, and so has an attempt that `succeeded`; the provider does not
revoke it.

**ApnsWake.** `WakeTypeCorrect`, `WakeInvCorrect` and the refinement `WakesOnceCorrect`.
What has to be shown is that a row never says `failed` of a device that was woken,
nor lets it be woken again. `WakeInv` says why: claims are distinct
(`ClaimsAreDistinct`); the attempt row ends together with the row
(`AttemptIsRecorded`); a claim that obtained the permit is the last one, since the
row leaves it with a verdict only (`PermitIsLast`); a wake is recorded as running,
unknown or succeeded (`WokenIsRecorded`); each worker's memory is right about that
(`WorkersKnow`); and what a recovery read still holds when it settles, if the claim
is still there (`RecoveryIsCurrent`). The lemmas `RowMoves`, `WokenMoves` and
`ModeStays` reduce each step of `ApnsWake` to one of `WakeOnce` or a stutter.

**Sessions.** `CancelledNeverDoneCorrect`, `OneChoicePerEventCorrect`, the refinement
`ImplementsLifecycleCorrect` and `DeletedIsFrozenCorrect`; `TypeCorrect` is only proved.
The proof is in two halves. `EachStep` reduces the many batches of sessions.rs to what
any of them can do (`StepOK`): an action lapses, or, in a session that is not deleted, is
offered, chosen, withdrawn, claimed or finished (`Moves`), and a request that
begins knows what it is about (`AimedAt`). Everything else follows from `StepOK` alone.
The invariant adds to the two properties that an action with a lifetime or a status
belongs to an event that was applied (`Known`), that a request still to write a success
read an action that was not cancelled and had been handed on (`Aimed`: cancellation
cannot come after that, which is why the stale read is harmless), and that
beside an action handed on to be done no other of its event is active (`Alone`).

**Services.** Each property follows from an inductive invariant of its part. A part that
stands still keeps it, so each is proved from the steps of its own module.

- `PhoneOperations` (`AnswersStand`, `ClaimIsKept`): a claim belongs to a request at work for
  that key and goal (`HoldersWork`), and what is about to be recorded has taken place
  (`WorkIsDone`). So a slow request whose claim was taken over records nothing.
- `Asks` (`ToldIsTheAsk`, `TwoListenersNeedOverlap`, `AskEndsOnce`): a request knows what it
  asks, and the ask it answers with has its words (`AskerKnows`); what a phone was told
  is there with its message (`AskedIsThere`); unless registrations have overlapped one
  host at most is between revoking and activating, and it has left no other listener
  (`Alone`). `AsksStand`, what a step may do to an ask, is what `AskEndsOnce` needs of
  polls whose pages are old.
- `Credentials` (`OneTokenPerLogin`, `OneAgentPerCode`): a login has one good token or one
  request that issues the next, never both (`OneHeir`), and the request that won a
  code is over (`WinnerIsOver`). `DeadStaysDead`, that a login which ended is not
  revived by a refresh under way, is proved and not run.
- `Devices` (`OneRowEach`): a registration that found no row for a device is alone, unless
  one overlapped (`FirstIsAlone`).
- `RateLimits` (`WindowAdmitsLimit`): who was admitted and who was counted in the window and has
  yet to read are together at most the count. For any limit.
- `Retention` (`SnapshotsMatchRows`): that an object is deleted only when no retrieval
  needs it follows from what a sweep holds in memory: a row on its page stays due
  (`PagesAreDue`), and no retrieval that lasts uses an object it has doomed, unless it
  was reported since (`DoomedIsUnused`, with `raced`). That no object is left behind is
  harder, since a sweep that spares an object relies on a row it will not mark itself,
  and another sweep may mark that one. `ObjectHasKeeper`: an object of a reported
  retrieval has an active row that no sweep which spares the object is about to mark,
  unless two pages have `split` its rows.
- `Memories` (`ToldIsTheMemory`, `DeletedIsFinal`): a key once taken keeps its body.
- `Feed` (`SyncedPhoneIsCurrent`): three facts that know nothing of what the items are, and
  are proved once for both users of the feed. A phone holds nothing the feed has not
  inserted, nor what it has read to be gone (`HoldsTrue`); it holds what it has read of and
  is there (`HoldsAll`); what is there was inserted and is not published as gone
  (`IsThere`). `SnapLedger` and `NoteLedger` tie them to the rows: what the feed says of a row,
  by its status, up to what a sweep has yet to publish (`todo`) or never will (`cut`).
  Any limit and any number of phones; the keys of memories may be infinitely many, of
  which finitely many are taken at any time.

  None of this needs a change to be in the feed once, and two sweeps may publish a
  deletion twice.

`TypeCorrect` is the conjunction of all parts' types; the one that takes an argument is that
no cursor is beyond the end of the feed.

### Only model-checked

Liveness under fairness and ENABLED, which this prover does not do: `EventuallySettled`,
`DeliveryIsReported`, `EventuallyDecided` (of `Confirmation` and of `ApnsWake`),
`EventuallyHandled`, `DeletedIsCancelled` and `CancelledIsReflected`. They hold for the
instances of their runs.

## Divergences

Three runs end in a counterexample, each of something a comment, a test or a document
of the repository says.

1. `docs_token`. RELEASE_VERIFICATION_REPORT.md:112-114 says that a response never
   returns a token made stale by a competing rotation. `command_body_after_outbox_drain`
   (lib.rs) puts the token of an earlier body into a later snapshot without comparing
   versions. A later replay repairs it.
2. `docs_exhausted`. The test at reminders.rs:180-183 says that three claims exhaust a
   reminder. `finish_error` counts from the page and not from the claim; when another
   drain claimed in between, the row stays `retrying` with three attempts, which no
   page selects.
3. `docs_tombstone`. history.rs:67-68 says that an offline device converges because
   deletions are published. `expire_retrieval_rows` marks the page as deleted in one
   statement and publishes row by row; what is left when it is cut off in between is
   never published, since a later sweep selects `active` rows only.

More were met while modelling. The modules contain the behaviour, unless it says
otherwise; no run states it.

- *Started attempts.* outbox.rs:767 says that `attempts >= 1` proves that the effect may
  have started. `finish_failure_with_fence` (outbox.rs:2040) also sets it for an error
  before the executor ran. Such a command is no longer cancelled or expired, and an
  external one is reconciled with a provider that never saw it, for ever.
- *Failed over a running call.* action_effects.rs:601-603 says that a cancellation the
  provider carried out must be reflected whatever the configuration. A deployment
  that is disabled for a while lets `finish_cancel_attempt` record `failed` over a call
  that is under way, and no reconciliation looks at a `failed` attempt. An HTTP 4xx to a repeated
  call has the same result (action_effects.rs:584-587, with providers.rs:650-661).
  `CancelledIsReflected` states what does hold.
- *Status refused.* An HTTP 4xx to a status request is not retryable (providers.rs:650-661),
  passes through `execute` (action_effects.rs:378-390) and is permanent in `classify_error`
  (outbox.rs:1734), so a command the provider delivered, or will deliver, ends as `failed`.
  Nothing reports the delivery later. `VerdictIsTrue` and `DeliveryIsReported` make the
  exception.
- *Deletions published twice.* Migration 0015 (117-138) rebuilds `phone_changes` without its
  unique index on entity and version, and says so. The INSERT OR IGNORE at history.rs:206
  then ignores nothing, and two sweeps with one retrieval in their pages publish its
  deletion twice. `SyncedPhoneIsCurrent` holds all the same.
- *Transition table.* `valid_transition` (commands.rs:564-606), which nothing calls, and
  the SQL disagree: `settle_deleted_command` cancels an `unknown` command, and
  `queued` ones fail. ARCHITECTURE_DECISIONS.md:139 has every transition covered.
- *Retry budget.* `claim` (outbox.rs:660) takes the attempts from the page's row, so drains that
  overlap let a command be retried after MAX_ATTEMPTS claims, against the comment
  at outbox.rs:1915-1916. `EventuallySettled` shows that the command ends all the same.
- *Status of a draft.* The reconciliation (action_effects.rs:380) asks the provider about a
  draft, which never made a request; providers.rs:457 answers that there is no
  status endpoint for it. The draft stays `unknown`.
- *Duplicate alert.* A drain that stops between `send_alert` (push.rs:237) and
  `finish_sent` alerts again; migrations/0012:1-3 and reminders.rs:27-28 speak of
  idempotent delivery. `DeliveredOnce` states what does hold.
- *Two polls, one action.* `claim_actions` (sessions.rs:744-784) answers with every row that
  is `claimed` after its batch. Two polls that read the same queued action both
  answer with it, and the agent may execute it twice.
- *Statements of a batch.* The withdrawal of the other offers does not depend on the
  choice (`phone_reply`, `phone_confirm`): a choice that lost withdraws all the same,
  offers of a newer event included. `submit_action_result` sets the session even when
  the action was not moved.
- *Stale session state.* `update_progress` (sessions.rs:323) and an `info` event write the
  state computed from an earlier read; over `needs_user` or `awaiting_confirm` that
  leaves offers nobody can choose. With two pending confirmations, cancelling one
  sets `needs_user`, and the other can no longer be confirmed.
- *Retry after a stop.* A reply that was done by a Worker that stopped before `complete` is
  answered 404 or 409 when it is repeated after the lease.
- *Two listeners.* Registrations that overlap leave two active listeners
  (listener_bindings.rs:88-93). A retried ask may bind to a new listener while its
  session, made under the same key, belongs to the previous chat: the chat that
  claims it cannot report events there.
- *Refresh.* A Worker that stops between rotation and issue costs the login. A logout with
  the old token while a refresh is under way leaves the new token live. A host whose
  answer to a claim was lost cannot repeat it (409).
- *Two rows of a device.* First registrations that overlap insert two rows.
- *Rate limits.* A request that counts in one window and reads in the next is decided by the
  next window's count; one that reads late is rejected for the requests after it.
- *Snapshots.* A retrieval that is reported while a sweep is about to delete the snapshot it
  refers to loses it (`raced`). Two sweeps whose pages split the last retrievals of a
  snapshot leave the object behind (`split`). An R2 error makes `phone_sync` fail,
  which sweeps first; requests of phones are not part of `Retention`.
- *Deleted memories.* A create under the key of a deleted memory is answered 200 with the
  deleted memory.

## Not modelled

- **Validation, hashing, presentation and listing of commands**: pure functions of data
  the properties do not tell apart. The payload's hash is the payload.
- **Malformed rows**, of an unknown topic, intent or state: the schema's CHECKs and the code
  do not write them.
- **Undo of drafts and messages, and of a local reminder**: for a draft or a queued
  message it is a single batch without a provider call; of a local reminder
  `Reminders` has the effect (`Undo`).
- **Reading, marking and dismissing pushes**: statements of their own with no protocol.
- **JWT signing, HTTP, R2, configuration loading, migration runs**: I/O and libraries.
- **A provider whose status answers regress** (delivered, then queued):
  `bind_message_delivery` would follow it.
- **Sessions**: creation and resumption under a key, listings, messages and their search,
  downloads. They are reads, or single statements.
- **Identities**: hashing, JWT, the linking of Supabase users (auth.rs:538-600), the rotation
  of an agent's key. Pure, external, or one statement.
- **The event stream** (`phone_events`): it tells phones to sync and keeps no state.
- **The session of an ask after its first turn**: it is a session as any other.
- **RFC 3339 timestamps** (commands.rs:288): a pure function of text.
- **pagination, audit, db, error, models, skills, scripts and contracts**: encodings, row
  types, thin wrappers and tooling; what they do to control is part of the modules
  that call them.

## Plan

All of the plan's components have their module. What would add most from here:

| Next | Why |
|---|---|
| `CommandLifecycle`, the promise to a client over all states of a command, implemented by `Confirmation` and `Outbox` together | the two are checked apart, and meet at the `queued` row |
| `Rfc3339` as an operator against a reference definition | deadlines depend on it |
| identities and their linking | two sign-ins of one user at the same time |
| that `Confirmation`'s last states are `Outbox`'s first, as a theorem | today a reader compares `CommandOK` with `Outbox!Init` |
