---------------------------- MODULE Confirmation ----------------------------
(***************************************************************************)
(* How a command comes to be queued: create, its idempotent replay, the    *)
(* confirmation by a one-time token, and the cancellation and expiry that  *)
(* race with them (commands.rs; the responses, lib.rs).                    *)
(*                                                                         *)
(* The module follows one idempotency key, and so at most one command.     *)
(* Requests interleave between their database calls; a statement is        *)
(* atomic, and so is a batch, except that each statement of a batch reads  *)
(* the clock again: time may pass between two of them.                     *)
(*                                                                         *)
(* Abstractions.                                                           *)
(*  - A payload stands for an envelope and its canonical hash.             *)
(*  - Tokens are numbered in the order they are issued.  The expiry of a   *)
(*    token, and of the command, is a flag that time sets.                 *)
(*  - A command that is queued is executed by the workers of the module    *)
(*    Outbox; here it only may still be cancelled or expire.               *)
(***************************************************************************)
EXTENDS Integers, FiniteSets

CONSTANTS
  Requests,      \* the concurrent requests
  Drains,        \* the concurrent sweeps: every drain begins with one
  Payloads,      \* the envelopes clients send under the idempotency key
  NoPayload,     \* the payload before there is a command
  Confirmed,     \* the payloads that need a confirmation
  TokenBound,    \* bound of the model: how many tokens are issued
  FaultBound     \* bound of the model: how many requests die half-way

ASSUME NoPayloadAssumption == NoPayload \notin Payloads
ASSUME ActorsAssumption == Requests \cap Drains = {}
ASSUME ConfirmedAssumption == Confirmed \subseteq Payloads
ASSUME BoundsAssumption == TokenBound \in Nat /\ FaultBound \in Nat

VARIABLES
  command,   \* the commands row: state, version, payload
  unused,    \* the issued tokens whose used_at is NULL
  issued,    \* how many tokens have been issued: the tokens are 1..issued
  stale,     \* the tokens whose expires_at has passed
  overdue,   \* the command's expires_at has passed
  deleted,   \* its session has been deleted
  rows,      \* how many outbox rows it has
  row,       \* their state
  request,   \* the requests and sweeps in progress
  held,      \* the tokens some client has received
  faults     \* how much of FaultBound is used

vars == <<command, unused, issued, stale, overdue, deleted, rows, row,
          request, held, faults>>

-----------------------------------------------------------------------------
Actors == Requests \cup Drains
States == {"none", "awaiting_confirmation", "queued", "expired", "cancelled"}
Open == {"awaiting_confirmation", "queued"}
PCs == {"idle", "insert", "relookup", "reissue", "reread", "reply",
        "load", "expire", "token", "expire_token", "apply", "sweep"}

Idle == [pc |-> "idle", kind |-> "none", payload |-> NoPayload, ver |-> 0,
         tok |-> 0, byToken |-> FALSE]

TypeOK ==
  /\ command \in [state : States, version : Nat, payload : Payloads \cup {NoPayload}]
  /\ issued \in 0..TokenBound /\ unused \subseteq 1..issued /\ stale \subseteq 1..issued
  /\ overdue \in BOOLEAN /\ deleted \in BOOLEAN
  /\ rows \in Nat /\ row \in {"none", "queued", "failed"}
  /\ request \in [Actors ->
       [pc : PCs, kind : {"none", "create", "confirm", "cancel", "sweep"},
        payload : Payloads \cup {NoPayload}, ver : Nat, tok : 0..issued, byToken : BOOLEAN]]
  /\ held \subseteq 1..issued /\ faults \in 0..FaultBound

Init ==
  /\ command = [state |-> "none", version |-> 0, payload |-> NoPayload]
  /\ unused = {} /\ issued = 0 /\ stale = {}
  /\ overdue = FALSE /\ deleted = FALSE
  /\ rows = 0 /\ row = "none"
  /\ request = [r \in Actors |-> Idle]
  /\ held = {} /\ faults = 0

-----------------------------------------------------------------------------
Awaiting == command.state = "awaiting_confirmation"

Goto(r, pc) == request' = [request EXCEPT ![r].pc = pc]
Done(r) == request' = [request EXCEPT ![r] = Idle]

SetState(s) == command' = [command EXCEPT !.state = s, !.version = @ + 1]

\* A row that is left to a worker that will find nothing to do.
AbandonRow_Keeps == row' = row

\* A row that is not running is failed with its command.
AbandonRow == row' = IF row = "queued" THEN "failed" ELSE row

tokenVars == <<unused, issued, held>>
timeVars == <<stale, overdue, deleted>>

-----------------------------------------------------------------------------
(* create. *)

\* The lookup without the comparison of the hashes.
SameCommand_AnyPayload(p) == command.state # "none"

\* The command that exists was created from this very payload.
SameCommand(p) == command.payload = p

\* What create does with the command it has found: a different payload is a
\* conflict, and a command that awaits its confirmation gets a fresh token.
Found(r, p) ==
  \/ /\ ~SameCommand(p) /\ Done(r)
  \/ /\ SameCommand(p)
     /\ request' = [request EXCEPT ![r] =
          [Idle EXCEPT !.kind = "create", !.payload = p, !.ver = command.version,
                       !.pc = IF Awaiting THEN "reissue" ELSE "reread"]]

\* validate_scope, and the lookup by the idempotency key.
Create(r, p) ==
  /\ request[r].pc = "idle" /\ ~deleted
  /\ \/ command.state # "none" /\ Found(r, p)
     \/ /\ command.state = "none"
        /\ request' = [request EXCEPT ![r] =
             [Idle EXCEPT !.kind = "create", !.payload = p, !.pc = "insert"]]
  /\ UNCHANGED <<command, rows, row, faults, tokenVars, timeVars>>

\* The batch that inserts the command with its token or its outbox row.  It
\* fails as a whole when the key, which is unique, is taken by then.
Insert(r) ==
  LET p == request[r].payload IN
  /\ request[r].pc = "insert"
  /\ \/ /\ command.state # "none" /\ Goto(r, "relookup")
        /\ UNCHANGED <<command, unused, issued, rows, row>>
     \/ /\ command.state = "none" /\ p \in Confirmed /\ issued < TokenBound
        /\ command' = [state |-> "awaiting_confirmation", version |-> 2, payload |-> p]
        /\ issued' = issued + 1 /\ unused' = unused \cup {issued + 1}
        /\ request' = [request EXCEPT ![r] = [@ EXCEPT !.pc = "reply", !.ver = 2,
                                                         !.tok = issued + 1]]
        /\ UNCHANGED <<rows, row>>
     \/ /\ command.state = "none" /\ p \notin Confirmed
        /\ command' = [state |-> "queued", version |-> 2, payload |-> p]
        /\ rows' = rows + 1 /\ row' = "queued"
        /\ Goto(r, "reply") /\ UNCHANGED <<unused, issued>>
  /\ UNCHANGED <<faults, held, timeVars>>

Relookup(r) ==
  /\ request[r].pc = "relookup" /\ Found(r, request[r].payload)
  /\ UNCHANGED <<command, rows, row, faults, tokenVars, timeVars>>

\* confirmation_replay_command_update_sql.
ReplayWins(r) ==
  /\ Awaiting /\ command.version = request[r].ver /\ ~overdue
  /\ unused \ stale # {} /\ ~deleted

\* An invalidation that changes() does not tie to the update.
Invalidated_Untied(r) == unused \ stale

\* confirmation_replay_invalidation_sql: the tokens that are marked as used.
Invalidated(r) == IF ReplayWins(r) THEN unused \ stale ELSE {}

\* reissue_confirmation_token_for_replay: the update, the invalidation and the
\* insertion each read the clock.  When the token expires after the first one
\* only the version has changed; when the command does after the second one,
\* the token is used and has no successor.
Reissue(r) ==
  /\ request[r].pc = "reissue"
  /\ \/ /\ ~ReplayWins(r) /\ unused' = unused \ Invalidated(r) /\ Goto(r, "reread")
        /\ UNCHANGED <<command, issued, stale, overdue>>
     \/ /\ ReplayWins(r) /\ unused \ Invalidated(r) = {} /\ issued < TokenBound
        /\ SetState("awaiting_confirmation")
        /\ issued' = issued + 1
        /\ unused' = {issued + 1}
        /\ request' = [request EXCEPT ![r] = [@ EXCEPT !.pc = "reread", !.tok = issued + 1,
                                                         !.ver = command.version + 1]]
        /\ UNCHANGED <<stale, overdue>>
     \/ /\ ReplayWins(r) /\ SetState("awaiting_confirmation")
        /\ stale' = stale \cup unused /\ Goto(r, "reread")
        /\ UNCHANGED <<unused, issued, overdue>>
     \/ /\ ReplayWins(r) /\ SetState("awaiting_confirmation")
        /\ unused' = unused \ Invalidated(r)
        /\ overdue' = TRUE /\ stale' = 1..issued /\ Goto(r, "reread")
        /\ UNCHANGED issued
  /\ UNCHANGED <<rows, row, deleted, held, faults>>

\* A replay that hands out whatever token it has issued.
TokenForResponse_AnyVersion(r) == request[r].tok

\* replay_token_for_response.
TokenForResponse(r) ==
  IF command.version = request[r].ver THEN request[r].tok ELSE 0

\* The command is read again for the response.
Reread(r) ==
  /\ request[r].pc = "reread"
  /\ request' = [request EXCEPT ![r] = [@ EXCEPT !.pc = "reply", !.tok = TokenForResponse(r),
                                                   !.ver = command.version]]
  /\ UNCHANGED <<command, rows, row, faults, tokenVars, timeVars>>

\* json_response_after_outbox_drain: the response is the command as it is now,
\* with the token of the earlier body.
Reply(r) ==
  /\ request[r].pc = "reply" /\ Done(r)
  /\ held' = IF request[r].tok = 0 THEN held ELSE held \cup {request[r].tok}
  /\ UNCHANGED <<command, unused, issued, rows, row, faults, timeVars>>

-----------------------------------------------------------------------------
(* confirm, cancel, and the sweep that starts every drain. *)

\* The states confirm, and cancel, go on with.
Acceptable(kind) ==
  IF kind = "confirm" THEN Awaiting ELSE command.state \in Open

\* confirm and cancel read the command and its session.
Read(r, kind, t) ==
  IF Acceptable(kind) /\ ~deleted
  THEN request' = [request EXCEPT ![r] =
         [Idle EXCEPT !.kind = kind, !.tok = t, !.ver = command.version,
                      !.pc = IF kind = "confirm" THEN "token" ELSE "apply"]]
  ELSE Done(r)

\* A command whose TTL has passed is expired first, and read again.
Load(r, kind, t) ==
  /\ request[r].pc = "idle" /\ command.state # "none"
  /\ IF overdue /\ command.state \in Open
     THEN request' = [request EXCEPT ![r] =
            [Idle EXCEPT !.kind = kind, !.tok = t, !.ver = command.version, !.pc = "expire"]]
     ELSE Read(r, kind, t)
  /\ UNCHANGED <<command, rows, row, faults, tokenVars, timeVars>>

Confirm(r, t) == t \in held /\ Load(r, "confirm", t)
Cancel(r) == Load(r, "cancel", 0)

Reload(r) ==
  /\ request[r].pc = "load" /\ Read(r, request[r].kind, request[r].tok)
  /\ UNCHANGED <<command, rows, row, faults, tokenVars, timeVars>>

\* The token's row is read.
ReadToken(r) ==
  LET t == request[r].tok IN
  /\ request[r].pc = "token"
  /\ \/ t \notin unused /\ Done(r)
     \/ /\ t \in unused \cap stale
        /\ request' = [request EXCEPT ![r] = [@ EXCEPT !.pc = "expire_token", !.byToken = TRUE]]
     \/ t \in unused \ stale /\ Goto(r, "apply")
  /\ UNCHANGED <<command, rows, row, faults, tokenVars, timeVars>>

\* confirmation_claim_sql.
ClaimWins(r) ==
  /\ request[r].tok \in unused \ stale
  /\ Awaiting /\ command.version = request[r].ver /\ ~overdue /\ ~deleted

\* A queueing that changes() does not tie to the claim of the token.
QueueWins_Untied(r) == Awaiting /\ command.version = request[r].ver /\ ~overdue /\ ~deleted

\* confirmation_queue_sql.
QueueWins(r) ==
  ClaimWins(r) /\ Awaiting /\ command.version = request[r].ver /\ ~overdue /\ ~deleted

\* The batch of confirm.  Between its first two statements the command may
\* expire: the token is then used, and the command not queued.
ConfirmApply(r) ==
  /\ request[r].pc = "apply" /\ request[r].kind = "confirm" /\ Done(r)
  /\ unused' = IF ClaimWins(r) THEN unused \ {request[r].tok} ELSE unused
  /\ \/ /\ QueueWins(r) /\ SetState("queued")
        /\ rows' = rows + 1 /\ row' = "queued" /\ UNCHANGED <<stale, overdue>>
     \/ /\ ~QueueWins(r) /\ UNCHANGED <<command, rows, row, stale, overdue>>
     \/ /\ ClaimWins(r) /\ overdue' = TRUE /\ stale' = 1..issued
        /\ UNCHANGED <<command, rows, row>>
  /\ UNCHANGED <<issued, held, faults, deleted>>

\* cancel_command_sql and cancel_outbox_sql.
CancelApply(r) ==
  LET wins == command.state \in Open /\ command.version = request[r].ver IN
  /\ request[r].pc = "apply" /\ request[r].kind = "cancel" /\ Done(r)
  /\ \/ wins /\ SetState("cancelled") /\ AbandonRow
     \/ ~wins /\ UNCHANGED <<command, row>>
  /\ UNCHANGED <<rows, faults, tokenVars, timeVars>>

\* The two conditions mark_expired may be called with.
ExpiresByToken == Awaiting /\ unused \cap stale # {}
ExpiresByTtl == overdue

\* mark_expired, which requests and the sweep share.
MarkExpired(r) ==
  LET wins == /\ command.state \in Open /\ command.version = request[r].ver
              /\ IF request[r].byToken THEN ExpiresByToken ELSE ExpiresByTtl
  IN
  /\ \/ wins /\ SetState("expired") /\ AbandonRow
     \/ ~wins /\ UNCHANGED <<command, row>>
  /\ UNCHANGED <<rows, faults, tokenVars, timeVars>>

\* The TTL of the command passed: expire it and read it again.
ExpireFirst(r) == request[r].pc = "expire" /\ MarkExpired(r) /\ Goto(r, "load")

\* The presented token has expired: the command expires with it.
ExpireToken(r) == request[r].pc = "expire_token" /\ MarkExpired(r) /\ Done(r)

\* A sweep that looks for expired tokens only.
Expirable_TokensOnly == Awaiting /\ unused \cap stale # {}

\* expire_due_candidates_sql.
Expirable ==
  \/ command.state \in Open /\ overdue
  \/ Awaiting /\ unused \cap stale # {}

\* expire_due reads a candidate and its command ...
SweepRead(r) ==
  /\ request[r].pc = "idle" /\ Expirable
  /\ request' = [request EXCEPT ![r] =
       [Idle EXCEPT !.kind = "sweep", !.pc = "sweep", !.ver = command.version,
                    !.byToken = Awaiting /\ ~overdue]]
  /\ UNCHANGED <<command, rows, row, faults, tokenVars, timeVars>>

\* ... and expires it.
SweepApply(r) == request[r].pc = "sweep" /\ MarkExpired(r) /\ Done(r)

-----------------------------------------------------------------------------
(* Accidents and time. *)

\* The isolate is evicted, or the response is lost on its way.
Crash(r) ==
  /\ request[r].pc # "idle" /\ faults < FaultBound /\ faults' = faults + 1 /\ Done(r)
  /\ UNCHANGED <<command, rows, row, tokenVars, timeVars>>

TokenExpires(t) ==
  /\ t \in unused \ stale /\ stale' = stale \cup {t}
  /\ UNCHANGED <<command, unused, issued, overdue, deleted, rows, row, request, held, faults>>

\* A token expires before its command or with it.
TtlPasses ==
  /\ command.state # "none" /\ ~overdue
  /\ overdue' = TRUE /\ stale' = 1..issued
  /\ UNCHANGED <<command, unused, issued, deleted, rows, row, request, held, faults>>

DeleteSession ==
  /\ ~deleted /\ deleted' = TRUE
  /\ UNCHANGED <<command, unused, issued, stale, overdue, rows, row, request, held, faults>>

\* What a client may ask for.
Starts(r) ==
  \/ \E p \in Payloads : Create(r, p)
  \/ \E t \in held : Confirm(r, t)
  \/ Cancel(r)

\* What the program then does by itself.
Continues(r) ==
  \/ Insert(r) \/ Relookup(r) \/ Reissue(r) \/ Reread(r) \/ Reply(r)
  \/ Reload(r) \/ ReadToken(r) \/ ConfirmApply(r) \/ CancelApply(r)
  \/ ExpireFirst(r) \/ ExpireToken(r) \/ SweepApply(r)

Next ==
  \/ \E r \in Requests : Starts(r)
  \/ \E r \in Drains : SweepRead(r)
  \/ \E r \in Actors : Continues(r) \/ Crash(r)
  \/ \E t \in 1..issued : TokenExpires(t)
  \/ TtlPasses \/ DeleteSession

Spec == Init /\ [][Next]_vars

\* The cron trigger sweeps every minute, a sweep that meets no fault ends, and
\* time passes.  Clients promise nothing.
Fairness ==
  /\ \A r \in Drains : WF_vars(SweepRead(r)) /\ WF_vars(SweepApply(r))
  /\ WF_vars(TtlPasses)

FairSpec == Spec /\ Fairness

-----------------------------------------------------------------------------
(* Properties. *)

\* There is one authority to confirm: never two tokens at once, none that
\* outlives the wait for it, and a command that waits has one, which some replay
\* can still exchange, unless its own TTL has passed and the sweep will take it.
OneAuthority ==
  /\ Cardinality(unused) <= 1
  /\ unused \subseteq {issued}
  /\ Awaiting => unused # {} \/ overdue

\* However often create, confirm and their replays race, a command is given to
\* the outbox once, not before it may be, and not after it was abandoned.
OneExecution ==
  /\ rows <= 1
  /\ command.state = "queued" <=> row = "queued"
  /\ Awaiting => rows = 0

\* A client only ever gets a token for the payload it has sent, not for another
\* one under the same idempotency key.
TokenForItsPayload ==
  \A r \in Requests : request[r].kind = "create" /\ request[r].tok # 0 =>
    request[r].payload = command.payload

\* An idempotency key is one command, however its requests run into each other.
KeyIsOneCommand == TypeOK /\ OneExecution /\ TokenForItsPayload

\* What lets a waiting command be queued is the newest token, which is used by
\* that very step and had not expired: a token that was rotated away, used or
\* outlived never authorises anything.
QueuedByNewestTokenStep ==
  Awaiting /\ command'.state = "queued" =>
    /\ issued \in unused \ unused' /\ issued \notin stale
    /\ ~overdue /\ ~deleted

QueuedByNewestToken == [][QueuedByNewestTokenStep]_vars

\* The body of a replay never carries a token that a competing replay had
\* already made stale when the command was read for it.
ReplayTokenIsCurrent ==
  [][\A r \in Requests :
       request[r].pc = "reread" /\ request'[r].pc = "reply" /\ request'[r].tok # 0
       /\ Awaiting => request'[r].tok \in unused \/ overdue]_vars

\* A command does not wait for its confirmation for ever.
EventuallyDecided == Awaiting ~> ~Awaiting
=============================================================================
