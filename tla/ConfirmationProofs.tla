-------------------------- MODULE ConfirmationProofs --------------------------
(***************************************************************************)
(* Theorems about the module Confirmation: an idempotency key is one       *)
(* command, which is executed once, and what lets it be executed is the    *)
(* newest confirmation token, for any number of requests, sweeps, payloads *)
(* and tokens.                                                             *)
(***************************************************************************)
EXTENDS Confirmation, FiniteSetTheorems, TLAPS

-----------------------------------------------------------------------------
(* The inductive invariant: of the tables, and of what a request has read. *)

Kinds == {"none", "create", "confirm", "cancel", "sweep"}
CommandType == [state : States, version : Nat, payload : Payloads \cup {NoPayload}]
RequestType(tokens) ==
  [pc : PCs, kind : Kinds, payload : Payloads \cup {NoPayload}, ver : Nat, tok : tokens,
   byToken : BOOLEAN]

\* The command and its outbox row.
CommandOK ==
  /\ command \in CommandType
  /\ rows \in Nat /\ row \in {"none", "queued", "failed"}
  /\ command.state = "none" => command.version = 0 /\ rows = 0 /\ row = "none"
  /\ OneExecution

\* Its tokens.
TokensOK ==
  /\ issued \in 0..TokenBound /\ unused \subseteq 1..issued /\ stale \subseteq 1..issued
  /\ held \subseteq 1..issued
  /\ command.state = "none" => unused = {} /\ issued = 0
  /\ unused \subseteq {issued}
  /\ Awaiting => unused # {} \/ overdue

OthersOK == overdue \in BOOLEAN /\ deleted \in BOOLEAN /\ faults \in 0..FaultBound

\* What a request has read of the command is true of it, and the token it will hand out
\* is the last one unless the version has moved on.
Stage(q) ==
  /\ q.pc \in {"insert", "relookup", "reissue"} => q.tok = 0
  /\ q.pc \in {"expire", "load"} => q.kind # "create"
  /\ q.pc \in {"relookup", "reissue", "reread", "reply"} => command.state # "none"
  /\ q.pc \in {"reissue", "reread", "reply"} => command.payload = q.payload
  /\ q.pc \in {"reissue", "reread"} => q.ver <= command.version
  /\ q.kind = "create" /\ q.tok # 0 => command.payload = q.payload
  /\ q.pc = "reread" /\ q.tok # 0 /\ q.ver = command.version /\ Awaiting =>
       q.tok \in unused \/ overdue

RequestsOK ==
  /\ request \in [Actors -> RequestType(0..issued)]
  /\ \A r \in Actors : Stage(request[r])

Inv == CommandOK /\ TokensOK /\ OthersOK /\ RequestsOK

LEMMA InvInit == ASSUME Init PROVE Inv
<1>1. CommandOK
  BY DEF Init, CommandOK, CommandType, States, OneExecution, Awaiting
<1>2. TokensOK /\ OthersOK
  <2>1. /\ unused = {} /\ issued = 0 /\ stale = {} /\ held = {} /\ ~Awaiting
        /\ overdue = FALSE /\ deleted = FALSE /\ faults = 0
    BY DEF Init, Awaiting
  <2>2. 0 \in 0..TokenBound /\ 0 \in 0..FaultBound
    BY BoundsAssumption
  <2>3. TokensOK
    BY <2>1, <2>2 DEF TokensOK
  <2>4. OthersOK
    BY <2>1, <2>2 DEF OthersOK
  <2> QED BY <2>3, <2>4
<1>3. Idle \in RequestType(0..0) /\ Stage(Idle)
  BY DEF Idle, RequestType, Kinds, PCs, Stage
<1>4. RequestsOK
  BY <1>3 DEF Init, RequestsOK
<1> QED BY <1>1, <1>2, <1>4 DEF Inv

-----------------------------------------------------------------------------
(* What a step may do to the tables, whoever takes it. *)

\* A command is for ever, as are its payload and the passing of its time; a state or a
\* token changes only with the version, or when the time of the command is over.
Advance ==
  /\ command.state # "none" =>
       /\ command'.state # "none" /\ command'.payload = command.payload
       /\ command'.version = command.version =>
            command'.state = command.state /\ (unused' = unused \/ overdue')
  /\ command'.version >= command.version
  /\ overdue => overdue'
  /\ issued' >= issued

\* What the other requests have read stays true.
LEMMA StagesStay ==
  ASSUME Inv, Advance, CommandOK', TokensOK', NEW q \in RequestType(0..issued)
  PROVE  /\ Stage(q) => Stage(q)'
         /\ q \in RequestType(0..issued')
<1>1. command \in CommandType /\ command' \in CommandType /\ issued \in Nat /\ issued' \in Nat
  BY BoundsAssumption DEF Inv, CommandOK, TokensOK
<1>2. q \in RequestType(0..issued')
  BY <1>1 DEF Advance, RequestType
<1>3. ASSUME Stage(q) PROVE Stage(q)'
  <2>1. CASE command.state = "none"
    <3>1. q.tok = 0
      BY <2>1 DEF Inv, TokensOK, RequestType
    <3> QED BY <1>3, <2>1, <3>1 DEF Stage
  <2>2. CASE command.state # "none"
    <3>1. q.ver \in Nat /\ command.version \in Nat /\ command'.version \in Nat
      BY <1>1 DEF RequestType, CommandType
    <3> QED BY <1>3, <2>2, <3>1 DEF Stage, Advance, Awaiting
  <2> QED BY <2>1, <2>2
<1> QED BY <1>2, <1>3

\* So an action is right when it keeps the tables right and its own request knows what
\* it has read.
LEMMA OneRequest ==
  ASSUME Inv, Advance, CommandOK', TokensOK', OthersOK', NEW r \in Actors,
         NEW q \in RequestType(0..issued'), Stage(q)', request' = [request EXCEPT ![r] = q]
  PROVE  Inv'
<1>1. request \in [Actors -> RequestType(0..issued)]
  BY DEF Inv, RequestsOK
<1>2. \A p \in Actors \ {r} : /\ request'[p] = request[p]
                             /\ request[p] \in RequestType(0..issued') /\ Stage(request[p])'
  BY <1>1, StagesStay DEF Inv, RequestsOK
<1>3. request'[r] = q
  BY <1>1
<1>4. request' \in [Actors -> RequestType(0..issued')]
  BY <1>1, <1>2, <1>3
<1>5. \A p \in Actors : Stage(request[p])'
  <2> TAKE p \in Actors
  <2>1. CASE p = r
    BY <1>3, <2>1 DEF Stage
  <2>2. CASE p # r
    BY <1>2, <2>2 DEF Stage
  <2> QED BY <2>1, <2>2
<1> QED BY <1>4, <1>5 DEF Inv, RequestsOK

\* A step that leaves the command and its tokens as they are.
LEMMA QuietStep ==
  ASSUME Inv, NEW r \in Actors, NEW q \in RequestType(0..issued), Stage(q),
         request' = [request EXCEPT ![r] = q],
         UNCHANGED <<command, unused, issued, rows, row, overdue, deleted, stale>>,
         held' \subseteq 1..issued, faults' \in 0..FaultBound
  PROVE  Inv'
<1>1. CommandOK' /\ TokensOK' /\ OthersOK'
  BY DEF Inv, CommandOK, TokensOK, OthersOK, OneExecution, Awaiting
<1>2. Advance
  BY BoundsAssumption DEF Inv, CommandOK, CommandType, TokensOK, Advance
<1>3. Stage(q)' /\ q \in RequestType(0..issued')
  BY DEF Stage, Awaiting
<1> QED BY <1>1, <1>2, <1>3, OneRequest

LEMMA Leaves ==
  ASSUME Inv, NEW r \in Actors, Done(r),
         UNCHANGED <<command, unused, issued, rows, row, overdue, deleted, stale>>,
         held' \subseteq 1..issued, faults' \in 0..FaultBound
  PROVE  Inv'
<1>1. 0 \in 0..issued
  BY BoundsAssumption DEF Inv, TokensOK
<1>2. Idle \in RequestType(0..issued) /\ Stage(Idle)
  BY <1>1 DEF Idle, RequestType, Kinds, PCs, Stage
<1> QED BY <1>2, QuietStep DEF Done

\* What a request is when it has moved.
LEMMA Goes ==
  ASSUME Inv, NEW r \in Actors, NEW pc \in PCs, NEW q, q = [request[r] EXCEPT !.pc = pc]
  PROVE  /\ q \in RequestType(0..issued) /\ q.pc = pc
         /\ q.kind = request[r].kind /\ q.payload = request[r].payload
         /\ q.ver = request[r].ver /\ q.tok = request[r].tok
<1>1. request[r] \in RequestType(0..issued)
  BY DEF Inv, RequestsOK
<1> QED BY <1>1 DEF RequestType

\* The numbers are numbers.
LEMMA Numbers ==
  ASSUME Inv
  PROVE  /\ issued \in Nat /\ 0 \in 0..issued /\ command.version \in Nat
         /\ command.state \in States /\ command.payload \in Payloads \cup {NoPayload}
         /\ \A r \in Actors : /\ request[r].ver \in Nat /\ request[r].tok \in 0..issued
                              /\ request[r].payload \in Payloads \cup {NoPayload}
                              /\ request[r].kind \in Kinds /\ request[r].byToken \in BOOLEAN
                              /\ request[r] \in RequestType(0..issued) /\ Stage(request[r])
<1>1. \A r \in Actors : request[r] \in RequestType(0..issued) /\ Stage(request[r])
  BY DEF Inv, RequestsOK
<1> QED BY <1>1, BoundsAssumption DEF Inv, CommandOK, CommandType, TokensOK, RequestType

-----------------------------------------------------------------------------
(* The requests that read. *)

LEMMA FoundStep ==
  ASSUME Inv, NEW r \in Actors, NEW p \in Payloads \cup {NoPayload}, Found(r, p),
         command.state # "none",
         UNCHANGED <<command, rows, row, faults, tokenVars, timeVars>>
  PROVE  Inv'
<1>0. held' \subseteq 1..issued /\ faults' \in 0..FaultBound
      /\ UNCHANGED <<command, unused, issued, rows, row, overdue, deleted, stale>>
  BY DEF Inv, TokensOK, OthersOK, tokenVars, timeVars
<1>1. CASE Done(r)
  BY <1>0, <1>1, Leaves
<1>2. CASE SameCommand(p) /\ ~Done(r)
  <2>1. PICK pc \in {"reissue", "reread"} :
          request' = [request EXCEPT ![r] =
            [Idle EXCEPT !.kind = "create", !.payload = p, !.ver = command.version, !.pc = pc]]
    BY <1>2 DEF Found
  <2>2. PICK q : q = [Idle EXCEPT !.kind = "create", !.payload = p,
                                  !.ver = command.version, !.pc = pc]
    OBVIOUS
  <2>3. /\ q \in RequestType(0..issued) /\ q.pc = pc /\ q.kind = "create" /\ q.payload = p
        /\ q.ver = command.version /\ q.tok = 0
    BY <2>2, Numbers DEF Idle, RequestType, PCs, Kinds
  <2>4. Stage(q)
    BY <1>2, <2>3, Numbers DEF Stage, SameCommand
  <2> QED BY <1>0, <2>1, <2>2, <2>3, <2>4, QuietStep
<1> QED BY <1>1, <1>2 DEF Found

LEMMA CreateStep ==
  ASSUME Inv, NEW r \in Requests, NEW p \in Payloads, Create(r, p)
  PROVE  Inv'
<1>0. /\ held' \subseteq 1..issued /\ faults' \in 0..FaultBound /\ r \in Actors
      /\ UNCHANGED <<command, unused, issued, rows, row, overdue, deleted, stale>>
      /\ UNCHANGED <<command, rows, row, faults, tokenVars, timeVars>>
  BY DEF Create, Inv, TokensOK, OthersOK, tokenVars, timeVars, Actors
<1>1. CASE command.state # "none" /\ Found(r, p)
  BY <1>0, <1>1, FoundStep
<1>2. CASE request' = [request EXCEPT ![r] =
             [Idle EXCEPT !.kind = "create", !.payload = p, !.pc = "insert"]]
  <2>1. PICK q : q = [Idle EXCEPT !.kind = "create", !.payload = p, !.pc = "insert"]
    OBVIOUS
  <2>2. q \in RequestType(0..issued) /\ q.pc = "insert" /\ q.tok = 0
    BY <2>1, Numbers DEF Idle, RequestType, PCs, Kinds
  <2>3. Stage(q)
    BY <2>2 DEF Stage
  <2> QED BY <1>0, <1>2, <2>1, <2>2, <2>3, QuietStep
<1> QED BY <1>1, <1>2 DEF Create

\* A request that goes on with what it has.
LEMMA GotoStep ==
  ASSUME Inv, NEW r \in Actors,
         NEW pc \in {"load", "expire_token", "apply"}, Goto(r, pc),
         pc = "load" => request[r].kind # "create",
         UNCHANGED <<command, rows, row, faults, tokenVars, timeVars>>
  PROVE  Inv'
<1>0. /\ held' \subseteq 1..issued /\ faults' \in 0..FaultBound
      /\ UNCHANGED <<command, unused, issued, rows, row, overdue, deleted, stale>>
  BY DEF Inv, TokensOK, OthersOK, tokenVars, timeVars
<1>1. PICK q : q = [request[r] EXCEPT !.pc = pc]
  OBVIOUS
<1>2. q \in RequestType(0..issued) /\ Stage(q)
  BY <1>1, Goes, Numbers DEF Stage, PCs
<1>3. request' = [request EXCEPT ![r] = q]
  BY <1>1 DEF Goto
<1> QED BY <1>0, <1>2, <1>3, QuietStep

\* A confirmation, a cancellation or a sweep that reads the command.
LEMMA ReadStep ==
  ASSUME Inv, NEW r \in Actors, NEW q \in RequestType(0..issued),
         q.kind # "create", q.pc \in {"token", "apply", "expire", "sweep"},
         request' = [request EXCEPT ![r] = q],
         UNCHANGED <<command, rows, row, faults, tokenVars, timeVars>>
  PROVE  Inv'
<1>1. /\ held' \subseteq 1..issued /\ faults' \in 0..FaultBound
      /\ UNCHANGED <<command, unused, issued, rows, row, overdue, deleted, stale>>
  BY DEF Inv, TokensOK, OthersOK, tokenVars, timeVars
<1>2. Stage(q)
  BY DEF Stage
<1> QED BY <1>1, <1>2, QuietStep

LEMMA LoadStep ==
  ASSUME Inv, NEW r \in Actors, NEW kind \in Kinds \ {"create"}, NEW t \in 0..issued,
         Load(r, kind, t) \/ Read(r, kind, t),
         UNCHANGED <<command, rows, row, faults, tokenVars, timeVars>>
  PROVE  Inv'
<1>0. /\ held' \subseteq 1..issued /\ faults' \in 0..FaultBound
      /\ UNCHANGED <<command, unused, issued, rows, row, overdue, deleted, stale>>
  BY DEF Inv, TokensOK, OthersOK, tokenVars, timeVars
<1>1. CASE Done(r)
  BY <1>0, <1>1, Leaves
<1>2. CASE ~Done(r)
  <2>1. PICK pc \in {"token", "apply", "expire"} :
          request' = [request EXCEPT ![r] =
            [Idle EXCEPT !.kind = kind, !.tok = t, !.ver = command.version, !.pc = pc]]
    BY <1>2 DEF Load, Read
  <2>2. PICK q : q = [Idle EXCEPT !.kind = kind, !.tok = t, !.ver = command.version, !.pc = pc]
    OBVIOUS
  <2>3. q \in RequestType(0..issued) /\ q.pc = pc /\ q.kind = kind
    BY <2>2, Numbers DEF Idle, RequestType, PCs, Kinds
  <2> QED BY <2>1, <2>2, <2>3, ReadStep
<1> QED BY <1>1, <1>2

\* The command is read again for the response: a token that is not the last any more is
\* not handed out.
LEMMA RereadStep == ASSUME Inv, NEW r \in Actors, Reread(r) PROVE Inv'
<1>0. /\ held' \subseteq 1..issued /\ faults' \in 0..FaultBound
      /\ UNCHANGED <<command, unused, issued, rows, row, overdue, deleted, stale>>
  BY DEF Reread, Inv, TokensOK, OthersOK, tokenVars, timeVars
<1>1. PICK q : q = [request[r] EXCEPT !.pc = "reply", !.tok = TokenForResponse(r),
                                      !.ver = command.version]
  OBVIOUS
<1>2. TokenForResponse(r) \in {0, request[r].tok} /\ TokenForResponse(r) \in 0..issued
  BY Numbers DEF TokenForResponse
<1>3. /\ q \in RequestType(0..issued) /\ q.pc = "reply" /\ q.payload = request[r].payload
      /\ q.kind = request[r].kind /\ q.tok = TokenForResponse(r)
  <2>1. request[r] \in RequestType(0..issued) /\ command.version \in Nat
    BY Numbers
  <2> QED BY <1>1, <1>2, <2>1 DEF RequestType, PCs
<1>4. Stage(q)
  BY <1>2, <1>3, Numbers DEF Stage, Reread
<1>5. request' = [request EXCEPT ![r] = q]
  BY <1>1 DEF Reread
<1> QED BY <1>0, <1>3, <1>4, <1>5, QuietStep

LEMMA ReplyStep == ASSUME Inv, NEW r \in Actors, Reply(r) PROVE Inv'
<1>1. held' \subseteq 1..issued
  <2>1. request[r].tok \in 0..issued /\ issued \in Nat
    BY Numbers
  <2>2. request[r].tok # 0 => request[r].tok \in 1..issued
    BY <2>1
  <2> QED BY <2>2 DEF Reply, Inv, TokensOK
<1>2. faults' \in 0..FaultBound
      /\ UNCHANGED <<command, unused, issued, rows, row, overdue, deleted, stale>>
  BY DEF Reply, Inv, OthersOK, timeVars
<1> QED BY <1>1, <1>2, Leaves DEF Reply

LEMMA CrashStep == ASSUME Inv, NEW r \in Actors, Crash(r) PROVE Inv'
<1>1. faults' \in 0..FaultBound
  BY BoundsAssumption DEF Crash, Inv, OthersOK
<1>2. held' \subseteq 1..issued
      /\ UNCHANGED <<command, unused, issued, rows, row, overdue, deleted, stale>>
  BY DEF Crash, Inv, TokensOK, tokenVars, timeVars
<1> QED BY <1>1, <1>2, Leaves DEF Crash

LEMMA ReadTokenStep == ASSUME Inv, NEW r \in Actors, ReadToken(r) PROVE Inv'
<1>0. /\ held' \subseteq 1..issued /\ faults' \in 0..FaultBound
      /\ UNCHANGED <<command, unused, issued, rows, row, overdue, deleted, stale>>
      /\ UNCHANGED <<command, rows, row, faults, tokenVars, timeVars>>
  BY DEF ReadToken, Inv, TokensOK, OthersOK, tokenVars, timeVars
<1>1. CASE Done(r)
  BY <1>0, <1>1, Leaves
<1>2. CASE Goto(r, "apply")
  BY <1>0, <1>2, GotoStep
<1>3. CASE request' = [request EXCEPT ![r] = [@ EXCEPT !.pc = "expire_token",
                                                       !.byToken = TRUE]]
  <2>1. PICK q : q = [request[r] EXCEPT !.pc = "expire_token", !.byToken = TRUE]
    OBVIOUS
  <2>2. /\ q \in RequestType(0..issued) /\ q.pc = "expire_token" /\ q.kind = request[r].kind
        /\ q.payload = request[r].payload /\ q.tok = request[r].tok
    BY <2>1, Numbers DEF RequestType, PCs
  <2>3. Stage(q)
    BY <2>2, Numbers DEF Stage
  <2>4. request' = [request EXCEPT ![r] = q]
    BY <1>3, <2>1
  <2> QED BY <1>0, <2>2, <2>3, <2>4, QuietStep
<1> QED BY <1>1, <1>2, <1>3 DEF ReadToken

-----------------------------------------------------------------------------
(* The statements that write. *)

\* A write after which the request goes on with what it had, or is done.
LEMMA WriteGoes ==
  ASSUME Inv, Advance, CommandOK', TokensOK', OthersOK', NEW r \in Actors,
         \/ Done(r)
         \/ \E pc \in {"load", "relookup"} : Goto(r, pc) /\ command.state # "none"
              /\ (pc = "relookup" => request[r].pc = "insert")
              /\ (pc = "load" => request[r].pc = "expire")
  PROVE  Inv'
<1>1. CASE Done(r)
  <2>1. Idle \in RequestType(0..issued) /\ Stage(Idle)
    BY Numbers DEF Idle, RequestType, Kinds, PCs, Stage
  <2> QED BY <1>1, <2>1, StagesStay, OneRequest DEF Done
<1>2. ASSUME NEW pc \in {"load", "relookup"}, Goto(r, pc), command.state # "none",
             pc = "relookup" => request[r].pc = "insert",
             pc = "load" => request[r].pc = "expire"
      PROVE  Inv'
  <2>1. PICK q : q = [request[r] EXCEPT !.pc = pc]
    OBVIOUS
  <2>2. q \in RequestType(0..issued) /\ Stage(q)
    BY <1>2, <2>1, Goes, Numbers DEF Stage, PCs
  <2>3. request' = [request EXCEPT ![r] = q]
    BY <1>2, <2>1 DEF Goto
  <2> QED BY <2>2, <2>3, StagesStay, OneRequest
<1> QED BY <1>1, <1>2

LEMMA StateSet ==
  ASSUME Inv, NEW s \in States, SetState(s)
  PROVE  /\ command' \in CommandType /\ command'.state = s
         /\ command'.version = command.version + 1 /\ command'.payload = command.payload
<1>1. command \in CommandType /\ command.version + 1 \in Nat
  BY Numbers DEF Inv, CommandOK
<1> PICK v : v = command.version + 1
  OBVIOUS
<1>2. command' = [command EXCEPT !.state = s, !.version = v]
  BY DEF SetState
<1>3. v \in Nat
  BY <1>1
<1> QED BY <1>1, <1>2, <1>3 DEF CommandType

\* A step that leaves the tables as they are, but for the passing of time.
LEMMA TimeOnly ==
  ASSUME Inv, UNCHANGED <<command, unused, issued, held, rows, row>>,
         overdue => overdue', stale' \subseteq 1..issued, OthersOK'
  PROVE  Advance /\ CommandOK' /\ TokensOK'
<1>1. CommandOK' /\ TokensOK'
  BY DEF Inv, CommandOK, TokensOK, OneExecution, Awaiting
<1> QED BY <1>1, Numbers DEF Advance

\* The end of a command by cancellation or expiry.
LEMMA Abandoned ==
  ASSUME Inv, NEW s \in {"cancelled", "expired"}, SetState(s), AbandonRow,
         command.state \in Open, UNCHANGED <<rows, faults, tokenVars, timeVars>>
  PROVE  Advance /\ CommandOK' /\ TokensOK' /\ OthersOK'
<1>1. /\ command' \in CommandType /\ command'.state = s
      /\ command'.version = command.version + 1 /\ command'.payload = command.payload
  BY StateSet DEF States
<1>2. CommandOK'
  BY <1>1 DEF Inv, CommandOK, OneExecution, Awaiting, AbandonRow, Open
<1>3. TokensOK' /\ OthersOK'
  BY <1>1 DEF Inv, TokensOK, OthersOK, Awaiting, tokenVars, timeVars
<1>4. Advance
  BY <1>1, Numbers DEF Advance, tokenVars, timeVars, Open
<1> QED BY <1>2, <1>3, <1>4

LEMMA Kept ==
  ASSUME Inv, UNCHANGED <<command, rows, row, faults, tokenVars, timeVars>>
  PROVE  Advance /\ CommandOK' /\ TokensOK' /\ OthersOK'
<1>1. OthersOK' /\ stale' \subseteq 1..issued
  BY DEF Inv, OthersOK, TokensOK, timeVars
<1> QED BY <1>1, TimeOnly DEF tokenVars, timeVars

LEMMA CancelStep == ASSUME Inv, NEW r \in Actors, CancelApply(r) PROVE Inv'
<1>1. Advance /\ CommandOK' /\ TokensOK' /\ OthersOK'
  <2>1. CASE UNCHANGED <<command, row>>
    BY <2>1, Kept DEF CancelApply
  <2>2. CASE ~UNCHANGED <<command, row>>
    BY <2>2, Abandoned DEF CancelApply
  <2> QED BY <2>1, <2>2
<1> QED BY <1>1, WriteGoes DEF CancelApply

LEMMA ExpiryStep ==
  ASSUME Inv, NEW r \in Actors, ExpireFirst(r) \/ ExpireToken(r) \/ SweepApply(r)
  PROVE  Inv'
<1>0. MarkExpired(r)
  BY DEF ExpireFirst, ExpireToken, SweepApply
<1>1. Advance /\ CommandOK' /\ TokensOK' /\ OthersOK'
  <2>1. CASE UNCHANGED <<command, row>>
    BY <1>0, <2>1, Kept DEF MarkExpired
  <2>2. CASE ~UNCHANGED <<command, row>>
    BY <1>0, <2>2, Abandoned DEF MarkExpired
  <2> QED BY <2>1, <2>2
<1>2. CASE Done(r)
  BY <1>1, <1>2, WriteGoes
<1>3. CASE ExpireFirst(r) /\ command.state # "none"
  BY <1>1, <1>3, WriteGoes DEF ExpireFirst
<1>4. CASE ExpireFirst(r) /\ command.state = "none"
  <2>1. /\ Goto(r, "load") /\ UNCHANGED <<command, rows, row, faults, tokenVars, timeVars>>
    BY <1>4 DEF ExpireFirst, MarkExpired, Open
  <2>2. request[r].kind # "create"
    BY <1>4, Numbers DEF ExpireFirst, Stage
  <2> QED BY <2>1, <2>2, GotoStep
<1> QED BY <1>2, <1>3, <1>4 DEF ExpireToken, SweepApply

\* The insertion makes the command, with its token or with its row.
LEMMA InsertStep == ASSUME Inv, NEW r \in Actors, Insert(r) PROVE Inv'
<1>0. /\ OthersOK' /\ held' = held /\ UNCHANGED <<stale, overdue>>
      /\ request[r].pc = "insert" /\ request[r].tok = 0
      /\ request[r] \in RequestType(0..issued)
  BY Numbers DEF Insert, Inv, OthersOK, timeVars, Stage
<1> PICK p : p = request[r].payload
  OBVIOUS
<1>p. p \in Payloads \cup {NoPayload}
  BY Numbers
<1>1. CASE /\ command.state # "none" /\ Goto(r, "relookup")
           /\ UNCHANGED <<command, unused, issued, rows, row>>
  <2>1. Advance /\ CommandOK' /\ TokensOK'
    BY <1>0, <1>1, TimeOnly DEF Inv, TokensOK
  <2> QED BY <1>0, <1>1, <2>1, WriteGoes
<1>2. CASE /\ command.state = "none" /\ issued < TokenBound
           /\ command' = [state |-> "awaiting_confirmation", version |-> 2, payload |-> p]
           /\ issued' = issued + 1 /\ unused' = unused \cup {issued + 1}
           /\ request' = [request EXCEPT ![r] = [@ EXCEPT !.pc = "reply", !.ver = 2,
                                                            !.tok = issued + 1]]
           /\ UNCHANGED <<rows, row>>
  <2>1. /\ command'.state = "awaiting_confirmation" /\ command'.payload = p
        /\ command'.version = 2 /\ command' \in CommandType
    BY <1>p, <1>2 DEF CommandType, States
  <2>2. /\ issued = 0 /\ issued' = 1 /\ unused' = {1} /\ stale = {} /\ held = {}
    <3>1. issued = 0 /\ unused = {} /\ stale \subseteq 1..0 /\ held \subseteq 1..0
      BY <1>2 DEF Inv, TokensOK
    <3> QED BY <1>2, <3>1
  <2>3. CommandOK'
    BY <1>2, <2>1 DEF Inv, CommandOK, OneExecution, Awaiting
  <2>4. TokensOK'
    <3>1. /\ 1 \in 0..TokenBound
          /\ issued' = 1 /\ unused' = {1} /\ stale' = {} /\ held' = {}
      <4>1. TokenBound \in Nat /\ 0 < TokenBound
        BY <1>2, <2>2, BoundsAssumption
      <4>2. 1 \in 0..TokenBound
        BY <4>1
      <4> QED BY <1>0, <2>2, <4>2
    <3>2. 1 \in 1..1
      OBVIOUS
    <3> QED BY <2>1, <3>1, <3>2 DEF TokensOK
  <2>5. Advance
    <3>1. command.version = 0 /\ command'.version = 2
      BY <1>2, <2>1 DEF Inv, CommandOK
    <3>2. command'.version >= command.version /\ issued' >= issued
      BY <2>2, <3>1
    <3> QED BY <1>0, <1>2, <3>2 DEF Advance
  <2>6. PICK q : q = [request[r] EXCEPT !.pc = "reply", !.ver = 2, !.tok = issued + 1]
    OBVIOUS
  <2>7. /\ q \in RequestType(0..issued') /\ q.pc = "reply" /\ q.payload = p
    <3>1. PICK n : n = issued + 1
      OBVIOUS
    <3>2. n = 1 /\ issued' = 1
      BY <2>2, <3>1
    <3>3. n \in 0..issued'
      BY <3>2
    <3>4. q = [request[r] EXCEPT !.pc = "reply", !.ver = 2, !.tok = n]
      BY <2>6, <3>1
    <3> HIDE <3>1
    <3> QED BY <1>0, <3>3, <3>4 DEF RequestType, PCs
  <2>8. Stage(q)'
    BY <2>1, <2>7 DEF Stage
  <2>9. request' = [request EXCEPT ![r] = q]
    BY <1>2, <2>6
  <2> QED BY <1>0, <2>3, <2>4, <2>5, <2>7, <2>8, <2>9, OneRequest
<1>3. CASE /\ command.state = "none"
           /\ command' = [state |-> "queued", version |-> 2, payload |-> p]
           /\ rows' = rows + 1 /\ row' = "queued"
           /\ Goto(r, "reply") /\ UNCHANGED <<unused, issued>>
  <2>1. /\ command'.state = "queued" /\ command'.payload = p
        /\ command'.version = 2 /\ command' \in CommandType
    BY <1>p, <1>3 DEF CommandType, States
  <2>3. CommandOK'
    BY <1>3, <2>1 DEF Inv, CommandOK, OneExecution, Awaiting
  <2>4. TokensOK'
    BY <1>0, <1>3, <2>1 DEF Inv, TokensOK, Awaiting
  <2>5. Advance
    <3>1. command.version = 0 /\ command'.version = 2 /\ issued \in Nat
      BY <1>3, <2>1, Numbers DEF Inv, CommandOK
    <3>2. command'.version >= command.version /\ issued' >= issued
      BY <1>3, <3>1
    <3> QED BY <1>0, <1>3, <3>2 DEF Advance
  <2>6. PICK q : q = [request[r] EXCEPT !.pc = "reply"]
    OBVIOUS
  <2>7. q \in RequestType(0..issued') /\ q.pc = "reply" /\ q.payload = p /\ q.tok = 0
    BY <1>0, <1>3, <2>6, Goes DEF PCs
  <2>8. Stage(q)'
    BY <2>1, <2>7 DEF Stage
  <2>9. request' = [request EXCEPT ![r] = q]
    BY <1>3, <2>6 DEF Goto
  <2> QED BY <1>0, <2>3, <2>4, <2>5, <2>7, <2>8, <2>9, OneRequest
<1> QED BY <1>1, <1>2, <1>3 DEF Insert

\* A replay that loses leaves everything as it is; one that wins moves the version on, and
\* leaves a fresh token, or none that counts because its time has passed.
LEMMA ReissueStep == ASSUME Inv, NEW r \in Actors, Reissue(r) PROVE Inv'
<1>0. /\ held' = held /\ faults' = faults /\ deleted' = deleted /\ UNCHANGED <<rows, row>>
      /\ request[r].pc = "reissue" /\ request[r] \in RequestType(0..issued)
      /\ Stage(request[r]) /\ issued \in Nat /\ command.version \in Nat
      /\ request[r].tok = 0 /\ command.state # "none" /\ unused \subseteq 1..issued
      /\ held \subseteq 1..issued /\ unused \subseteq {issued} /\ stale \subseteq 1..issued
      /\ request[r].ver \in Nat /\ request[r].ver <= command.version
      /\ command.payload = request[r].payload
      /\ overdue \in BOOLEAN /\ deleted \in BOOLEAN /\ faults \in 0..FaultBound
      /\ issued \in 0..TokenBound
  BY Numbers DEF Reissue, Stage, Inv, TokensOK, OthersOK
<1>1. ASSUME Advance, CommandOK', TokensOK', OthersOK', Goto(r, "reread")
      PROVE  Inv'
  <2>1. PICK q : q = [request[r] EXCEPT !.pc = "reread"]
    OBVIOUS
  <2>2. /\ q \in RequestType(0..issued) /\ q.pc = "reread" /\ q.payload = request[r].payload
        /\ q.ver = request[r].ver /\ q.tok = request[r].tok /\ q.kind = request[r].kind
    BY <2>1, Goes DEF PCs
  <2>3. q \in RequestType(0..issued')
    BY <1>1, <2>2, StagesStay
  <2>4. q.ver <= command'.version
    <3>1. command'.version \in Nat /\ command'.version >= command.version
      BY <1>1 DEF CommandOK, CommandType, Advance
    <3> QED BY <1>0, <2>2, <3>1
  <2>5. Stage(q)'
    BY <1>0, <1>1, <2>2, <2>4 DEF Stage, Advance
  <2>6. request' = [request EXCEPT ![r] = q]
    BY <1>1, <2>1 DEF Goto
  <2> QED BY <1>1, <2>3, <2>5, <2>6, OneRequest
<1>2. ASSUME ReplayWins(r), SetState("awaiting_confirmation")
      PROVE  /\ command' \in CommandType /\ command'.state = "awaiting_confirmation"
             /\ command'.version = command.version + 1 /\ command'.payload = command.payload
             /\ CommandOK'
  <2>1. /\ command' \in CommandType /\ command'.state = "awaiting_confirmation"
        /\ command'.version = command.version + 1 /\ command'.payload = command.payload
    BY <1>2, StateSet DEF States
  <2>2. CommandOK'
    BY <1>0, <1>2, <2>1 DEF Inv, CommandOK, OneExecution, Awaiting, ReplayWins
  <2> QED BY <2>1, <2>2
<1>3. CASE /\ ~ReplayWins(r) /\ unused' = unused \ Invalidated(r) /\ Goto(r, "reread")
           /\ UNCHANGED <<command, issued, stale, overdue>>
  <2>1. UNCHANGED <<command, unused, issued, held, rows, row>> /\ OthersOK'
        /\ stale' \subseteq 1..issued
    BY <1>0, <1>3 DEF Invalidated, OthersOK
  <2>2. Advance /\ CommandOK' /\ TokensOK'
    BY <1>3, <2>1, TimeOnly
  <2> QED BY <1>1, <1>3, <2>1, <2>2
<1>4. CASE /\ ReplayWins(r) /\ issued < TokenBound
           /\ SetState("awaiting_confirmation")
           /\ issued' = issued + 1
           /\ unused' = {issued + 1}
           /\ request' = [request EXCEPT ![r] = [@ EXCEPT !.pc = "reread", !.tok = issued + 1,
                                                            !.ver = command.version + 1]]
           /\ UNCHANGED <<stale, overdue>>
  <2> PICK n : n = issued + 1
    OBVIOUS
  <2> PICK v : v = command.version + 1
    OBVIOUS
  <2>1. /\ n \in Nat /\ n \in 1..n /\ n \in 0..n /\ n \in 0..TokenBound /\ 1..issued \subseteq 1..n
        /\ n >= issued /\ v \in Nat /\ v >= command.version /\ v # command.version
        /\ v <= v
    <3>1. issued \in Nat /\ command.version \in Nat /\ TokenBound \in Nat
      BY <1>0, BoundsAssumption
    <3>2. n \in Nat /\ n \in 1..n /\ n \in 0..n /\ 1..issued \subseteq 1..n /\ n >= issued
      BY <3>1
    <3>3. n \in 0..TokenBound
      BY <1>4, <3>1
    <3>4. v \in Nat /\ v >= command.version /\ v # command.version /\ v <= v
      BY <3>1
    <3> QED BY <3>2, <3>3, <3>4
  <2>2. issued' = n /\ unused' = {n} /\ command'.version = v
    BY <1>2, <1>4
  <2>3. OthersOK'
    BY <1>0, <1>4 DEF OthersOK
  <2>4. TokensOK'
    BY <1>0, <1>2, <1>4, <2>1, <2>2 DEF TokensOK
  <2>5. Advance
    BY <1>0, <1>2, <1>4, <2>1, <2>2 DEF Advance
  <2>6. PICK q : q = [request[r] EXCEPT !.pc = "reread", !.tok = n, !.ver = v]
    OBVIOUS
  <2>7. /\ q \in RequestType(0..n) /\ q.pc = "reread" /\ q.payload = request[r].payload
        /\ q.ver = v /\ q.tok = n
    BY <1>0, <2>1, <2>6 DEF RequestType, PCs
  <2>8. Stage(q)'
    BY <1>0, <1>2, <1>4, <2>1, <2>2, <2>7 DEF Stage
  <2>9. request' = [request EXCEPT ![r] = q]
    BY <1>4, <2>6
  <2> QED BY <1>2, <1>4, <2>2, <2>3, <2>4, <2>5, <2>7, <2>8, <2>9, OneRequest
<1>5. CASE /\ ReplayWins(r) /\ SetState("awaiting_confirmation")
           /\ stale' = stale \cup unused /\ Goto(r, "reread")
           /\ UNCHANGED <<unused, issued, overdue>>
  <2>1. OthersOK'
    BY <1>0, <1>5 DEF OthersOK
  <2>2. TokensOK'
    BY <1>0, <1>2, <1>5 DEF TokensOK, ReplayWins, Awaiting
  <2>3. command.version + 1 >= command.version /\ command.version + 1 # command.version
        /\ issued >= issued
    BY <1>0
  <2>4. Advance
    BY <1>0, <1>2, <1>5, <2>3 DEF Advance
  <2> QED BY <1>1, <1>2, <1>5, <2>1, <2>2, <2>4
<1>6. CASE /\ ReplayWins(r) /\ SetState("awaiting_confirmation")
           /\ unused' = unused \ Invalidated(r)
           /\ overdue' = TRUE /\ stale' = 1..issued /\ Goto(r, "reread")
           /\ UNCHANGED issued
  <2>1. OthersOK'
    BY <1>0, <1>6 DEF OthersOK
  <2>2. TokensOK'
    BY <1>0, <1>2, <1>6 DEF TokensOK
  <2>3. command.version + 1 >= command.version /\ command.version + 1 # command.version
        /\ issued >= issued
    BY <1>0
  <2>4. Advance
    BY <1>0, <1>2, <1>6, <2>3 DEF Advance
  <2> QED BY <1>1, <1>2, <1>6, <2>1, <2>2, <2>4
<1> QED BY <1>3, <1>4, <1>5, <1>6 DEF Reissue

\* The claim of the token and the queueing are one: the token is used, and the command is
\* queued unless its time has passed between the two.
LEMMA ConfirmApplyStep == ASSUME Inv, NEW r \in Actors, ConfirmApply(r) PROVE Inv'
<1>0. /\ UNCHANGED <<issued, held, faults, deleted>> /\ issued \in Nat
      /\ command.version \in Nat /\ unused' \subseteq unused /\ Done(r)
      /\ overdue \in BOOLEAN /\ deleted \in BOOLEAN /\ faults \in 0..FaultBound
      /\ unused' = IF ClaimWins(r) THEN unused \ {request[r].tok} ELSE unused
  BY Numbers DEF ConfirmApply, Inv, OthersOK
<1>1. CASE /\ QueueWins(r) /\ SetState("queued")
           /\ rows' = rows + 1 /\ row' = "queued" /\ UNCHANGED <<stale, overdue>>
  <2>1. /\ command' \in CommandType /\ command'.state = "queued"
        /\ command'.version = command.version + 1 /\ command'.payload = command.payload
    BY <1>1, StateSet DEF States
  <2>2. Awaiting /\ rows = 0
    BY <1>1 DEF QueueWins, Inv, CommandOK, OneExecution
  <2>3. CommandOK'
    BY <1>1, <2>1, <2>2 DEF CommandOK, OneExecution, Awaiting
  <2>4. TokensOK' /\ OthersOK'
    BY <1>0, <1>1, <2>1 DEF Inv, TokensOK, OthersOK, Awaiting
  <2>5. Advance
    <3>1. command.version + 1 >= command.version /\ command.version + 1 # command.version
          /\ issued >= issued
      BY <1>0
    <3> QED BY <1>0, <1>1, <2>1, <3>1 DEF Advance
  <2> QED BY <1>0, <2>3, <2>4, <2>5, WriteGoes
<1>2. CASE ~QueueWins(r) /\ UNCHANGED <<command, rows, row, stale, overdue>>
  <2>1. ~ClaimWins(r) /\ unused' = unused
    BY <1>0, <1>2 DEF QueueWins, ClaimWins
  <2>2. Advance /\ CommandOK' /\ TokensOK' /\ OthersOK'
    BY <1>0, <1>2, <2>1, Kept DEF tokenVars, timeVars
  <2> QED BY <1>0, <2>2, WriteGoes
<1>3. CASE /\ ClaimWins(r) /\ overdue' = TRUE /\ stale' = 1..issued
           /\ UNCHANGED <<command, rows, row>>
  <2>1. Awaiting
    BY <1>3 DEF ClaimWins
  <2>2. CommandOK'
    BY <1>3 DEF Inv, CommandOK, OneExecution, Awaiting
  <2>3. TokensOK' /\ OthersOK'
    BY <1>0, <1>3, <2>1 DEF Inv, TokensOK, OthersOK, Awaiting
  <2>4. Advance
    BY <1>0, <1>3 DEF Advance
  <2> QED BY <1>0, <2>2, <2>3, <2>4, WriteGoes
<1> QED BY <1>1, <1>2, <1>3 DEF ConfirmApply

LEMMA SweepReadStep == ASSUME Inv, NEW r \in Actors, SweepRead(r) PROVE Inv'
<1>1. PICK b : b = (Awaiting /\ ~overdue)
  OBVIOUS
<1>2. b \in BOOLEAN
  BY <1>1
<1>3. PICK q : q = [Idle EXCEPT !.kind = "sweep", !.pc = "sweep", !.ver = command.version,
                                !.byToken = b]
  OBVIOUS
<1>4. q \in RequestType(0..issued) /\ q.pc = "sweep" /\ q.kind = "sweep"
  BY <1>2, <1>3, Numbers DEF Idle, RequestType, PCs, Kinds
<1>5. request' = [request EXCEPT ![r] = q]
  BY <1>1, <1>3 DEF SweepRead
<1> QED BY <1>4, <1>5, ReadStep DEF SweepRead

LEMMA RelookupStep == ASSUME Inv, NEW r \in Actors, Relookup(r) PROVE Inv'
<1>1. command.state # "none" /\ request[r].payload \in Payloads \cup {NoPayload}
  BY Numbers DEF Relookup, Stage
<1> QED BY <1>1, FoundStep DEF Relookup

LEMMA ReloadStep == ASSUME Inv, NEW r \in Actors, Reload(r) PROVE Inv'
<1>1. request[r].kind \in Kinds \ {"create"} /\ request[r].tok \in 0..issued
  BY Numbers DEF Reload, Stage
<1> QED BY <1>1, LoadStep DEF Reload

LEMMA StartsStep == ASSUME Inv, NEW r \in Requests, Starts(r) PROVE Inv'
<1>1. ASSUME NEW p \in Payloads, Create(r, p) PROVE Inv'
  BY <1>1, CreateStep
<1>2. ASSUME NEW t \in held, Confirm(r, t) PROVE Inv'
  <2>1. t \in 0..issued /\ r \in Actors
    <3>1. t \in 1..issued /\ issued \in Nat
      BY Numbers DEF Inv, TokensOK
    <3> QED BY <3>1 DEF Actors
  <2> QED BY <1>2, <2>1, LoadStep DEF Confirm, Load, Kinds
<1>3. CASE Cancel(r)
  <2>1. 0 \in 0..issued /\ r \in Actors
    BY Numbers DEF Actors
  <2> QED BY <1>3, <2>1, LoadStep DEF Cancel, Load, Kinds
<1> QED BY <1>1, <1>2, <1>3 DEF Starts

\* The passing of time, and the deletion of the session, are no request's.
LEMMA OutsideStep ==
  ASSUME Inv, (\E t \in 1..issued : TokenExpires(t)) \/ TtlPasses \/ DeleteSession
  PROVE  Inv'
<1>1. /\ UNCHANGED <<command, unused, issued, held, rows, row, request>>
      /\ overdue => overdue'
      /\ stale' \subseteq 1..issued /\ OthersOK'
  BY DEF TokenExpires, TtlPasses, DeleteSession, Inv, TokensOK, OthersOK
<1>2. Advance /\ CommandOK' /\ TokensOK'
  BY <1>1, TimeOnly
<1>3. request' \in [Actors -> RequestType(0..issued')]
  BY <1>1 DEF Inv, RequestsOK
<1>4. ASSUME NEW r \in Actors PROVE Stage(request[r])'
  BY <1>1, <1>2, Numbers DEF Stage, Awaiting
<1> QED BY <1>1, <1>2, <1>3, <1>4 DEF Inv, RequestsOK

LEMMA InvStep == ASSUME Inv, [Next]_vars PROVE Inv'
<1>1. ASSUME NEW r \in Requests, Starts(r) PROVE Inv'
  BY <1>1, StartsStep
<1>2. ASSUME NEW r \in Drains, SweepRead(r) PROVE Inv'
  BY <1>2, SweepReadStep DEF Actors
<1>3. ASSUME NEW r \in Actors, Continues(r) PROVE Inv'
  BY <1>3, InsertStep, RelookupStep, ReissueStep, RereadStep, ReplyStep, ReloadStep,
     ReadTokenStep, ConfirmApplyStep, CancelStep, ExpiryStep DEF Continues
<1>4. ASSUME NEW r \in Actors, Crash(r) PROVE Inv'
  BY <1>4, CrashStep
<1>5. CASE UNCHANGED vars
  BY <1>5 DEF vars, Inv, CommandOK, TokensOK, OthersOK, RequestsOK, OneExecution, Awaiting, Stage
<1> QED BY <1>1, <1>2, <1>3, <1>4, <1>5, OutsideStep DEF Next

LEMMA Invariance == Spec => []Inv
<1>1. Init => Inv
  BY InvInit
<1>2. Inv /\ [Next]_vars => Inv'
  BY InvStep
<1> QED BY <1>1, <1>2, PTL DEF Spec

-----------------------------------------------------------------------------
(* What the runs check, for every value of the constants. *)

\* An idempotency key is one command, which is given to the outbox at most once, and a
\* client only gets tokens for the payload it has sent, however creations, replays,
\* confirmations, cancellations and sweeps run into each other.
THEOREM KeyIsOneCommandCorrect == Spec => []KeyIsOneCommand
<1>1. Inv => KeyIsOneCommand
  <2> SUFFICES ASSUME Inv PROVE KeyIsOneCommand
    OBVIOUS
  <2>1. TypeOK
    BY DEF Inv, CommandOK, CommandType, TokensOK, OthersOK, RequestsOK, RequestType, Kinds, TypeOK
  <2>2. TokenForItsPayload
    BY Numbers DEF TokenForItsPayload, Stage, Actors
  <2> QED BY <2>1, <2>2 DEF Inv, CommandOK, KeyIsOneCommand
<1> QED BY <1>1, Invariance, PTL

\* There is never more than one token that can confirm, it is the last one issued, and a
\* command that waits has one unless its TTL has passed, so that replays that rotate the
\* token and expiries between their statements leave no command without an authority.
THEOREM OneAuthorityCorrect == Spec => []OneAuthority
<1>1. Inv => OneAuthority
  <2> SUFFICES ASSUME Inv PROVE OneAuthority
    OBVIOUS
  <2>1. unused = {} \/ unused = {issued}
    BY DEF Inv, TokensOK
  <2>2. Cardinality({}) = 0 /\ Cardinality({issued}) = 1
    BY FS_EmptySet, FS_Singleton
  <2>3. Cardinality(unused) <= 1
    BY <2>1, <2>2
  <2> QED BY <2>3 DEF Inv, TokensOK, OneAuthority
<1> QED BY <1>1, Invariance, PTL

\* A step that queues a command that waited uses the newest token, which had not expired,
\* in a session that was not deleted, while the TTL of the command had not passed.
THEOREM QueuedByNewestTokenCorrect == Spec => QueuedByNewestToken
<1>1. Inv /\ [Next]_vars => QueuedByNewestTokenStep
  <2> SUFFICES ASSUME Inv, [Next]_vars, Awaiting, command'.state = "queued"
               PROVE  /\ issued \in unused \ unused' /\ issued \notin stale
                      /\ ~overdue /\ ~deleted
    BY DEF QueuedByNewestTokenStep
  <2>1. PICK r \in Actors : ConfirmApply(r)
    <3>1. command' # command /\ command.state # "none"
      BY DEF Awaiting
    <3>2. ASSUME NEW r \in Actors, Reissue(r) PROVE command' = command \/ command'.state # "queued"
      BY <3>2, StateSet DEF Reissue, States
    <3>3. ASSUME NEW r \in Actors, CancelApply(r) \/ MarkExpired(r)
          PROVE command' = command \/ command'.state # "queued"
      BY <3>3, StateSet DEF CancelApply, MarkExpired, States
    <3> QED BY <3>1, <3>2, <3>3
         DEF Next, vars, Starts, Continues, Create, Confirm, Cancel, Load, Insert, Relookup, Reread,
             Reply, Reload, ReadToken, ExpireFirst, ExpireToken, SweepRead, SweepApply, Crash,
             TokenExpires, TtlPasses, DeleteSession
  <2>2. QueueWins(r)
    BY <2>1 DEF ConfirmApply, Awaiting
  <2>3. request[r].tok \in unused \ stale /\ unused' = unused \ {request[r].tok}
        /\ ~overdue /\ ~deleted
    BY <2>1, <2>2 DEF ConfirmApply, QueueWins, ClaimWins
  <2>4. request[r].tok = issued
    BY <2>3 DEF Inv, TokensOK
  <2> QED BY <2>3, <2>4
<1> QED BY <1>1, Invariance, PTL DEF Spec, QueuedByNewestToken

\* The body of a replay carries a token only if it was the one that confirms when the
\* command was read for it, or the TTL had passed.
THEOREM ReplayTokenIsCurrentCorrect == Spec => ReplayTokenIsCurrent
<1> DEFINE Current ==
      \A r \in Requests :
        request[r].pc = "reread" /\ request'[r].pc = "reply" /\ request'[r].tok # 0
        /\ Awaiting => request'[r].tok \in unused \/ overdue
<1>1. Inv /\ [Next]_vars => Current
  <2> SUFFICES ASSUME Inv, [Next]_vars, NEW r \in Requests, Awaiting,
                      request[r].pc = "reread", request'[r].pc = "reply", request'[r].tok # 0
               PROVE  request'[r].tok \in unused \/ overdue
    OBVIOUS
  <2>0. request \in [Actors -> RequestType(0..issued)] /\ Requests \subseteq Actors /\ r \in Actors
        /\ Drains \subseteq Actors
    BY DEF Inv, RequestsOK, Actors
  <2>1. ASSUME NEW a \in Actors, NEW x, request' = [request EXCEPT ![a] = x] PROVE a = r
    BY <2>0, <2>1
  <2>2. ASSUME NEW a \in Requests, Starts(a) PROVE FALSE
    <3>1. request[a].pc = "idle" /\ \E x : request' = [request EXCEPT ![a] = x]
      BY <2>2 DEF Starts, Create, Found, Confirm, Cancel, Load, Read, Done
    <3> QED BY <2>0, <2>1, <3>1
  <2>3. ASSUME NEW a \in Drains, SweepRead(a) PROVE FALSE
    <3>1. request[a].pc = "idle" /\ \E x : request' = [request EXCEPT ![a] = x]
      BY <2>3 DEF SweepRead
    <3> QED BY <2>0, <2>1, <3>1
  <2>4. ASSUME NEW a \in Actors, Crash(a) PROVE FALSE
    <3>1. request' = [request EXCEPT ![a] = Idle]
      BY <2>4 DEF Crash, Done
    <3>2. a = r
      BY <2>1, <3>1
    <3> QED BY <2>0, <3>1, <3>2 DEF Idle
  <2>5. ASSUME NEW a \in Actors, Continues(a) PROVE Reread(r)
    <3>1. \E x : request' = [request EXCEPT ![a] = x]
      BY <2>5 DEF Continues, Insert, Relookup, Found, Reissue, Reread, Reply, Reload, Read, ReadToken,
                  ConfirmApply, CancelApply, ExpireFirst, ExpireToken, SweepApply, Done, Goto
    <3>2. a = r
      BY <2>1, <3>1
    <3> QED BY <2>5, <3>2 DEF Continues, Insert, Relookup, Reissue, Reply, Reload, ReadToken,
                  ConfirmApply, CancelApply, ExpireFirst, ExpireToken, SweepApply
  <2>6. Reread(r)
    <3>1. ~UNCHANGED vars /\ ~(\E t \in 1..issued : TokenExpires(t)) /\ ~TtlPasses /\ ~DeleteSession
      BY DEF vars, TokenExpires, TtlPasses, DeleteSession
    <3> QED BY <2>2, <2>3, <2>4, <2>5, <3>1 DEF Next
  <2>7. request'[r].tok = TokenForResponse(r)
    <3>1. request[r] \in RequestType(0..issued)
      BY <2>0
    <3>2. PICK q : q = [request[r] EXCEPT !.pc = "reply", !.tok = TokenForResponse(r),
                                          !.ver = command.version]
      OBVIOUS
    <3>3. q.tok = TokenForResponse(r)
      BY <3>1, <3>2 DEF RequestType
    <3>4. request' = [request EXCEPT ![r] = q]
      BY <2>6, <3>2 DEF Reread
    <3> QED BY <2>0, <3>3, <3>4
  <2>8. request[r].tok # 0 /\ request[r].ver = command.version
        /\ request'[r].tok = request[r].tok
    BY <2>7 DEF TokenForResponse
  <2> QED BY <2>0, <2>8, Numbers DEF Stage
<1> QED BY <1>1, Invariance, PTL DEF Spec, ReplayTokenIsCurrent

=============================================================================
