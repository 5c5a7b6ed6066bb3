------------------------------- MODULE Devices -------------------------------
(***************************************************************************)
(* register_device of lib.rs: it looks for the row of the device, then     *)
(* writes, in one batch, the push token away from every row that has it    *)
(* and into the row of the device, which is inserted when none was found.  *)
(***************************************************************************)
EXTENDS Naturals, FiniteSets

CONSTANTS
  Users,
  Apps,      \* the installations of the app, which the device ids name
  Tokens,    \* the push tokens
  Rows,      \* the ids of rows
  Requests,  \* the registrations that run at the same time
  None       \* no user, no installation, no token, no row

VARIABLES
  devices,  \* the rows of devices
  regs,     \* the registrations under way
  overlap   \* the devices whose first registrations have overlapped

vars == <<devices, regs, overlap>>

-----------------------------------------------------------------------------
NoRow == [user |-> None, app |-> None, token |-> None]
Idle == [pc |-> "idle", user |-> None, app |-> None, token |-> None, row |-> None]

TypeOK ==
  /\ devices \in [Rows -> [user : Users \cup {None}, app : Apps \cup {None},
                           token : Tokens \cup {None}]]
  /\ regs \in [Requests -> [pc : {"idle", "write"}, user : Users \cup {None},
                            app : Apps \cup {None}, token : Tokens \cup {None},
                            row : Rows \cup {None}]]
  /\ overlap \subseteq Users \X Apps

Init ==
  /\ devices = [d \in Rows |-> NoRow]
  /\ regs = [r \in Requests |-> Idle]
  /\ overlap = {}

RowsOf(u, a) == {d \in Rows : devices[d].user = u /\ devices[d].app = a}

\* The row of the device; when there are several, the latest, which is any of them.
StartRegistration(r, u, a, tok) ==
  /\ regs[r].pc = "idle"
  /\ \E d \in IF RowsOf(u, a) = {} THEN {None} ELSE RowsOf(u, a) :
       regs' = [regs EXCEPT ![r] = [pc |-> "write", user |-> u, app |-> a, token |-> tok, row |-> d]]
  /\ overlap' = IF \E q \in Requests : regs[q].pc = "write" /\ regs[q].user = u /\ regs[q].app = a
                THEN overlap \cup {<<u, a>>} ELSE overlap
  /\ UNCHANGED devices

\* A token that is taken from the rows of the same user only.
Retired_Own(u, tok) ==
  [d \in Rows |-> IF tok # None /\ devices[d].user = u /\ devices[d].token = tok
                  THEN [devices[d] EXCEPT !.token = None] ELSE devices[d]]

\* retire_device_token_from_previous_bindings_sql: every row that has the token.
Retired(u, tok) ==
  [d \in Rows |-> IF tok # None /\ devices[d].token = tok
                  THEN [devices[d] EXCEPT !.token = None] ELSE devices[d]]

\* A row that is inserted in any case.
Target_New(r, d) == devices[d] = NoRow

\* The row that was found, or a new one.
Target(r, d) == IF regs[r].row # None THEN d = regs[r].row ELSE devices[d] = NoRow

WriteRegistration(r, d) ==
  /\ regs[r].pc = "write" /\ Target(r, d)
  /\ devices' = [Retired(regs[r].user, regs[r].token)
                 EXCEPT ![d] = [user |-> regs[r].user, app |-> regs[r].app,
                                token |-> regs[r].token]]
  /\ regs' = [regs EXCEPT ![r] = Idle]
  /\ UNCHANGED overlap

Stop(r) ==
  /\ regs[r].pc # "idle"
  /\ regs' = [regs EXCEPT ![r] = Idle]
  /\ UNCHANGED <<devices, overlap>>

Next ==
  \E r \in Requests :
    \/ \E u \in Users, a \in Apps, tok \in Tokens \cup {None} : StartRegistration(r, u, a, tok)
    \/ \E d \in Rows : WriteRegistration(r, d)
    \/ Stop(r)

Spec == Init /\ [][Next]_vars

-----------------------------------------------------------------------------
(* What the registrations promise. *)

\* A push token is bound to one row, whoever owned the device before and however the
\* registrations race: nobody gets the notifications of another user.
TokenBoundOnce == \A tok \in Tokens : Cardinality({d \in Rows : devices[d].token = tok}) <= 1

\* A user has one row for a device, unless registrations of the device overlapped.
TwoRowsNeedOverlap == \A u \in Users, a \in Apps :
  Cardinality(RowsOf(u, a)) > 1 => <<u, a>> \in overlap

\* A push token and a device have one row each.
OneRowEach == TokenBoundOnce /\ TwoRowsNeedOverlap
=============================================================================
