----------------------------- MODULE Credentials -----------------------------
(***************************************************************************)
(* The refresh tokens of a backend that keeps its own accounts, and the    *)
(* pairing codes by which an agent of a user is made.  A refresh reads the *)
(* token, revokes it by an update that only one refresh wins, and inserts  *)
(* the next one; it may be overtaken, by another refresh or by a logout,   *)
(* after each.  A host claims a code in one batch, the second statement of *)
(* which makes the agent for the claim that the first one has won.         *)
(***************************************************************************)
EXTENDS Naturals, FiniteSets

CONSTANTS
  Tokens,    \* the values of refresh tokens
  Logins,    \* the logins they go back to
  Codes,     \* the pairing codes
  Requests,  \* the requests that run at the same time: the ids and secrets they mint too
  NoOne      \* no token, no login, no request

VARIABLES
  tokens,  \* refresh_tokens, by value
  codes,   \* pairing_codes
  agents,  \* the agents: the request that made it, and the code
  reqs     \* the requests under way

vars == <<tokens, codes, agents, reqs>>

-----------------------------------------------------------------------------
NoToken == [login |-> NoOne, revoked |-> FALSE, due |-> FALSE]
NoCode == [status |-> "none", by |-> NoOne, due |-> FALSE]
Idle == [pc |-> "idle", token |-> NoOne, login |-> NoOne, code |-> NoOne, late |-> FALSE]

TypeOK ==
  /\ tokens \in [Tokens -> [login : Logins \cup {NoOne}, revoked : BOOLEAN, due : BOOLEAN]]
  /\ codes \in [Codes -> [status : {"none", "waiting", "claimed"}, by : Requests \cup {NoOne},
                          due : BOOLEAN]]
  /\ agents \subseteq Requests \X Codes
  /\ reqs \in [Requests -> [pc : {"idle", "issue", "rotate", "claim", "over"},
                            token : Tokens \cup {NoOne}, login : Logins \cup {NoOne},
                            code : Codes \cup {NoOne}, late : BOOLEAN]]

Init ==
  /\ tokens = [t \in Tokens |-> NoToken]
  /\ codes = [c \in Codes |-> NoCode]
  /\ agents = {}
  /\ reqs = [r \in Requests |-> Idle]

Goto(r, pc) == reqs' = [reqs EXCEPT ![r].pc = pc]
Leave(r) == reqs' = [reqs EXCEPT ![r] = Idle]
Live(t) == tokens[t].login # NoOne /\ ~tokens[t].revoked

\* A login that is still good for a refresh, or is just getting its next token.
Alive(l) ==
  \/ \E t \in Tokens : tokens[t].login = l /\ Live(t)
  \/ \E r \in Requests : reqs[r].pc = "issue" /\ reqs[r].login = l

-----------------------------------------------------------------------------
(* Login, refresh and logout. *)

\* The password is right.
Login(r, l) ==
  /\ reqs[r].pc = "idle"
  /\ \A t \in Tokens : tokens[t].login # l
  /\ \A q \in Requests : reqs[q].login # l
  /\ reqs' = [reqs EXCEPT ![r] = [Idle EXCEPT !.pc = "issue", !.login = l]]
  /\ UNCHANGED <<tokens, codes, agents>>

\* issue_user_auth inserts a token of a new value.
IssueToken(r, t) ==
  /\ reqs[r].pc = "issue" /\ tokens[t] = NoToken
  /\ tokens' = [tokens EXCEPT ![t].login = reqs[r].login]
  /\ Leave(r)
  /\ UNCHANGED <<codes, agents>>

\* The refresh reads the token, which is refused when it is revoked or expired.
StartRefresh(r, t) ==
  /\ reqs[r].pc = "idle" /\ Live(t) /\ ~tokens[t].due
  /\ reqs' = [reqs EXCEPT ![r] = [Idle EXCEPT !.pc = "rotate", !.token = t,
                                              !.login = tokens[t].login]]
  /\ UNCHANGED <<tokens, codes, agents>>

\* A rotation that does not look whether the token has been revoked.
Rotates_Always(t) == TRUE

\* The condition of the update: not revoked in the meantime.
Rotates(t) == ~tokens[t].revoked

RotateToken(r) ==
  LET t == reqs[r].token IN
  /\ reqs[r].pc = "rotate"
  /\ tokens' = [tokens EXCEPT ![t].revoked = TRUE]
  /\ IF Rotates(t) THEN Goto(r, "issue") ELSE Leave(r)
  /\ UNCHANGED <<codes, agents>>

\* auth_logout, with the token the client holds.
Logout(t) ==
  /\ Live(t)
  /\ tokens' = [tokens EXCEPT ![t].revoked = TRUE]
  /\ UNCHANGED <<codes, agents, reqs>>

-----------------------------------------------------------------------------
(* Pairing. *)

CreateCode(c) ==
  /\ codes[c].status = "none"
  /\ codes' = [codes EXCEPT ![c].status = "waiting"]
  /\ UNCHANGED <<tokens, agents, reqs>>

\* The clock is read before the batch.
StartClaim(r, c) ==
  /\ reqs[r].pc = "idle" /\ codes[c].status # "none"
  /\ reqs' = [reqs EXCEPT ![r] = [Idle EXCEPT !.pc = "claim", !.code = c, !.late = codes[c].due]]
  /\ UNCHANGED <<tokens, codes, agents>>

\* An insert for a code that is claimed, by whomever.
Claimed_Any(row, r) == row.status = "claimed"

\* The condition of the insert: the claim token is that of this request.
Claimed(row, r) == row.by = r

\* The batch: the update claims a code that waits, the insert makes the agent.
ClaimCode(r) ==
  LET c == reqs[r].code IN
  /\ reqs[r].pc = "claim"
  /\ codes' = IF codes[c].status = "waiting" /\ ~reqs[r].late
              THEN [codes EXCEPT ![c].status = "claimed", ![c].by = r] ELSE codes
  /\ agents' = IF Claimed(codes'[c], r) THEN agents \cup {<<r, c>>} ELSE agents
  /\ Goto(r, "over")
  /\ UNCHANGED tokens

-----------------------------------------------------------------------------
TokenExpires(t) ==
  /\ Live(t) /\ ~tokens[t].due
  /\ tokens' = [tokens EXCEPT ![t].due = TRUE]
  /\ UNCHANGED <<codes, agents, reqs>>

CodeExpires(c) ==
  /\ codes[c].status = "waiting" /\ ~codes[c].due
  /\ codes' = [codes EXCEPT ![c].due = TRUE]
  /\ UNCHANGED <<tokens, agents, reqs>>

\* The Worker stops.
Stop(r) ==
  /\ reqs[r].pc \in {"issue", "rotate"}
  /\ Leave(r)
  /\ UNCHANGED <<tokens, codes, agents>>

Next ==
  \/ \E r \in Requests :
       \/ \E l \in Logins : Login(r, l)
       \/ \E t \in Tokens : IssueToken(r, t) \/ StartRefresh(r, t)
       \/ RotateToken(r) \/ \E c \in Codes : StartClaim(r, c)
       \/ ClaimCode(r) \/ Stop(r)
  \/ \E t \in Tokens : Logout(t) \/ TokenExpires(t)
  \/ \E c \in Codes : CreateCode(c) \/ CodeExpires(c)

Spec == Init /\ [][Next]_vars

-----------------------------------------------------------------------------
(* What the credentials promise. *)

\* However its refreshes race, a login is good for one token at a time: a token that
\* was rotated is never the way to a second one.
OneTokenPerLogin == \A l \in Logins :
  Cardinality({t \in Tokens : tokens[t].login = l /\ Live(t)}
              \cup {r \in Requests : reqs[r].pc = "issue" /\ reqs[r].login = l}) <= 1

\* A login that has lost its last token stays without one, a refresh that read the
\* token before it was revoked notwithstanding.
DeadStaysDead ==
  [][\A l \in Logins :
       (\E t \in Tokens : tokens[t].login = l) /\ ~Alive(l) => ~Alive(l)']_vars

\* A code makes one agent, for the claim that won it: a claim that lost, or came too
\* late, makes none.
OneAgentPerCode == \A c \in Codes :
  {a \in agents : a[2] = c} = IF codes[c].status = "claimed" THEN {<<codes[c].by, c>>} ELSE {}
=============================================================================
