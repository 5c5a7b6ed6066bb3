--------------------------- MODULE PhoneOperations ---------------------------
(***************************************************************************)
(* The idempotency keys of phone_operations.rs around the requests by      *)
(* which a phone replies or confirms.  A request claims the key, does its  *)
(* work in the session and records the answer under its claim token, or    *)
(* frees the key when the work was refused.  The claim is a lease, which a *)
(* repeated request takes over when it has passed.  What the work does in  *)
(* the session is modelled by Sessions; here it is done or refused.        *)
(***************************************************************************)
CONSTANTS
  OpKeys,      \* the idempotency keys the phone uses
  Goals,       \* what it asks for: a reply, a confirmation or a cancellation
  Requests,    \* the requests that run at the same time
  NoOne        \* no goal, no request

VARIABLES
  ops,    \* the rows of phone_operations, by their key
  work,   \* what has become of each goal in the session
  calls,  \* the requests under way
  told    \* the answers phones were given: key, goal

vars == <<ops, work, calls, told>>

-----------------------------------------------------------------------------
Absent == [goal |-> NoOne, holder |-> NoOne, answered |-> FALSE, due |-> FALSE]
Idle == [pc |-> "idle", key |-> NoOne, goal |-> NoOne]
PCs == {"idle", "begin", "look", "take", "work", "complete", "release"}

TypeOK ==
  /\ ops \in [OpKeys -> [goal : Goals \cup {NoOne}, holder : Requests \cup {NoOne},
                         answered : BOOLEAN, due : BOOLEAN]]
  /\ work \in [Goals -> {"open", "done", "over"}]
  /\ calls \in [Requests -> [pc : PCs, key : OpKeys \cup {NoOne}, goal : Goals \cup {NoOne}]]
  /\ told \subseteq OpKeys \X Goals

Init ==
  /\ ops = [k \in OpKeys |-> Absent]
  /\ work = [g \in Goals |-> "open"]
  /\ calls = [r \in Requests |-> Idle]
  /\ told = {}

Row(r) == ops[calls[r].key]
Write(r, row) == ops' = [ops EXCEPT ![calls[r].key] = row]
Goto(r, pc) == calls' = [calls EXCEPT ![r].pc = pc]
Leave(r) == calls' = [calls EXCEPT ![r] = Idle]

\* A fresh claim of the request: its token is new, and so is its lease.
Claim(r) == [goal |-> calls[r].goal, holder |-> r, answered |-> FALSE, due |-> FALSE]

\* A statement that finds the row by its key alone.
Holds_KeyOnly(r) == Row(r).goal # NoOne /\ ~Row(r).answered

\* Only the token tells whose claim it is: the request that holds it, unless it
\* has stopped, whose token nobody knows any more.
Holds(r) == Row(r).holder = r /\ ~Row(r).answered

-----------------------------------------------------------------------------
Ask(r, k, g) ==
  /\ calls[r].pc = "idle"
  /\ calls' = [calls EXCEPT ![r] = [pc |-> "begin", key |-> k, goal |-> g]]
  /\ UNCHANGED <<ops, work, told>>

\* begin: the insert, which does nothing when the key has a row.
BeginOperation(r) ==
  /\ calls[r].pc = "begin"
  /\ IF Row(r) = Absent THEN Write(r, Claim(r)) /\ Goto(r, "work")
     ELSE UNCHANGED ops /\ Goto(r, "look")
  /\ UNCHANGED <<work, told>>

\* The row is read: it may be gone, of another request, answered, past its lease
\* or still running.
LookAtRow(r) ==
  LET mine == Row(r).goal = calls[r].goal IN
  /\ calls[r].pc = "look"
  /\ told' = IF mine /\ Row(r).answered
             THEN told \cup {<<calls[r].key, calls[r].goal>>} ELSE told
  /\ IF mine /\ ~Row(r).answered /\ Row(r).due THEN Goto(r, "take") ELSE Leave(r)
  /\ UNCHANGED <<ops, work>>

\* A takeover that relies on the row as it was read.
Expirable_Read(row) == ~row.answered

\* The condition of the takeover: no answer, and the lease still past.
Expirable(row) == ~row.answered /\ row.due

\* The takeover puts a new token in the place of the old one.
TakeOver(r) ==
  /\ calls[r].pc = "take"
  /\ IF Row(r).goal = calls[r].goal /\ Expirable(Row(r))
     THEN Write(r, Claim(r)) /\ Goto(r, "work")
     ELSE UNCHANGED ops /\ Leave(r)
  /\ UNCHANGED <<work, told>>

\* phone_reply or phone_confirm: what is open is done, what was done just now may be
\* answered as it is, and everything else is refused.
Work(r) ==
  LET g == calls[r].goal IN
  /\ calls[r].pc = "work"
  /\ \/ work[g] = "open" /\ work' = [work EXCEPT ![g] = "done"] /\ Goto(r, "complete")
     \/ work[g] = "done" /\ Goto(r, "complete") /\ UNCHANGED work
     \/ Goto(r, "release") /\ UNCHANGED work
  /\ UNCHANGED <<ops, told>>

\* complete: the answer is recorded under the token; a claim that was taken over
\* makes it a conflict.
CompleteOperation(r) ==
  /\ calls[r].pc = "complete"
  /\ IF Holds(r)
     THEN /\ Write(r, [Row(r) EXCEPT !.answered = TRUE, !.holder = NoOne])
          /\ told' = told \cup {<<calls[r].key, calls[r].goal>>}
     ELSE UNCHANGED <<ops, told>>
  /\ Leave(r)
  /\ UNCHANGED work

\* release: the row is deleted under the token, so that the phone may try again.
ReleaseOperation(r) ==
  /\ calls[r].pc = "release"
  /\ IF Holds(r) THEN Write(r, Absent) ELSE UNCHANGED ops
  /\ Leave(r)
  /\ UNCHANGED <<work, told>>

-----------------------------------------------------------------------------
LeasePasses(k) ==
  /\ ops[k] # Absent /\ ~ops[k].answered /\ ~ops[k].due
  /\ ops' = [ops EXCEPT ![k].due = TRUE]
  /\ UNCHANGED <<work, calls, told>>

\* The session moves on: what was done is not answered as it is any more.
MovesOn(g) ==
  /\ work[g] = "done"
  /\ work' = [work EXCEPT ![g] = "over"]
  /\ UNCHANGED <<ops, calls, told>>

\* The Worker stops, and its token with it.
Stop(r) ==
  /\ calls[r].pc # "idle"
  /\ ops' = [k \in OpKeys |-> IF ops[k].holder = r THEN [ops[k] EXCEPT !.holder = NoOne]
                              ELSE ops[k]]
  /\ Leave(r)
  /\ UNCHANGED <<work, told>>

Next ==
  \/ \E r \in Requests :
       \/ \E k \in OpKeys, g \in Goals : Ask(r, k, g)
       \/ BeginOperation(r) \/ LookAtRow(r) \/ TakeOver(r) \/ Work(r)
       \/ CompleteOperation(r) \/ ReleaseOperation(r) \/ Stop(r)
  \/ \E k \in OpKeys : LeasePasses(k)
  \/ \E g \in Goals : MovesOn(g)

Spec == Init /\ [][Next]_vars

-----------------------------------------------------------------------------
(* What phone_operations.rs promises. *)

\* An answer a phone has been given stays the answer of its key: a repetition finds
\* it, whatever slower requests under the key do afterwards.
ToldIsRecorded == \A k \in OpKeys, g \in Goals :
  <<k, g>> \in told => ops[k].answered /\ ops[k].goal = g

\* What is recorded as an answer took place in the session.
RecordedIsReal == \A k \in OpKeys : ops[k].answered => work[ops[k].goal] # "open"

\* An answer is true and stands.
AnswersStand == ToldIsRecorded /\ RecordedIsReal

\* While a request works under a claim whose lease has not passed, nobody else takes
\* the claim over or frees it: the key keeps two side effects apart.
ClaimIsKept ==
  [][\A r \in Requests :
       calls[r].pc \in {"work", "complete", "release"} /\ Holds(r) /\ ~Row(r).due
       /\ calls'[r] = calls[r] => ops'[calls[r].key].holder = r]_vars
=============================================================================
