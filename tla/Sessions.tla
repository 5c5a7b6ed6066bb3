------------------------------- MODULE Sessions -------------------------------
(***************************************************************************)
(* One session of sessions.rs between an agent that reports events and     *)
(* executes actions, and the phones of its user that choose, confirm or    *)
(* cancel them.                                                            *)
(*                                                                         *)
(* Every request is a Worker invocation that reads at one step and writes  *)
(* at a later one; a batch of the database is one step.  The reads that    *)
(* open a handler are one step, since nothing they decide is acted on      *)
(* before the next one.  An action is named by the event that offers it    *)
(* and its key: an event is applied at most once.  The lifetimes are the   *)
(* `due' flags, which time sets at any moment.                             *)
(***************************************************************************)
EXTENDS Integers, FiniteSets

CONSTANTS
  Events,    \* the idempotency keys of the events an agent reports
  Keys,      \* the keys of the actions an event may offer
  Risky,     \* the keys whose action asks for a confirmation
  Offers,    \* the sets of keys an event may offer
  Requests,  \* the requests that run at the same time
  MaxMishaps, \* how often a lifetime passes, a Worker stops or the session is deleted
  NoOne      \* no event, no key

ASSUME KeysAssumption == Risky \subseteq Keys /\ Offers \subseteq SUBSET Keys
ASSUME NoOneAssumption == NoOne \notin Events \cup Keys
ASSUME MishapsAssumption == MaxMishaps \in Nat

VARIABLES
  session,  \* the row of the session
  actions,  \* the rows of its actions
  events,   \* the idempotency keys of the events that have been applied
  reqs,     \* the requests in progress
  mishaps   \* what has happened of MaxMishaps

vars == <<session, actions, events, reqs, mishaps>>

-----------------------------------------------------------------------------
Actions == Events \X Keys

Waiting == {"needs_user", "awaiting_confirm"}
Active == {"offered", "pending_confirm"}
Final == {"done", "failed", "expired", "cancelled"}
Statuses == {"none", "queued", "claimed"} \cup Active \cup Final
States == {"open", "running", "queued", "claimed", "closed", "expired"} \cup Waiting

Goals == {"none", "event", "reply", "confirm", "cancel", "ok", "failed"}
PCs == {"idle", "report", "progress", "claim", "deliver", "result", "detail",
        "choose", "decide"}

NoGoal == <<"none", NoOne, NoOne>>
NoAction == [status |-> "none", cancelled |-> FALSE, due |-> FALSE]
Idle == [pc |-> "idle", goal |-> NoGoal, next |-> "open",
         keys |-> {}, got |-> {}]

Goal == Goals \X (Events \cup {NoOne}) \X (Keys \cup {NoOne})

TypeOK ==
  /\ session \in [state : States, avail : SUBSET Keys, due : BOOLEAN, deleted : BOOLEAN]
  /\ actions \in [Actions -> [status : Statuses, cancelled : BOOLEAN, due : BOOLEAN]]
  /\ events \subseteq Events
  /\ reqs \in [Requests -> [pc : PCs, goal : Goal,
                            next : States, keys : SUBSET Keys, got : SUBSET Actions]]
  /\ mishaps \in 0..MaxMishaps

Init ==
  /\ session = [state |-> "open", avail |-> {}, due |-> FALSE, deleted |-> FALSE]
  /\ actions = [a \in Actions |-> NoAction]
  /\ events = {}
  /\ reqs = [r \in Requests |-> Idle]
  /\ mishaps = 0

-----------------------------------------------------------------------------
rows == <<actions, events, mishaps>>

Goto(r, pc) == reqs' = [reqs EXCEPT ![r].pc = pc]
Leave(r) == reqs' = [reqs EXCEPT ![r] = Idle]

Begin(r, q) == reqs[r].pc = "idle" /\ reqs' = [reqs EXCEPT ![r] = q]

Target(r) == <<reqs[r].goal[2], reqs[r].goal[3]>>

\* The action with another status; the rest of the row stays.
Move(a, s) == [actions EXCEPT ![a].status = s]

Lapsed == session.due /\ session.state \notin {"expired", "closed"}

\* expire_session_if_needed, and the row that is read after it.
Refreshed == IF Lapsed THEN [session EXCEPT !.state = "expired"] ELSE session

\* Past its lifetime, or marked so.
Expired == Refreshed.state = "expired"

\* expire_action_if_needed on the actions of S.
Expire(S) ==
  [a \in Actions |->
     IF a \in S /\ actions[a].due /\ actions[a].status \notin Final
     THEN [actions[a] EXCEPT !.status = "expired"] ELSE actions[a]]

\* The statement of a batch that withdraws what is still active, but for `kept'.
Withdraw(rowsNow, kept) ==
  [a \in Actions |->
     IF rowsNow[a].status \in Active /\ a \notin kept
     THEN [rowsNow[a] EXCEPT !.status = "cancelled"] ELSE rowsNow[a]]

-----------------------------------------------------------------------------
(* The handlers that find a lifetime past mark it and refuse: that is all they do. *)

RefuseSession ==
  /\ ~session.deleted /\ Lapsed
  /\ session' = Refreshed
  /\ UNCHANGED <<reqs, rows>>

RefuseAction(a) ==
  /\ ~session.deleted /\ actions[a].due /\ actions[a].status \notin Final
  /\ actions' = Expire({a})
  /\ UNCHANGED <<session, events, reqs, mishaps>>

-----------------------------------------------------------------------------
(* The agent reports an event or its progress. *)

\* The state an event leaves the session in, from the one that was read: an end
\* with actions asks the user too, and an `info' does not ask, with actions or not.
AfterEvent(status, state) ==
  CASE status = "asking" -> "needs_user"
    [] status = "closing" -> "closed"
    [] status = "info" -> IF state = "needs_user" THEN "needs_user" ELSE "running"

\* report_event up to its batch: to ask the user takes actions, to end takes none.
StartReport(r, e, S, status) ==
  /\ ~session.deleted /\ ~Expired /\ e \notin events
  /\ status = "asking" => S # {}
  /\ status = "closing" => S = {}
  /\ Begin(r, [Idle EXCEPT !.pc = "report", !.goal = <<"event", e, NoOne>>, !.keys = S,
                           !.next = AfterEvent(status, session.state)])
  /\ UNCHANGED <<session, rows>>

\* The insert of the event: every statement of the batch depends on it.
EventIsNew(q) == ~session.deleted /\ q.goal[2] \notin events

\* What the batch leaves of the actions: the active ones are withdrawn when the
\* event offers others.
OfferedBy(q) ==
  LET before == IF q.keys = {} THEN actions ELSE Withdraw(actions, {})
  IN [a \in Actions |-> IF a[1] = q.goal[2] /\ a[2] \in q.keys
                        THEN [NoAction EXCEPT !.status = "offered"] ELSE before[a]]

\* The batch of report_event; the one that lost answers with the previous event.
WriteReport(r) ==
  LET q == reqs[r] IN
  /\ q.pc = "report"
  /\ IF EventIsNew(q)
     THEN /\ events' = events \cup {q.goal[2]}
          /\ actions' = OfferedBy(q)
          /\ session' = [session EXCEPT !.state = q.next, !.avail = q.keys]
     ELSE UNCHANGED <<session, actions, events>>
  /\ Leave(r)
  /\ UNCHANGED mishaps

\* update_progress computes the state from the one it reads ...
StartProgress(r) ==
  /\ ~session.deleted /\ ~Expired /\ session.state # "closed"
  /\ Begin(r, [Idle EXCEPT !.pc = "progress",
                 !.next = IF session.state = "open" THEN "running" ELSE session.state])
  /\ UNCHANGED <<session, rows>>

\* ... and writes it whatever the row says by then.
WriteProgress(r) ==
  /\ reqs[r].pc = "progress"
  /\ session' = IF session.deleted THEN session ELSE [session EXCEPT !.state = reqs[r].next]
  /\ Leave(r)
  /\ UNCHANGED rows

-----------------------------------------------------------------------------
(* The agent polls for actions and reports their results. *)

QueuedNow == {a \in Actions : actions[a].status = "queued"}

\* list_queued_actions: the rows, the expiry of those that are due, the re-read.
StartPoll(r) ==
  LET fresh == {a \in QueuedNow : ~actions[a].due} IN
  /\ ~session.deleted /\ fresh # {}
  /\ actions' = Expire(QueuedNow)
  /\ Begin(r, [Idle EXCEPT !.pc = "claim", !.got = fresh])
  /\ UNCHANGED <<session, events, mishaps>>

\* A claim that looks at the session only when it lists.
Claimable_Listed(a) == actions[a].status = "queued"

\* The WHERE clause of the claim.
Claimable(a) == actions[a].status = "queued" /\ ~session.deleted

\* The batch of claim_actions.
ClaimActions(r) ==
  /\ reqs[r].pc = "claim"
  /\ actions' = [a \in Actions |-> IF a \in reqs[r].got /\ Claimable(a)
                                   THEN [actions[a] EXCEPT !.status = "claimed"]
                                   ELSE actions[a]]
  /\ Goto(r, "deliver")
  /\ UNCHANGED <<session, events, mishaps>>

\* What claim_actions answers: the rows that are claimed when it reads them again,
\* whoever has claimed them.
Answered(r) == {a \in reqs[r].got : actions[a].status = "claimed"}

\* The answer; action_api expires what is due by now.
Deliver(r) ==
  /\ reqs[r].pc = "deliver"
  /\ actions' = Expire(Answered(r))
  /\ session' = IF Answered(r) # {} /\ session.state = "queued" /\ ~session.deleted
                THEN [session EXCEPT !.state = "claimed"] ELSE session
  /\ Leave(r)
  /\ UNCHANGED <<events, mishaps>>

\* A handler that does not look at who has cancelled.
Refused_Never(a, ok) == FALSE

\* A success is not accepted for what the user has cancelled.
Refused(a, ok) == ok /\ actions[a].cancelled

\* submit_action_result up to its batch.
StartResult(r, a, ok) ==
  /\ ~session.deleted
  /\ actions[a].status \in {"claimed", "queued"} /\ ~actions[a].due /\ ~Refused(a, ok)
  /\ Begin(r, [Idle EXCEPT !.pc = "result",
                 !.goal = <<IF ok THEN "ok" ELSE "failed", a[1], a[2]>>])
  /\ UNCHANGED <<session, rows>>

\* A result that overwrites whatever is there.
Finishable_Always(a) == TRUE

\* The WHERE clause of the result.
Finishable(a) == actions[a].status \in {"claimed", "queued"}

\* Its batch: the second statement does not depend on the first.
WriteResult(r) ==
  LET ok == reqs[r].goal[1] = "ok" IN
  /\ reqs[r].pc = "result"
  /\ IF session.deleted THEN UNCHANGED <<session, actions>>
     ELSE /\ actions' = IF Finishable(Target(r))
                        THEN Move(Target(r), IF ok THEN "done" ELSE "failed") ELSE actions
          /\ session' = [session EXCEPT !.state = IF ok THEN "running" ELSE "closed",
                                        !.avail = {}]
  /\ Leave(r)
  /\ UNCHANGED <<events, mishaps>>

-----------------------------------------------------------------------------
(* The phone chooses an action, and confirms or cancels it. *)

\* phone_reply up to its batch: the newest active action with the key.
StartReply(r, key) ==
  /\ ~session.deleted /\ ~Expired
  /\ \E e \in Events :
       /\ actions[<<e, key>>].status = "offered" /\ ~actions[<<e, key>>].due
       /\ Begin(r, [Idle EXCEPT !.pc = "choose", !.goal = <<"reply", e, key>>])
  /\ UNCHANGED <<session, rows>>

\* The choice, if the action is still offered and the session still waits.
Picked(a) ==
  IF actions[a].status = "offered" /\ session.state \in Waiting
  THEN Move(a, IF a[2] \in Risky THEN "pending_confirm" ELSE "queued")
  ELSE actions

\* A choice that leaves the others to be chosen too.
Choose_Alone(a) == Picked(a)

\* With the withdrawal of the others, which does not depend on the choice.
Choose(a) == IF a[2] \in Risky THEN Picked(a) ELSE Withdraw(Picked(a), {a})

\* The batch of phone_reply.
WriteReply(r) ==
  LET a == Target(r) IN
  /\ reqs[r].pc = "choose"
  /\ IF session.deleted THEN UNCHANGED <<session, actions>>
     ELSE /\ actions' = Choose(a)
          /\ session' = IF session.state \notin Waiting THEN session
                        ELSE IF a[2] \in Risky
                        THEN [session EXCEPT !.state = "awaiting_confirm"]
                        ELSE [session EXCEPT !.state = "queued", !.avail = {}]
  /\ Leave(r)
  /\ UNCHANGED <<events, mishaps>>

\* phone_confirm up to its batch: what has been decided is answered as it is.
StartConfirm(r, a, goal) ==
  /\ ~session.deleted
  /\ actions[a].status = "pending_confirm" /\ ~actions[a].due
  /\ session' = Refreshed
  /\ Begin(r, [Idle EXCEPT !.pc = "decide", !.goal = <<goal, a[1], a[2]>>,
                           !.keys = session.avail])
  /\ UNCHANGED rows

\* The statement that decides: a cancellation with nothing left to choose is
\* handed to the agent too, marked as cancelled.
Decided(r) ==
  LET yes == reqs[r].goal[1] = "confirm"
      handOn == yes \/ reqs[r].keys \subseteq {Target(r)[2]}
  IN [actions EXCEPT ![Target(r)].status = IF handOn THEN "queued" ELSE "cancelled",
                     ![Target(r)].cancelled = ~yes]

\* The batch of phone_confirm: the withdrawal does not depend on the decision.
WriteConfirm(r) ==
  LET a == Target(r)
      yes == reqs[r].goal[1] = "confirm"
      left == reqs[r].keys \ {a[2]}
      live == session.state = "awaiting_confirm" /\ ~session.deleted
      won == live /\ actions[a].status = "pending_confirm"
      now == IF won THEN Decided(r) ELSE actions
  IN
  /\ reqs[r].pc = "decide"
  /\ actions' = IF yes /\ ~session.deleted THEN Withdraw(now, {a}) ELSE now
  /\ session' = IF ~live THEN session
                ELSE IF yes \/ left = {}
                THEN [session EXCEPT !.state = "queued", !.avail = {}]
                ELSE [session EXCEPT !.state = "needs_user", !.avail = left]
  /\ Leave(r)
  /\ UNCHANGED <<events, mishaps>>

-----------------------------------------------------------------------------
(* The phone looks at the session, or deletes it. *)

ActiveNow == {a \in Actions : actions[a].status \in Active}

\* reconcile_waiting_session reads the session and its actions ...
StartDetail(r) ==
  LET waiting == Refreshed.state \in Waiting
      live == {a \in ActiveNow : ~actions[a].due}
  IN
  /\ ~session.deleted /\ waiting
  /\ live = {} \/ {a[2] : a \in live} # session.avail
  /\ actions' = Expire(ActiveNow)
  /\ Begin(r, [Idle EXCEPT !.pc = "detail", !.keys = {a[2] : a \in live}])
  /\ UNCHANGED <<session, events, mishaps>>

\* ... and writes the actions it saw, or ends the wait if there is none now either.
WriteDetail(r) ==
  /\ reqs[r].pc = "detail"
  /\ session' =
       IF session.deleted THEN session
       ELSE IF reqs[r].keys # {} THEN [session EXCEPT !.avail = reqs[r].keys]
       ELSE IF session.state \in Waiting /\ ActiveNow = {}
       THEN [session EXCEPT !.state = "running", !.avail = {}] ELSE session
  /\ Leave(r)
  /\ UNCHANGED rows

-----------------------------------------------------------------------------
(* Time passes, a Worker may stop anywhere, and the user may delete the session. *)

Mishap == mishaps < MaxMishaps /\ mishaps' = mishaps + 1

\* phone_delete_session.
Delete ==
  /\ Mishap /\ ~session.deleted
  /\ session' = [session EXCEPT !.deleted = TRUE]
  /\ UNCHANGED <<reqs, actions, events>>

SessionTimesOut ==
  /\ Mishap /\ ~session.due
  /\ session' = [session EXCEPT !.due = TRUE]
  /\ UNCHANGED <<reqs, actions, events>>

ActionTimesOut(a) ==
  /\ Mishap /\ ~actions[a].due /\ actions[a].status \notin Final \cup {"none"}
  /\ actions' = [actions EXCEPT ![a].due = TRUE]
  /\ UNCHANGED <<session, reqs, events>>

Stop(r) ==
  /\ Mishap /\ reqs[r].pc # "idle"
  /\ Leave(r)
  /\ UNCHANGED <<session, actions, events>>

AgentStep(r) ==
  \/ \E e \in Events, S \in Offers, s \in {"info", "asking", "closing"} : StartReport(r, e, S, s)
  \/ StartProgress(r) \/ StartPoll(r)
  \/ \E a \in Actions, ok \in BOOLEAN : StartResult(r, a, ok)
  \/ WriteReport(r) \/ WriteProgress(r) \/ ClaimActions(r) \/ Deliver(r) \/ WriteResult(r)

PhoneStep(r) ==
  \/ \E key \in Keys : StartReply(r, key)
  \/ \E a \in Actions, goal \in {"confirm", "cancel"} : StartConfirm(r, a, goal)
  \/ WriteReply(r) \/ WriteConfirm(r)
  \/ StartDetail(r) \/ WriteDetail(r)

Next ==
  \/ \E r \in Requests : AgentStep(r) \/ PhoneStep(r) \/ Stop(r)
  \/ Delete \/ SessionTimesOut \/ RefuseSession
  \/ \E a \in Actions : ActionTimesOut(a) \/ RefuseAction(a)

Spec == Init /\ [][Next]_vars

-----------------------------------------------------------------------------
(* What sessions.rs promises. *)

Lifecycle == INSTANCE ActionLifecycle WITH status <- [a \in Actions |-> actions[a].status]

\* An action goes through its statuses in order and once: no replay of an event, no
\* choice, confirmation, poll or result that comes late moves it back or revives it.
ImplementsLifecycle == Lifecycle!Spec

\* Handed on to the agent as something to do.
Chosen(e) == {k \in Keys : /\ actions[<<e, k>>].status \in {"queued", "claimed", "done"}
                           /\ ~actions[<<e, k>>].cancelled}

\* Of the actions one event offers, at most one is ever handed to the agent to be
\* done, whichever choices and confirmations of several phones run into each other.
OneChoicePerEvent == \A e \in Events : Cardinality(Chosen(e)) <= 1

\* What the user has cancelled is never recorded as done.
CancelledNeverDone == \A a \in Actions : actions[a].cancelled => actions[a].status # "done"

\* After the user has deleted the session nothing in it is offered, chosen, claimed
\* or finished any more: a request under way can only find that time is up.
DeletedIsFrozen ==
  [][session.deleted =>
       \A a \in Actions : actions'[a].status \in {actions[a].status, "expired"}]_vars
=============================================================================
