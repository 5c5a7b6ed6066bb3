---------------------------- MODULE SessionsProofs ----------------------------
(***************************************************************************)
(* Proofs about Sessions, for any events, keys and number of requests: it  *)
(* keeps its types, implements ActionLifecycle, hands on one action of an  *)
(* event at most, never records as done what was cancelled, and leaves a   *)
(* deleted session as it is.                                               *)
(***************************************************************************)
EXTENDS Sessions, FiniteSetTheorems, TLAPS

ActionRow == [status : Statuses, cancelled : BOOLEAN, due : BOOLEAN]
Request == [pc : PCs, goal : Goal, next : States, keys : SUBSET Keys, got : SUBSET Actions]

\* A row that is not offered yet has no lifetime that could pass, and one that is belongs
\* to an event that was applied.
Known == \A a \in Actions :
  /\ actions[a].status = "none" => ~actions[a].due
  /\ actions[a].status # "none" => a[1] \in events

Early == {"none", "offered", "pending_confirm"}

\* What the request q is about: an event, or an action that is there; an action whose
\* result it reports has been handed on, and was not cancelled if that is a success.
AimedAt(q) ==
  LET a == <<q.goal[2], q.goal[3]>> IN
  /\ q.pc = "report" => q.goal[2] \in Events
  /\ q.pc \in {"result", "choose", "decide"} => a \in Actions
  /\ q.pc = "result" => /\ actions[a].status \notin Early
                        /\ q.goal[1] = "ok" => ~actions[a].cancelled

Aimed == \A r \in Requests : AimedAt(reqs[r])

\* Handed on to be done.
ChosenRow(x) == x.status \in {"queued", "claimed", "done"} /\ ~x.cancelled

\* When an action is handed on to be done, no other of its event is, nor will be.
Alone == \A a, b \in Actions :
  a # b /\ a[1] = b[1] /\ ChosenRow(actions[a]) =>
    actions[b].status \notin Active /\ ~ChosenRow(actions[b])

\* The inductive invariant.
Inv == TypeOK /\ Known /\ Aimed /\ Alone /\ CancelledNeverDone

-----------------------------------------------------------------------------
(* What any step may do to an action. *)

\* Its lifetime passes, or that is found and written.
Lapses(a) ==
  LET x == actions[a]
      y == actions'[a] IN
  \/ y = x
  \/ /\ x.status \notin Final \cup {"none"} /\ y.cancelled = x.cancelled
     /\ y.status = x.status \/ y.status = "expired"

\* All others are withdrawn.
OthersGo(a) == \A b \in Actions \ {a} :
  /\ actions'[b].status \notin Active
  /\ actions[b].status \in Active => actions'[b].status = "cancelled"

\* It is offered, chosen, withdrawn, claimed or finished.
Moves(a) ==
  LET x == actions[a]
      y == actions'[a] IN
  \/ a[1] \notin events /\ a[1] \in events' /\ y.status = "offered"
  \/ x.status = "offered" /\ y.status = "pending_confirm"
  \/ x.status \in Active /\ y.status = "queued" /\ (y.cancelled \/ OthersGo(a))
  \/ x.status \in Active /\ y.status = "cancelled"
  \/ x.status = "queued" /\ y.status = "claimed" /\ y.cancelled = x.cancelled
  \/ /\ x.status \in {"queued", "claimed"} /\ y.cancelled = x.cancelled
     /\ y.status = "failed" \/ (y.status = "done" /\ ~x.cancelled)

Change(a) == Lapses(a) \/ (~session.deleted /\ Moves(a))

\* What every step does: the rest of the argument is about this alone.
StepOK ==
  /\ TypeOK' /\ events \subseteq events'
  /\ \A a \in Actions : Change(a)
  /\ \A r \in Requests : reqs'[r] = reqs[r] \/ AimedAt(reqs'[r])

-----------------------------------------------------------------------------
(* The types. *)

LEMMA IdleTyped == Idle \in Request
BY DEF Idle, Request, PCs, Goal, Goals, NoGoal, States, Waiting

LEMMA ReqsTyped ==
  ASSUME TypeOK, NEW r \in Requests
  PROVE  /\ Leave(r) => reqs' \in [Requests -> Request]
         /\ \A pc \in PCs : Goto(r, pc) => reqs' \in [Requests -> Request]
         /\ \A q \in Request : Begin(r, q) => reqs' \in [Requests -> Request]
<1>1. reqs \in [Requests -> Request]
  BY DEF TypeOK, Request
<1>2. Leave(r) => reqs' \in [Requests -> Request]
  BY <1>1, IdleTyped DEF Leave
<1>3. \A pc \in PCs : Goto(r, pc) => reqs' \in [Requests -> Request]
  BY <1>1 DEF Goto, Request
<1>4. \A q \in Request : Begin(r, q) => reqs' \in [Requests -> Request]
  BY <1>1 DEF Begin
<1> QED BY <1>2, <1>3, <1>4

\* The statuses a batch may write are statuses.
LEMMA StatusesListed ==
  /\ {"none", "offered", "pending_confirm", "queued", "claimed",
      "done", "failed", "expired", "cancelled"} = Statuses
  /\ Active \subseteq Statuses /\ Final \subseteq Statuses
BY DEF Statuses, Active, Final

\* What is done to rows keeps them rows.
LEMMA RowsTyped ==
  ASSUME NEW rowsNow \in [Actions -> ActionRow]
  PROVE  /\ \A kept : Withdraw(rowsNow, kept) \in [Actions -> ActionRow]
         /\ \A a \in Actions, s \in Statuses :
              [rowsNow EXCEPT ![a].status = s] \in [Actions -> ActionRow]
BY StatusesListed DEF Withdraw, ActionRow

LEMMA ExpireTyped ==
  ASSUME TypeOK, NEW S
  PROVE  Expire(S) \in [Actions -> ActionRow]
BY StatusesListed DEF Expire, TypeOK, ActionRow

SessionRow == [state : States, avail : SUBSET Keys, due : BOOLEAN, deleted : BOOLEAN]

LEMMA SessionTyped ==
  ASSUME TypeOK
  PROVE  /\ session \in SessionRow /\ Refreshed \in SessionRow
         /\ \A s \in States : [session EXCEPT !.state = s] \in SessionRow
         /\ \A s \in States, ks \in SUBSET Keys :
              [session EXCEPT !.state = s, !.avail = ks] \in SessionRow
BY DEF TypeOK, SessionRow, Refreshed, Lapsed, States, Waiting

LEMMA StatesListed ==
  {"open", "running", "queued", "claimed", "closed", "expired", "needs_user",
   "awaiting_confirm"} = States
BY DEF States, Waiting


-----------------------------------------------------------------------------
(* The updates, point by point. *)

\* A row with another status.
LEMMA StatusSet ==
  ASSUME NEW x \in ActionRow, NEW s \in Statuses
  PROVE  /\ [x EXCEPT !.status = s] \in ActionRow
         /\ [x EXCEPT !.status = s].status = s
         /\ [x EXCEPT !.status = s].cancelled = x.cancelled
BY DEF ActionRow

LEMMA ExpireRows ==
  ASSUME TypeOK, Known, NEW S, actions' = Expire(S), NEW a \in Actions
  PROVE  Change(a)
<1>1. actions[a] \in ActionRow
  BY DEF TypeOK, ActionRow
<1>2. CASE a \in S /\ actions[a].due /\ actions[a].status \notin Final
  <2>1. actions'[a] = [actions[a] EXCEPT !.status = "expired"]
    BY <1>2 DEF Expire
  <2>2. actions'[a].status = "expired" /\ actions'[a].cancelled = actions[a].cancelled
    BY <1>1, <2>1, StatusSet, StatusesListed
  <2>3. actions[a].status \notin Final \cup {"none"}
    BY <1>2 DEF Known
  <2> QED BY <2>2, <2>3 DEF Change, Lapses
<1>3. CASE ~(a \in S /\ actions[a].due /\ actions[a].status \notin Final)
  BY <1>3 DEF Expire, Change, Lapses
<1> QED BY <1>2, <1>3

LEMMA WithdrawRows ==
  ASSUME NEW rowsNow \in [Actions -> ActionRow], NEW kept, NEW b \in Actions
  PROVE  /\ Withdraw(rowsNow, kept)[b] \in ActionRow
         /\ IF rowsNow[b].status \in Active /\ b \notin kept
            THEN Withdraw(rowsNow, kept)[b].status = "cancelled"
            ELSE Withdraw(rowsNow, kept)[b] = rowsNow[b]
<1>1. rowsNow[b] \in ActionRow
  OBVIOUS
<1> QED BY <1>1, StatusSet, StatusesListed DEF Withdraw

LEMMA MoveRows ==
  ASSUME TypeOK, NEW a \in Actions, NEW s \in Statuses
  PROVE  /\ Move(a, s) \in [Actions -> ActionRow]
         /\ Move(a, s)[a].status = s /\ Move(a, s)[a].cancelled = actions[a].cancelled
         /\ \A b \in Actions \ {a} : Move(a, s)[b] = actions[b]
<1>1. actions \in [Actions -> ActionRow] /\ actions[a] \in ActionRow
  BY DEF TypeOK, ActionRow
<1>2. Move(a, s) = [actions EXCEPT ![a] = [actions[a] EXCEPT !.status = s]]
  BY <1>1 DEF Move
<1> QED BY <1>1, <1>2, StatusSet

\* The type of the next state, part by part.
LEMMA TypeNext ==
  ASSUME session' \in SessionRow, actions' \in [Actions -> ActionRow], events' \subseteq Events,
         reqs' \in [Requests -> Request], mishaps' \in 0..MaxMishaps
  PROVE  TypeOK'
BY DEF TypeOK, SessionRow, ActionRow, Request

LEMMA TypeNow ==
  ASSUME TypeOK
  PROVE  /\ session \in SessionRow /\ actions \in [Actions -> ActionRow] /\ events \subseteq Events
         /\ reqs \in [Requests -> Request] /\ mishaps \in 0..MaxMishaps
BY DEF TypeOK, SessionRow, ActionRow, Request

\* A request that begins, goes on or ends.
LEMMA ReqsStep ==
  ASSUME TypeOK, NEW r \in Requests
  PROVE  /\ Leave(r) => /\ reqs' \in [Requests -> Request]
                        /\ \A q \in Requests : reqs'[q] = reqs[q] \/ AimedAt(reqs'[q])
         /\ Goto(r, "deliver") => /\ reqs' \in [Requests -> Request]
                                  /\ \A q \in Requests : reqs'[q] = reqs[q] \/ AimedAt(reqs'[q])
         /\ \A n \in Request : Begin(r, n) /\ AimedAt(n) =>
              /\ reqs' \in [Requests -> Request]
              /\ \A q \in Requests : reqs'[q] = reqs[q] \/ AimedAt(reqs'[q])
<1>1. reqs \in [Requests -> Request]
  BY TypeNow
<1>2. AimedAt(Idle)
  BY DEF AimedAt, Idle
<1>3. Leave(r) => \A q \in Requests : reqs'[q] = reqs[q] \/ AimedAt(reqs'[q])
  BY <1>1, <1>2 DEF Leave
<1>4. Goto(r, "deliver") => \A q \in Requests : reqs'[q] = reqs[q] \/ AimedAt(reqs'[q])
  <2> SUFFICES ASSUME Goto(r, "deliver"), NEW q \in Requests
               PROVE  reqs'[q] = reqs[q] \/ AimedAt(reqs'[q])
    OBVIOUS
  <2>1. CASE q = r
    <3>1. reqs'[q].pc = "deliver"
      BY <1>1, <2>1 DEF Goto, Request
    <3> QED BY <3>1 DEF AimedAt
  <2>2. CASE q # r
    BY <1>1, <2>2 DEF Goto
  <2> QED BY <2>1, <2>2
<1>5. \A n \in Request : Begin(r, n) /\ AimedAt(n) =>
        \A q \in Requests : reqs'[q] = reqs[q] \/ AimedAt(reqs'[q])
  BY <1>1 DEF Begin
<1> QED BY <1>3, <1>4, <1>5, ReqsTyped DEF PCs

\* A step that leaves the actions alone.
LEMMA ActionsStay ==
  ASSUME TypeOK, UNCHANGED actions
  PROVE  actions' \in [Actions -> ActionRow] /\ \A a \in Actions : Change(a)
BY TypeNow DEF Change, Lapses

-----------------------------------------------------------------------------
(* What each action of the agent does. *)

LEMMA StartReportStep ==
  ASSUME Inv, NEW r \in Requests, NEW e \in Events, NEW S \in Offers,
         NEW s \in {"info", "asking", "closing"}, StartReport(r, e, S, s)
  PROVE  StepOK
<1> DEFINE q == [Idle EXCEPT !.pc = "report", !.goal = <<"event", e, NoOne>>, !.keys = S,
                             !.next = AfterEvent(s, session.state)]
<1>1. S \in SUBSET Keys /\ TypeOK
  BY KeysAssumption DEF Inv
<1>2. AfterEvent(s, session.state) \in States
  BY StatesListed DEF AfterEvent
<1>3. q \in Request
  BY <1>1, <1>2, IdleTyped DEF PCs, Goal, Goals, Request
<1>4. AimedAt(q)
  BY DEF AimedAt, Idle
<1>5. Begin(r, q) /\ UNCHANGED <<session, actions, events, mishaps>>
  BY DEF StartReport, rows
<1> HIDE DEF q
<1> QED BY <1>1, <1>3, <1>4, <1>5, ReqsStep, ActionsStay, TypeNow, TypeNext DEF StepOK

LEMMA StartProgressStep ==
  ASSUME Inv, NEW r \in Requests, StartProgress(r)
  PROVE  StepOK
<1> DEFINE q == [Idle EXCEPT !.pc = "progress",
                   !.next = IF session.state = "open" THEN "running" ELSE session.state]
<1>1. TypeOK /\ session \in SessionRow
  BY TypeNow DEF Inv
<1>3. q \in Request
  BY <1>1, IdleTyped, StatesListed DEF PCs, Request, SessionRow
<1>4. AimedAt(q)
  BY DEF AimedAt, Idle
<1>5. Begin(r, q) /\ UNCHANGED <<session, actions, events, mishaps>>
  BY DEF StartProgress, rows
<1> HIDE DEF q
<1> QED BY <1>1, <1>3, <1>4, <1>5, ReqsStep, ActionsStay, TypeNow, TypeNext DEF StepOK

LEMMA StartPollStep ==
  ASSUME Inv, NEW r \in Requests, StartPoll(r)
  PROVE  StepOK
<1> DEFINE got == {a \in QueuedNow : ~actions[a].due}
           q == [Idle EXCEPT !.pc = "claim", !.got = got]
<1>1. TypeOK /\ Known
  BY DEF Inv
<1>2. got \in SUBSET Actions
  BY DEF QueuedNow
<1> HIDE DEF got
<1>3. q \in Request
  BY <1>2, IdleTyped DEF PCs, Request
<1>4. AimedAt(q)
  BY DEF AimedAt, Idle
<1>5. Begin(r, q) /\ actions' = Expire(QueuedNow) /\ UNCHANGED <<session, events, mishaps>>
  BY DEF StartPoll, got
<1> HIDE DEF q
<1>6. actions' \in [Actions -> ActionRow] /\ \A a \in Actions : Change(a)
  BY <1>1, <1>5, ExpireTyped, ExpireRows
<1> QED BY <1>1, <1>3, <1>4, <1>5, <1>6, ReqsStep, TypeNow, TypeNext DEF StepOK

LEMMA StartResultStep ==
  ASSUME Inv, NEW r \in Requests, NEW a \in Actions, NEW ok \in BOOLEAN, StartResult(r, a, ok)
  PROVE  StepOK
<1> DEFINE q == [Idle EXCEPT !.pc = "result",
                   !.goal = <<IF ok THEN "ok" ELSE "failed", a[1], a[2]>>]
<1>1. TypeOK
  BY DEF Inv
<1>2. a[1] \in Events /\ a[2] \in Keys /\ a = <<a[1], a[2]>>
  BY DEF Actions
<1>3. q \in Request
  BY <1>2, IdleTyped DEF PCs, Goal, Goals, Request
<1>4. AimedAt(q)
  <2>1. /\ q.pc = "result" /\ q.goal[2] = a[1] /\ q.goal[3] = a[2]
        /\ q.goal[1] = "ok" => ok
    BY DEF Idle
  <2>2. actions[a].status \notin Early /\ (ok => ~actions[a].cancelled)
    BY DEF StartResult, Refused, Early
  <2> HIDE DEF q
  <2> QED BY <1>2, <2>1, <2>2 DEF AimedAt
<1>5. Begin(r, q) /\ UNCHANGED <<session, actions, events, mishaps>>
  BY DEF StartResult, rows
<1> HIDE DEF q
<1> QED BY <1>1, <1>3, <1>4, <1>5, ReqsStep, ActionsStay, TypeNow, TypeNext DEF StepOK

LEMMA WriteReportStep ==
  ASSUME Inv, NEW r \in Requests, WriteReport(r)
  PROVE  StepOK
<1> DEFINE q == reqs[r]
<1>1. TypeOK /\ q \in Request /\ q.pc = "report" /\ q.goal[2] \in Events
  BY TypeNow DEF Inv, Aimed, AimedAt, WriteReport
<1>2. Leave(r) /\ mishaps' = mishaps
  BY DEF WriteReport
<1>3. CASE ~EventIsNew(q) /\ UNCHANGED <<session, actions, events>>
  BY <1>1, <1>2, <1>3, ReqsStep, ActionsStay, TypeNow, TypeNext DEF StepOK
<1>4. CASE /\ EventIsNew(q) /\ events' = events \cup {q.goal[2]} /\ actions' = OfferedBy(q)
           /\ session' = [session EXCEPT !.state = q.next, !.avail = q.keys]
  <2>1. session' \in SessionRow
    BY <1>1, <1>4, SessionTyped DEF Request
  <2> DEFINE before == IF q.keys = {} THEN actions ELSE Withdraw(actions, {})
  <2>2. /\ before \in [Actions -> ActionRow]
        /\ \A a \in Actions : \/ before[a] = actions[a]
                              \/ actions[a].status \in Active /\ before[a].status = "cancelled"
    BY <1>1, TypeNow, RowsTyped, WithdrawRows
  <2>3. [NoAction EXCEPT !.status = "offered"] \in ActionRow
    BY StatusesListed DEF NoAction, ActionRow
  <2>4. [NoAction EXCEPT !.status = "offered"].status = "offered"
    BY DEF NoAction
  <2>5. actions' = [a \in Actions |-> IF a[1] = q.goal[2] /\ a[2] \in q.keys
                                      THEN [NoAction EXCEPT !.status = "offered"] ELSE before[a]]
    BY <1>4 DEF OfferedBy
  <2> HIDE DEF before
  <2>6. actions' \in [Actions -> ActionRow]
    BY <2>2, <2>3, <2>5
  <2>7. ASSUME NEW a \in Actions PROVE Change(a)
    <3>1. ~session.deleted /\ q.goal[2] \notin events
      BY <1>4 DEF EventIsNew
    <3>2. CASE a[1] = q.goal[2] /\ a[2] \in q.keys
      BY <1>4, <2>4, <2>5, <3>1, <3>2 DEF Change, Moves
    <3>3. CASE ~(a[1] = q.goal[2] /\ a[2] \in q.keys)
      BY <2>2, <2>5, <3>1, <3>3 DEF Change, Moves, Lapses
    <3> QED BY <3>2, <3>3
  <2> QED BY <1>1, <1>2, <1>4, <2>1, <2>6, <2>7, ReqsStep, TypeNow, TypeNext DEF StepOK
<1> QED BY <1>3, <1>4 DEF WriteReport

LEMMA WriteProgressStep ==
  ASSUME Inv, NEW r \in Requests, WriteProgress(r)
  PROVE  StepOK
<1>1. TypeOK /\ reqs[r] \in Request /\ Leave(r) /\ UNCHANGED <<actions, events, mishaps>>
  BY TypeNow DEF Inv, WriteProgress, rows
<1>2. session' \in SessionRow
  BY <1>1, SessionTyped DEF WriteProgress, Request
<1> QED BY <1>1, <1>2, ReqsStep, ActionsStay, TypeNow, TypeNext DEF StepOK

LEMMA ClaimActionsStep ==
  ASSUME Inv, NEW r \in Requests, ClaimActions(r)
  PROVE  StepOK
<1>1. TypeOK /\ Goto(r, "deliver") /\ UNCHANGED <<session, events, mishaps>>
  BY DEF Inv, ClaimActions
<1>2. actions' = [a \in Actions |-> IF a \in reqs[r].got /\ Claimable(a)
                                    THEN [actions[a] EXCEPT !.status = "claimed"] ELSE actions[a]]
  BY DEF ClaimActions
<1>3. ASSUME NEW a \in Actions
      PROVE  /\ [actions[a] EXCEPT !.status = "claimed"] \in ActionRow
             /\ [actions[a] EXCEPT !.status = "claimed"].status = "claimed"
             /\ [actions[a] EXCEPT !.status = "claimed"].cancelled = actions[a].cancelled
  <2>1. actions[a] \in ActionRow
    BY <1>1, TypeNow
  <2> QED BY <2>1, StatusSet, StatusesListed
<1>4. actions' \in [Actions -> ActionRow]
  BY <1>1, <1>2, <1>3, TypeNow
<1>5. ASSUME NEW a \in Actions PROVE Change(a)
  <2>1. CASE a \in reqs[r].got /\ Claimable(a)
    <3>1. actions'[a].status = "claimed" /\ actions'[a].cancelled = actions[a].cancelled
      BY <1>2, <1>3, <2>1
    <3> QED BY <2>1, <3>1 DEF Claimable, Change, Moves
  <2>2. CASE ~(a \in reqs[r].got /\ Claimable(a))
    BY <1>2, <2>2 DEF Change, Lapses
  <2> QED BY <2>1, <2>2
<1> QED BY <1>1, <1>4, <1>5, ReqsStep, TypeNow, TypeNext DEF StepOK

LEMMA DeliverStep ==
  ASSUME Inv, NEW r \in Requests, Deliver(r)
  PROVE  StepOK
<1>1. TypeOK /\ Known /\ Leave(r) /\ UNCHANGED <<events, mishaps>> /\ actions' = Expire(Answered(r))
  BY DEF Inv, Deliver
<1>2. session' \in SessionRow
  BY <1>1, SessionTyped, StatesListed DEF Deliver
<1>3. actions' \in [Actions -> ActionRow] /\ \A a \in Actions : Change(a)
  BY <1>1, ExpireTyped, ExpireRows
<1> QED BY <1>1, <1>2, <1>3, ReqsStep, TypeNow, TypeNext DEF StepOK

LEMMA WriteResultStep ==
  ASSUME Inv, NEW r \in Requests, WriteResult(r)
  PROVE  StepOK
<1> DEFINE s == IF reqs[r].goal[1] = "ok" THEN "done" ELSE "failed"
<1>1. /\ TypeOK /\ Target(r) \in Actions /\ Leave(r) /\ UNCHANGED <<events, mishaps>>
      /\ actions[Target(r)].status \notin Early
      /\ reqs[r].goal[1] = "ok" => ~actions[Target(r)].cancelled
  BY DEF Inv, Aimed, AimedAt, WriteResult, Target
<1> PICK a \in Actions : a = Target(r)
  BY <1>1
<1>2. session' \in SessionRow
  <2>1. \/ session' = session
        \/ session' = [session EXCEPT !.state = "running", !.avail = {}]
        \/ session' = [session EXCEPT !.state = "closed", !.avail = {}]
    BY DEF WriteResult
  <2>2. {"running", "closed"} \subseteq States /\ {} \in SUBSET Keys
    BY StatesListed
  <2>3. session \in SessionRow
    BY <1>1, SessionTyped
  <2>4. /\ [session EXCEPT !.state = "running", !.avail = {}] \in SessionRow
        /\ [session EXCEPT !.state = "closed", !.avail = {}] \in SessionRow
    BY <2>2, <2>3 DEF SessionRow
  <2> QED BY <2>1, <2>3, <2>4
<1>3. CASE UNCHANGED actions
  BY <1>1, <1>2, <1>3, ReqsStep, ActionsStay, TypeNow, TypeNext DEF StepOK
<1>4. CASE ~session.deleted /\ Finishable(a) /\ actions' = Move(a, s)
  <2>1. s \in Statuses
    BY StatusesListed
  <2>2. s = "failed" \/ (s = "done" /\ ~actions[a].cancelled)
    BY <1>1
  <2> HIDE DEF s
  <2>3. /\ actions' \in [Actions -> ActionRow]
        /\ actions'[a].status = s /\ actions'[a].cancelled = actions[a].cancelled
        /\ \A b \in Actions \ {a} : actions'[b] = actions[b]
    BY <1>1, <1>4, <2>1, MoveRows
  <2>4. ASSUME NEW b \in Actions PROVE Change(b)
    <3>1. CASE b = a
      BY <1>4, <2>2, <2>3, <3>1 DEF Finishable, Change, Moves
    <3>2. CASE b # a
      BY <2>3, <3>2 DEF Change, Lapses
    <3> QED BY <3>1, <3>2
  <2> QED BY <1>1, <1>2, <2>3, <2>4, ReqsStep, TypeNow, TypeNext DEF StepOK
<1> QED BY <1>3, <1>4 DEF WriteResult

-----------------------------------------------------------------------------
(* What each action of the phone does. *)

LEMMA StartReplyStep ==
  ASSUME Inv, NEW r \in Requests, NEW key \in Keys, StartReply(r, key)
  PROVE  StepOK
<1>0. PICK e \in Events :
        Begin(r, [Idle EXCEPT !.pc = "choose", !.goal = <<"reply", e, key>>])
  BY DEF StartReply
<1> DEFINE q == [Idle EXCEPT !.pc = "choose", !.goal = <<"reply", e, key>>]
<1>1. TypeOK
  BY DEF Inv
<1>3. q \in Request
  BY IdleTyped DEF PCs, Goal, Goals, Request
<1>4. AimedAt(q)
  <2>1. q.pc = "choose" /\ q.goal[2] = e /\ q.goal[3] = key
    BY DEF Idle
  <2> HIDE DEF q
  <2> QED BY <2>1 DEF AimedAt, Actions
<1>5. Begin(r, q) /\ UNCHANGED <<session, actions, events, mishaps>>
  BY <1>0 DEF StartReply, rows
<1> HIDE DEF q
<1> QED BY <1>1, <1>3, <1>4, <1>5, ReqsStep, ActionsStay, TypeNow, TypeNext DEF StepOK

LEMMA StartConfirmStep ==
  ASSUME Inv, NEW r \in Requests, NEW a \in Actions, NEW goal \in {"confirm", "cancel"},
         StartConfirm(r, a, goal)
  PROVE  StepOK
<1> DEFINE q == [Idle EXCEPT !.pc = "decide", !.goal = <<goal, a[1], a[2]>>,
                             !.keys = session.avail]
<1>1. TypeOK /\ session.avail \in SUBSET Keys
  BY TypeNow DEF Inv, SessionRow
<1>2. a[1] \in Events /\ a[2] \in Keys /\ a = <<a[1], a[2]>>
  BY DEF Actions
<1>3. q \in Request
  BY <1>1, <1>2, IdleTyped DEF PCs, Goal, Goals, Request
<1>4. AimedAt(q)
  <2>1. q.pc = "decide" /\ q.goal[2] = a[1] /\ q.goal[3] = a[2]
    BY DEF Idle
  <2> HIDE DEF q
  <2> QED BY <1>2, <2>1 DEF AimedAt
<1>5. Begin(r, q) /\ session' = Refreshed /\ UNCHANGED <<actions, events, mishaps>>
  BY DEF StartConfirm, rows
<1> HIDE DEF q
<1>6. session' \in SessionRow
  BY <1>1, <1>5, SessionTyped
<1> QED BY <1>1, <1>3, <1>4, <1>5, <1>6, ReqsStep, ActionsStay, TypeNow, TypeNext DEF StepOK

\* The choice, and the withdrawal of the others when there is nothing to confirm.
LEMMA ChooseRows ==
  ASSUME TypeOK, NEW a \in Actions, actions' = Choose(a), ~session.deleted
  PROVE  actions' \in [Actions -> ActionRow] /\ \A b \in Actions : Change(b)
<1>1. actions \in [Actions -> ActionRow]
  BY TypeNow
<1>2. {"pending_confirm", "queued"} \subseteq Statuses
  BY StatusesListed
<1>3. CASE a[2] \in Risky /\ Picked(a) = actions
  BY <1>1, <1>3, ActionsStay DEF Choose
<1>4. CASE a[2] \in Risky /\ actions[a].status = "offered" /\ Picked(a) = Move(a, "pending_confirm")
  <2>1. actions' = Move(a, "pending_confirm")
    BY <1>4 DEF Choose
  <2>2. /\ actions' \in [Actions -> ActionRow] /\ actions'[a].status = "pending_confirm"
        /\ \A b \in Actions \ {a} : actions'[b] = actions[b]
    BY <1>2, <2>1, MoveRows
  <2>3. ASSUME NEW b \in Actions PROVE Change(b)
    BY <1>4, <2>2 DEF Change, Moves, Lapses
  <2> QED BY <2>2, <2>3
<1>5. CASE a[2] \notin Risky /\ Picked(a) = actions
  <2>1. actions' = Withdraw(actions, {a})
    BY <1>5 DEF Choose
  <2>2. actions' \in [Actions -> ActionRow]
    BY <1>1, <2>1, RowsTyped
  <2>3. ASSUME NEW b \in Actions PROVE Change(b)
    BY <1>1, <2>1, WithdrawRows DEF Change, Moves, Lapses
  <2> QED BY <2>2, <2>3
<1>6. CASE a[2] \notin Risky /\ actions[a].status = "offered" /\ Picked(a) = Move(a, "queued")
  <2>1. actions' = Withdraw(Move(a, "queued"), {a})
    BY <1>6 DEF Choose
  <2>2. /\ Move(a, "queued") \in [Actions -> ActionRow] /\ Move(a, "queued")[a].status = "queued"
        /\ \A b \in Actions \ {a} : Move(a, "queued")[b] = actions[b]
    BY <1>2, MoveRows
  <2>3. actions' \in [Actions -> ActionRow]
    BY <2>1, <2>2, RowsTyped
  <2>4. actions'[a].status = "queued"
    BY <2>1, <2>2, WithdrawRows
  <2>5. ASSUME NEW b \in Actions \ {a}
        PROVE  IF actions[b].status \in Active THEN actions'[b].status = "cancelled"
               ELSE actions'[b] = actions[b]
    BY <2>1, <2>2, WithdrawRows
  <2>6. OthersGo(a)
    BY <2>5 DEF OthersGo, Active
  <2>7. ASSUME NEW b \in Actions PROVE Change(b)
    <3>1. CASE b = a
      BY <1>6, <2>4, <2>6, <3>1 DEF Change, Moves, Active
    <3>2. CASE b # a
      BY <2>5, <3>2 DEF Change, Moves, Lapses
    <3> QED BY <3>1, <3>2
  <2> QED BY <2>3, <2>7
<1> QED BY <1>3, <1>4, <1>5, <1>6 DEF Picked

LEMMA WriteReplyStep ==
  ASSUME Inv, NEW r \in Requests, WriteReply(r)
  PROVE  StepOK
<1>1. /\ TypeOK /\ Target(r) \in Actions /\ Leave(r) /\ UNCHANGED <<events, mishaps>>
  BY DEF Inv, Aimed, AimedAt, WriteReply, Target
<1>2. CASE session.deleted /\ UNCHANGED <<session, actions>>
  BY <1>1, <1>2, ReqsStep, ActionsStay, TypeNow, TypeNext DEF StepOK
<1>3. CASE ~session.deleted /\ actions' = Choose(Target(r))
  <2>1. session' \in SessionRow
    BY <1>1, <1>3, SessionTyped, StatesListed DEF WriteReply
  <2>2. actions' \in [Actions -> ActionRow] /\ \A b \in Actions : Change(b)
    BY <1>1, <1>3, ChooseRows
  <2> QED BY <1>1, <2>1, <2>2, ReqsStep, TypeNow, TypeNext DEF StepOK
<1> QED BY <1>2, <1>3 DEF WriteReply

\* The row of the action that is decided.
LEMMA DecidedRows ==
  ASSUME TypeOK, NEW r \in Requests, Target(r) \in Actions
  PROVE  LET a == Target(r) IN
         /\ Decided(r) \in [Actions -> ActionRow]
         /\ Decided(r)[a].status \in {"queued", "cancelled"}
         /\ reqs[r].goal[1] = "confirm" => Decided(r)[a].status = "queued"
         /\ reqs[r].goal[1] # "confirm" => Decided(r)[a].cancelled
         /\ \A b \in Actions \ {a} : Decided(r)[b] = actions[b]
<1> PICK a \in Actions : a = Target(r)
  OBVIOUS
<1> DEFINE yes == reqs[r].goal[1] = "confirm"
           s == IF yes \/ reqs[r].keys \subseteq {a[2]} THEN "queued" ELSE "cancelled"
           no == ~yes
           new == [actions[a] EXCEPT !.status = s, !.cancelled = no]
<1>1. actions \in [Actions -> ActionRow] /\ actions[a] \in ActionRow
  BY TypeNow
<1>2. Decided(r) = [actions EXCEPT ![a].status = s, ![a].cancelled = no]
  BY DEF Decided
<1>3. s \in Statuses /\ s \in {"queued", "cancelled"} /\ (yes => s = "queued")
  BY StatusesListed
<1>4. no \in BOOLEAN
  OBVIOUS
<1> HIDE DEF s, no
<1>5. Decided(r) = [actions EXCEPT ![a] = new]
  BY <1>1, <1>2
<1>6. new \in ActionRow
  BY <1>1, <1>3, <1>4 DEF ActionRow
<1>7. new.status = s /\ new.cancelled = no
  BY <1>1 DEF ActionRow
<1> HIDE DEF new
<1>8. Decided(r)[a] = new /\ Decided(r) \in [Actions -> ActionRow]
      /\ \A b \in Actions \ {a} : Decided(r)[b] = actions[b]
  BY <1>1, <1>5, <1>6
<1>9. ~yes => Decided(r)[a].cancelled
  BY <1>7, <1>8 DEF no
<1> QED BY <1>3, <1>7, <1>8, <1>9

LEMMA WriteConfirmStep ==
  ASSUME Inv, NEW r \in Requests, WriteConfirm(r)
  PROVE  StepOK
<1>1. /\ TypeOK /\ Target(r) \in Actions /\ Leave(r) /\ UNCHANGED <<events, mishaps>>
      /\ reqs[r] \in Request
  BY TypeNow DEF Inv, Aimed, AimedAt, WriteConfirm, Target
<1> PICK a \in Actions : a = Target(r)
  BY <1>1
<1> DEFINE yes == reqs[r].goal[1] = "confirm"
           left == reqs[r].keys \ {a[2]}
           won == session.state = "awaiting_confirm" /\ ~session.deleted
                  /\ actions[a].status = "pending_confirm"
           now == IF won THEN Decided(r) ELSE actions
<1>2. session' \in SessionRow
  <2>1. left \in SUBSET Keys /\ {} \in SUBSET Keys
    BY <1>1 DEF Request
  <2>2. \/ session' = session
        \/ session' = [session EXCEPT !.state = "queued", !.avail = {}]
        \/ session' = [session EXCEPT !.state = "needs_user", !.avail = left]
    BY DEF WriteConfirm
  <2>3. session \in SessionRow /\ {"queued", "needs_user"} \subseteq States
    BY <1>1, SessionTyped, StatesListed
  <2> HIDE DEF left
  <2>4. /\ [session EXCEPT !.state = "queued", !.avail = {}] \in SessionRow
        /\ [session EXCEPT !.state = "needs_user", !.avail = left] \in SessionRow
    BY <2>1, <2>3 DEF SessionRow
  <2> QED BY <2>2, <2>3, <2>4
<1>3. actions' = IF yes /\ ~session.deleted THEN Withdraw(now, {a}) ELSE now
  BY DEF WriteConfirm
<1>4. actions \in [Actions -> ActionRow]
  BY <1>1, TypeNow
<1>5. CASE ~won
  <2>1. now = actions
    BY <1>5
  <2>2. CASE yes /\ ~session.deleted
    <3>1. actions' = Withdraw(actions, {a})
      BY <1>3, <2>1, <2>2
    <3>2. actions' \in [Actions -> ActionRow]
      BY <1>4, <3>1, RowsTyped
    <3>3. ASSUME NEW b \in Actions PROVE Change(b)
      BY <1>4, <2>2, <3>1, WithdrawRows DEF Change, Moves, Lapses
    <3> QED BY <1>1, <1>2, <3>2, <3>3, ReqsStep, TypeNow, TypeNext DEF StepOK
  <2>3. CASE ~(yes /\ ~session.deleted)
    <3>1. UNCHANGED actions
      BY <1>3, <2>1, <2>3
    <3> QED BY <1>1, <1>2, <3>1, ReqsStep, ActionsStay, TypeNow, TypeNext DEF StepOK
  <2> QED BY <2>2, <2>3
<1>6. CASE won
  <2>1. /\ Decided(r) \in [Actions -> ActionRow]
        /\ Decided(r)[a].status \in {"queued", "cancelled"}
        /\ yes => Decided(r)[a].status = "queued"
        /\ ~yes => Decided(r)[a].cancelled
        /\ \A b \in Actions \ {a} : Decided(r)[b] = actions[b]
    BY <1>1, DecidedRows
  <2>2. now = Decided(r) /\ ~session.deleted /\ actions[a].status = "pending_confirm"
    BY <1>6
  <2>3. CASE yes
    <3>1. actions' = Withdraw(Decided(r), {a})
      BY <1>3, <2>2, <2>3
    <3>2. actions' \in [Actions -> ActionRow]
      BY <2>1, <3>1, RowsTyped
    <3>3. actions'[a].status = "queued"
      BY <2>1, <2>3, <3>1, WithdrawRows
    <3>4. ASSUME NEW b \in Actions \ {a}
          PROVE  IF actions[b].status \in Active THEN actions'[b].status = "cancelled"
                 ELSE actions'[b] = actions[b]
      BY <2>1, <3>1, WithdrawRows
    <3>5. OthersGo(a)
      BY <3>4 DEF OthersGo, Active
    <3>6. ASSUME NEW b \in Actions PROVE Change(b)
      <4>1. CASE b = a
        BY <2>2, <3>3, <3>5, <4>1 DEF Change, Moves, Active
      <4>2. CASE b # a
        BY <2>2, <3>4, <4>2 DEF Change, Moves, Lapses
      <4> QED BY <4>1, <4>2
    <3> QED BY <1>1, <1>2, <3>2, <3>6, ReqsStep, TypeNow, TypeNext DEF StepOK
  <2>4. CASE ~yes
    <3>1. actions' = Decided(r)
      BY <1>3, <2>2, <2>4
    <3>2. ASSUME NEW b \in Actions PROVE Change(b)
      <4>1. CASE b = a
        <5>1. actions'[a].status \in {"queued", "cancelled"} /\ actions'[a].cancelled
          BY <2>1, <2>4, <3>1
        <5> QED BY <2>2, <4>1, <5>1 DEF Change, Moves, Active
      <4>2. CASE b # a
        BY <2>1, <3>1, <4>2 DEF Change, Lapses
      <4> QED BY <4>1, <4>2
    <3> QED BY <1>1, <1>2, <2>1, <3>1, <3>2, ReqsStep, TypeNow, TypeNext DEF StepOK
  <2> QED BY <2>3, <2>4
<1> QED BY <1>5, <1>6

LEMMA StartDetailStep ==
  ASSUME Inv, NEW r \in Requests, StartDetail(r)
  PROVE  StepOK
<1> DEFINE keys == {a[2] : a \in {b \in ActiveNow : ~actions[b].due}}
           q == [Idle EXCEPT !.pc = "detail", !.keys = keys]
<1>1. TypeOK /\ Known
  BY DEF Inv
<1>2. keys \in SUBSET Keys
  BY DEF ActiveNow, Actions
<1>5. Begin(r, q) /\ actions' = Expire(ActiveNow) /\ UNCHANGED <<session, events, mishaps>>
  BY DEF StartDetail
<1> HIDE DEF keys
<1>3. q \in Request
  BY <1>2, IdleTyped DEF PCs, Request
<1>4. AimedAt(q)
  BY DEF AimedAt, Idle
<1> HIDE DEF q
<1>6. actions' \in [Actions -> ActionRow] /\ \A a \in Actions : Change(a)
  BY <1>1, <1>5, ExpireTyped, ExpireRows
<1> QED BY <1>1, <1>3, <1>4, <1>5, <1>6, ReqsStep, TypeNow, TypeNext DEF StepOK

LEMMA WriteDetailStep ==
  ASSUME Inv, NEW r \in Requests, WriteDetail(r)
  PROVE  StepOK
<1>1. TypeOK /\ reqs[r] \in Request /\ Leave(r) /\ UNCHANGED <<actions, events, mishaps>>
  BY TypeNow DEF Inv, WriteDetail, rows
<1>2. session' \in SessionRow
  <2>1. reqs[r].keys \in SUBSET Keys /\ {} \in SUBSET Keys /\ "running" \in States
    BY <1>1, StatesListed DEF Request
  <2>2. \/ session' = session
        \/ session' = [session EXCEPT !.avail = reqs[r].keys]
        \/ session' = [session EXCEPT !.state = "running", !.avail = {}]
    BY DEF WriteDetail
  <2>3. session \in SessionRow
    BY <1>1, SessionTyped
  <2>4. [session EXCEPT !.avail = reqs[r].keys] \in SessionRow
    BY <2>1, <2>3 DEF SessionRow
  <2>5. [session EXCEPT !.state = "running", !.avail = {}] \in SessionRow
    BY <1>1, <2>1, SessionTyped
  <2> QED BY <2>2, <2>3, <2>4, <2>5
<1> QED BY <1>1, <1>2, ReqsStep, ActionsStay, TypeNow, TypeNext DEF StepOK

-----------------------------------------------------------------------------
(* Mishaps and refusals. *)

LEMMA MishapTyped ==
  ASSUME TypeOK, Mishap
  PROVE  mishaps' \in 0..MaxMishaps
BY MishapsAssumption DEF TypeOK, Mishap

LEMMA ReqsStay ==
  ASSUME TypeOK, UNCHANGED reqs
  PROVE  reqs' \in [Requests -> Request]
         /\ \A q \in Requests : reqs'[q] = reqs[q] \/ AimedAt(reqs'[q])
BY TypeNow

LEMMA StopStep ==
  ASSUME Inv, NEW r \in Requests, Stop(r)
  PROVE  StepOK
<1>1. TypeOK /\ Leave(r) /\ Mishap /\ UNCHANGED <<session, actions, events>>
  BY DEF Inv, Stop
<1> QED BY <1>1, MishapTyped, ReqsStep, ActionsStay, TypeNow, TypeNext DEF StepOK

LEMMA SessionOnly ==
  ASSUME Inv, Delete \/ SessionTimesOut \/ RefuseSession
  PROVE  StepOK
<1>1. TypeOK /\ session \in SessionRow /\ UNCHANGED <<reqs, actions, events>>
  BY TypeNow DEF Inv, Delete, SessionTimesOut, RefuseSession, rows
<1>2. mishaps' \in 0..MaxMishaps
  BY <1>1, MishapTyped, TypeNow DEF Delete, SessionTimesOut, RefuseSession, rows
<1>3. session' \in SessionRow
  <2>1. CASE Delete
    BY <1>1, <2>1 DEF Delete, SessionRow
  <2>2. CASE SessionTimesOut
    BY <1>1, <2>2 DEF SessionTimesOut, SessionRow
  <2>3. CASE RefuseSession
    BY <1>1, <2>3, SessionTyped DEF RefuseSession
  <2> QED BY <2>1, <2>2, <2>3
<1> QED BY <1>1, <1>2, <1>3, ReqsStay, ActionsStay, TypeNow, TypeNext DEF StepOK

LEMMA RefuseActionStep ==
  ASSUME Inv, NEW a \in Actions, RefuseAction(a)
  PROVE  StepOK
<1>1. TypeOK /\ Known /\ actions' = Expire({a}) /\ UNCHANGED <<session, events, reqs, mishaps>>
  BY DEF Inv, RefuseAction
<1>2. actions' \in [Actions -> ActionRow] /\ \A b \in Actions : Change(b)
  BY <1>1, ExpireTyped, ExpireRows
<1> QED BY <1>1, <1>2, ReqsStay, TypeNow, TypeNext DEF StepOK

LEMMA ActionTimesOutStep ==
  ASSUME Inv, NEW a \in Actions, ActionTimesOut(a)
  PROVE  StepOK
<1> DEFINE new == [actions[a] EXCEPT !.due = TRUE]
<1>1. /\ TypeOK /\ Mishap /\ UNCHANGED <<session, reqs, events>>
      /\ actions[a].status \notin Final \cup {"none"}
  BY DEF Inv, ActionTimesOut
<1>2. actions \in [Actions -> ActionRow] /\ actions[a] \in ActionRow
  BY <1>1, TypeNow
<1>3. actions' = [actions EXCEPT ![a] = new]
  BY <1>2 DEF ActionTimesOut
<1>4. new \in ActionRow /\ new.status = actions[a].status /\ new.cancelled = actions[a].cancelled
  BY <1>2 DEF ActionRow
<1> HIDE DEF new
<1>5. actions' \in [Actions -> ActionRow] /\ actions'[a] = new
      /\ \A b \in Actions \ {a} : actions'[b] = actions[b]
  BY <1>2, <1>3, <1>4
<1>6. ASSUME NEW b \in Actions PROVE Change(b)
  <2>1. CASE b = a
    BY <1>1, <1>4, <1>5, <2>1 DEF Change, Lapses
  <2>2. CASE b # a
    BY <1>5, <2>2 DEF Change, Lapses
  <2> QED BY <2>1, <2>2
<1> QED BY <1>1, <1>5, <1>6, MishapTyped, ReqsStay, TypeNow, TypeNext DEF StepOK

\* Every step does no more than StepOK says.
LEMMA EachStep ==
  ASSUME Inv, [Next]_vars
  PROVE  StepOK
<1>1. TypeOK
  BY DEF Inv
<1>2. CASE UNCHANGED vars
  BY <1>1, <1>2, ReqsStay, ActionsStay, TypeNow, TypeNext DEF StepOK, vars
<1>3. ASSUME NEW r \in Requests, AgentStep(r) PROVE StepOK
  BY <1>3, StartReportStep, StartProgressStep, StartPollStep, StartResultStep, WriteReportStep,
     WriteProgressStep, ClaimActionsStep, DeliverStep, WriteResultStep DEF AgentStep
<1>4. ASSUME NEW r \in Requests, PhoneStep(r) PROVE StepOK
  BY <1>4, StartReplyStep, StartConfirmStep, WriteReplyStep, WriteConfirmStep, StartDetailStep,
     WriteDetailStep DEF PhoneStep
<1> QED BY <1>2, <1>3, <1>4, StopStep, SessionOnly, RefuseActionStep, ActionTimesOutStep DEF Next

-----------------------------------------------------------------------------
(* The invariant. *)

LEMMA InvInit == ASSUME Init PROVE Inv
<1>1. TypeOK
  BY IdleTyped, StatusesListed, StatesListed, MishapsAssumption
     DEF Init, TypeOK, NoAction, Request
<1>2. \A a \in Actions : actions[a].status = "none" /\ ~actions[a].due
  BY DEF Init, NoAction
<1>3. \A r \in Requests : reqs[r].pc = "idle"
  BY DEF Init, Idle
<1> QED BY <1>1, <1>2, <1>3 DEF Inv, Known, Aimed, AimedAt, Alone, ChosenRow, CancelledNeverDone

\* What a request is about stays so.
LEMMA AimKept ==
  ASSUME Inv, StepOK, NEW q, AimedAt(q)
  PROVE  AimedAt(q)'
<1> SUFFICES ASSUME q.pc = "result" PROVE AimedAt(q)'
  BY DEF AimedAt
<1> PICK a : a = <<q.goal[2], q.goal[3]>>
  OBVIOUS
<1>1. /\ a \in Actions /\ actions[a].status \notin Early
      /\ q.goal[1] = "ok" => ~actions[a].cancelled
  BY DEF AimedAt
<1>2. Change(a) /\ (actions[a].status # "none" => a[1] \in events)
  BY <1>1 DEF StepOK, Inv, Known
<1>3. actions'[a].status \notin Early /\ actions'[a].cancelled = actions[a].cancelled
  BY <1>1, <1>2 DEF Change, Lapses, Moves, Early, Active
<1> QED BY <1>1, <1>3 DEF AimedAt

\* Of two actions of an event only one is handed on.
LEMMA AloneKept ==
  ASSUME Inv, StepOK
  PROVE  Alone'
<1> SUFFICES ASSUME NEW a \in Actions, NEW b \in Actions, a # b, a[1] = b[1],
                    ChosenRow(actions'[a])
             PROVE  actions'[b].status \notin Active /\ ~ChosenRow(actions'[b])
  BY DEF Alone
<1>1. Change(a) /\ Change(b)
  BY DEF StepOK
<1>2. /\ actions[a].status # "none" => a[1] \in events
      /\ actions[b].status # "none" => b[1] \in events
  BY DEF Inv, Known
<1>3. /\ ChosenRow(actions[a]) => actions[b].status \notin Active /\ ~ChosenRow(actions[b])
      /\ ChosenRow(actions[b]) => actions[a].status \notin Active /\ ~ChosenRow(actions[a])
  BY DEF Inv, Alone
<1>4. CASE ChosenRow(actions[a])
  <2>1. a[1] \in events /\ actions[b].status \notin Active /\ ~ChosenRow(actions[b])
    BY <1>2, <1>3, <1>4 DEF ChosenRow
  <2> QED BY <1>1, <2>1 DEF Change, Lapses, Moves, ChosenRow, Active
<1>5. CASE ~ChosenRow(actions[a])
  <2>1. actions[a].status \in Active /\ OthersGo(a)
    BY <1>1, <1>5 DEF Change, Lapses, Moves, ChosenRow
  <2>2. /\ actions'[b].status \notin Active
        /\ actions[b].status \in Active => actions'[b].status = "cancelled"
        /\ ~ChosenRow(actions[b])
    BY <1>3, <2>1 DEF OthersGo
  <2>3. CASE actions[b].status \in Active
    BY <2>2, <2>3 DEF ChosenRow
  <2>4. CASE actions[b].status \notin Active
    BY <1>1, <2>2, <2>4 DEF Change, Lapses, Moves, ChosenRow
  <2> QED BY <2>2, <2>3, <2>4
<1> QED BY <1>4, <1>5

LEMMA InvStep ==
  ASSUME Inv, [Next]_vars
  PROVE  Inv'
<1>1. StepOK
  BY EachStep
<1>2. \A a \in Actions : Change(a)
  BY <1>1 DEF StepOK
<1>3. Known'
  <2> SUFFICES ASSUME NEW a \in Actions
               PROVE  /\ actions'[a].status = "none" => ~actions'[a].due
                      /\ actions'[a].status # "none" => a[1] \in events'
    BY DEF Known
  <2>1. /\ actions[a].status = "none" => ~actions[a].due
        /\ actions[a].status # "none" => a[1] \in events
        /\ events \subseteq events' /\ Change(a)
    BY <1>1, <1>2 DEF Inv, Known, StepOK
  <2> QED BY <2>1 DEF Change, Lapses, Moves, Active, Final
<1>4. Aimed'
  <2> SUFFICES ASSUME NEW r \in Requests PROVE AimedAt(reqs[r])'
    BY DEF Aimed
  <2>1. AimedAt(reqs[r])
    BY DEF Inv, Aimed
  <2>2. PICK q : q = reqs'[r]
    OBVIOUS
  <2>3. AimedAt(q)
    BY <1>1, <2>1, <2>2 DEF StepOK
  <2>4. AimedAt(q)'
    BY <1>1, <2>3, AimKept
  <2> QED BY <2>2, <2>4 DEF AimedAt
<1>5. CancelledNeverDone'
  <2> SUFFICES ASSUME NEW a \in Actions, actions'[a].cancelled PROVE actions'[a].status # "done"
    BY DEF CancelledNeverDone
  <2>1. Change(a) /\ (actions[a].cancelled => actions[a].status # "done")
    BY <1>2 DEF Inv, CancelledNeverDone
  <2> QED BY <2>1 DEF Change, Lapses, Moves
<1> QED BY <1>1, <1>3, <1>4, <1>5, AloneKept DEF Inv, StepOK

LEMMA Invariant == Spec => []Inv
<1>1. Init => Inv
  BY InvInit
<1>2. Inv /\ [Next]_vars => Inv'
  BY InvStep
<1> QED BY <1>1, <1>2, PTL DEF Spec

-----------------------------------------------------------------------------
\* The session, its actions and the requests under way keep their types.
THEOREM TypeCorrect == Spec => []TypeOK
<1>1. Inv => TypeOK
  BY DEF Inv
<1> QED BY <1>1, Invariant, PTL

\* What the user has cancelled is never recorded as done, whatever results are under way
\* (sessions.rs, submit_action_result).
THEOREM CancelledNeverDoneCorrect == Spec => []CancelledNeverDone
<1>1. Inv => CancelledNeverDone
  BY DEF Inv
<1> QED BY <1>1, Invariant, PTL

\* Of the actions one event offers the agent is handed at most one to be done, however
\* choices and confirmations run into each other (sessions.rs, phone_reply and
\* phone_confirm).
THEOREM OneChoicePerEventCorrect == Spec => []OneChoicePerEvent
<1>1. ASSUME Inv PROVE OneChoicePerEvent
  <2> SUFFICES ASSUME NEW e \in Events PROVE Cardinality(Chosen(e)) <= 1
    BY DEF OneChoicePerEvent
  <2>1. ASSUME NEW k \in Chosen(e), NEW l \in Chosen(e) PROVE k = l
    <3>1. /\ <<e, k>> \in Actions /\ <<e, l>> \in Actions
          /\ ChosenRow(actions[<<e, k>>]) /\ ChosenRow(actions[<<e, l>>])
      BY DEF Chosen, ChosenRow, Actions
    <3>2. <<e, k>> = <<e, l>>
      BY <1>1, <3>1 DEF Inv, Alone
    <3> QED BY <3>2
  <2>2. Chosen(e) = {} \/ \E k : Chosen(e) = {k}
    BY <2>1
  <2>3. CASE Chosen(e) = {}
    BY <2>3, FS_EmptySet
  <2>4. ASSUME NEW k, Chosen(e) = {k} PROVE Cardinality(Chosen(e)) = 1
    <3>1. Cardinality({k}) = 1
      BY FS_Singleton
    <3> QED BY <2>4, <3>1
  <2>5. Cardinality(Chosen(e)) = 0 \/ Cardinality(Chosen(e)) = 1
    BY <2>2, <2>3, <2>4, FS_EmptySet
  <2> QED BY <2>5
<1> QED BY <1>1, Invariant, PTL

-----------------------------------------------------------------------------
\* Sessions implements the life cycle of an action: what is modelled step by step, with
\* its races, is one forward movement of each action.
THEOREM ImplementsLifecycleCorrect == Spec => ImplementsLifecycle
<1> DEFINE status == [a \in Actions |-> actions[a].status]
<1>1. Init => Lifecycle!Init
  BY DEF Init, NoAction, Lifecycle!Init
<1>2. ASSUME Inv, [Next]_vars PROVE [Lifecycle!Next]_status
  <2>1. StepOK
    BY <1>2, EachStep
  <2>2. \A a \in Actions : actions[a].status \in Statuses /\ actions'[a].status \in Statuses
    BY <1>2, <2>1 DEF Inv, StepOK, TypeOK
  <2>3. Lifecycle!Statuses = Statuses
    BY StatusesListed DEF Lifecycle!Statuses, Lifecycle!Final
  <2>4. ASSUME NEW a \in Actions
        PROVE  \/ actions'[a].status = actions[a].status
               \/ actions'[a].status \in Lifecycle!After[actions[a].status]
    <3>1. Change(a) /\ (actions[a].status # "none" => a[1] \in events)
      BY <1>2, <2>1 DEF StepOK, Inv, Known
    <3>2. Lifecycle!After[actions[a].status] =
            CASE actions[a].status = "none" -> {"offered"}
              [] actions[a].status = "offered" ->
                   {"pending_confirm", "queued", "cancelled", "expired"}
              [] actions[a].status = "pending_confirm" -> {"queued", "cancelled", "expired"}
              [] actions[a].status = "queued" -> {"claimed", "done", "failed", "expired"}
              [] actions[a].status = "claimed" -> {"done", "failed", "expired"}
              [] OTHER -> {}
      BY <2>2, <2>3 DEF Lifecycle!After
    <3> QED BY <2>2, <3>1, <3>2, StatusesListed DEF Change, Lapses, Moves, Active, Final
  <2> QED BY <2>2, <2>3, <2>4 DEF Lifecycle!Next
<1> QED BY <1>1, <1>2, Invariant, PTL DEF Spec, ImplementsLifecycle, Lifecycle!Spec

\* What DeletedIsFrozen says of a step.
Frozen ==
  session.deleted => \A a \in Actions : actions'[a].status \in {actions[a].status, "expired"}

\* A request under way when the user deletes the session can only find that time is up
\* (sessions.rs: every batch asks for deleted_at to be null).
THEOREM DeletedIsFrozenCorrect == Spec => DeletedIsFrozen
<1>1. Inv /\ [Next]_vars => [Frozen]_vars
  BY EachStep DEF StepOK, Change, Lapses, Frozen
<1>2. DeletedIsFrozen <=> [][Frozen]_vars
  BY DEF DeletedIsFrozen, Frozen
<1> QED BY <1>1, <1>2, Invariant, PTL DEF Spec
=============================================================================
