---------------------------- MODULE RemindersProofs ----------------------------
(***************************************************************************)
(* Theorems about the module Reminders: the user is told of a reminder,    *)
(* and told once for every fault and once more at most, and what became of *)
(* it is final, for any number of overlapping drains, any deployment and   *)
(* any number of faults.                                                   *)
(***************************************************************************)
EXTENDS Reminders, FiniteSetTheorems, TLAPS

-----------------------------------------------------------------------------
(* The inductive invariant: an account of the alerts. *)

ReminderType == [status : Statuses, state : NotificationStates,
                 attempts : 0..MaxAttempts, old : BOOLEAN]
DrainType == [pc : PCs, attempts : 0..MaxAttempts, old : BOOLEAN]

\* A drain that has yet to send its alert, or may give a claim back, or may claim with a
\* lease that is already over.
Owes(q) == q.pc \in {"inbox", "alert", "error"} \/ (q.pc = "claim" /\ q.old)
Owed(q) == IF Owes(q) THEN 1 ELSE 0
Debtors == {d \in Drains : Owes(drain[d])}

\* The row allows one more claim: because it is free, because its lease is over, or because
\* nobody is left who could end its claim.
Free ==
  /\ Scheduled
  /\ \/ reminder.state \in {"pending", "retrying"}
     \/ Processing /\ (reminder.old \/ ~Held)
Allowed == IF Free THEN 1 ELSE 0

\* Every alert beyond the first, sent or still to come, is paid for by a fault.
Account == IsFiniteSet(Debtors) /\ alerts + Allowed + Cardinality(Debtors) <= 1 + faults

\* Who is about to complete the reminder has told the user.
ToldBefore(q) ==
  /\ q.pc = "alert" /\ mode # "apns" => inbox = 1
  /\ q.pc = "sent" => inbox + alerts > 0

Told == inbox \in 0..1 /\ CompletedWasDelivered /\ \A d \in Drains : ToldBefore(drain[d])

Inv == TypeOK /\ Account /\ Told

LEMMA Types ==
  ASSUME Inv
  PROVE  /\ reminder \in ReminderType /\ drain \in [Drains -> DrainType]
         /\ inbox \in {0, 1} /\ alerts \in Nat /\ faults \in Nat /\ faults \in 0..FaultBound
         /\ Allowed \in {0, 1} /\ IsFiniteSet(Debtors) /\ Cardinality(Debtors) \in Nat
         /\ \A d \in Drains : drain[d] \in DrainType /\ ToldBefore(drain[d])
  BY BoundsAssumption, FS_CardinalityType
     DEF Inv, TypeOK, Account, Told, ReminderType, DrainType, Allowed

LEMMA InvInit == ASSUME Init PROVE Inv
<1>1. TypeOK
  <2>1. 0 \in 0..MaxAttempts /\ 0 \in 0..FaultBound
    BY BoundsAssumption
  <2> QED BY <2>1
       DEF Init, TypeOK, Statuses, NotificationStates, PCs, Idle
<1>2. Debtors = {} /\ alerts = 0 /\ faults = 0 /\ Allowed \in {0, 1}
  BY DEF Init, Debtors, Owes, Idle, Allowed
<1>3. Account
  BY <1>2, FS_EmptySet DEF Account
<1>4. Told
  BY DEF Init, Told, ToldBefore, CompletedWasDelivered, Idle
<1> QED BY <1>1, <1>3, <1>4 DEF Inv

-----------------------------------------------------------------------------
(* The moves of a drain. *)

\* One drain moves: what the others owe stays, and it is in the account at most once.
LEMMA DebtorsMove ==
  ASSUME Inv, NEW d \in Drains, NEW q, drain' = [drain EXCEPT ![d] = q]
  PROVE  /\ IsFiniteSet(Debtors') /\ Cardinality(Debtors') \in Nat
         /\ Owes(drain[d]) /\ Owes(q) => Cardinality(Debtors') = Cardinality(Debtors)
         /\ Owes(drain[d]) /\ ~Owes(q) => Cardinality(Debtors') = Cardinality(Debtors) - 1
         /\ ~Owes(drain[d]) /\ Owes(q) => Cardinality(Debtors') = Cardinality(Debtors) + 1
         /\ ~Owes(drain[d]) /\ ~Owes(q) => Cardinality(Debtors') = Cardinality(Debtors)
<1>0. drain'[d] = q /\ \A e \in Drains \ {d} : drain'[e] = drain[e]
  BY Types
<1>1. CASE Owes(drain[d]) <=> Owes(q)
  <2>1. Debtors' = Debtors
    BY <1>0, <1>1 DEF Debtors, Owes
  <2> QED BY <1>1, <2>1, Types
<1>2. CASE Owes(drain[d]) /\ ~Owes(q)
  <2>1. Debtors' = Debtors \ {d} /\ d \in Debtors
    BY <1>0, <1>2 DEF Debtors, Owes
  <2>2. /\ IsFiniteSet(Debtors') /\ Cardinality(Debtors') = Cardinality(Debtors) - 1
    BY <2>1, Types, FS_RemoveElement
  <2>3. Cardinality(Debtors') \in Nat
    BY <2>2, FS_CardinalityType
  <2> QED BY <1>2, <2>2, <2>3
<1>3. CASE ~Owes(drain[d]) /\ Owes(q)
  <2>1. Debtors' = Debtors \cup {d} /\ d \notin Debtors
    BY <1>0, <1>3 DEF Debtors, Owes
  <2>2. /\ IsFiniteSet(Debtors') /\ Cardinality(Debtors') = Cardinality(Debtors) + 1
    BY <2>1, Types, FS_AddElement
  <2>3. Cardinality(Debtors') \in Nat
    BY <2>2, FS_CardinalityType
  <2> QED BY <1>3, <2>2, <2>3
<1> QED BY <1>1, <1>2, <1>3

\* What a drain is when it has moved.
LEMMA Goes ==
  ASSUME Inv, NEW d \in Drains, NEW pc \in PCs, Goto(d, pc)
  PROVE  \E q \in DrainType : /\ drain' = [drain EXCEPT ![d] = q] /\ q.pc = pc
                              /\ q.attempts = drain[d].attempts /\ q.old = drain[d].old
<1>1. PICK q : q = [drain[d] EXCEPT !.pc = pc]
  OBVIOUS
<1>2. q \in DrainType /\ q.pc = pc /\ q.attempts = drain[d].attempts /\ q.old = drain[d].old
  BY <1>1, Types DEF DrainType
<1>3. drain' = [drain EXCEPT ![d] = q]
  BY <1>1 DEF Goto
<1> QED BY <1>2, <1>3

LEMMA Leaves ==
  ASSUME Inv, NEW d \in Drains, Leave(d)
  PROVE  \E q \in DrainType : drain' = [drain EXCEPT ![d] = q] /\ q.pc = "idle"
<1>1. Idle \in DrainType /\ Idle.pc = "idle"
  <2>1. 0 \in 0..MaxAttempts
    BY BoundsAssumption
  <2> QED BY <2>1 DEF Idle, DrainType, PCs
<1> QED BY <1>1 DEF Leave

\* A claim is held by the drains as they are.
LEMMA HeldMoves ==
  ASSUME Inv, NEW d \in Drains, NEW q, drain' = [drain EXCEPT ![d] = q]
  PROVE  /\ q.pc \in Delivering => Held'
         /\ Held /\ (drain[d].pc \in Delivering => q.pc \in Delivering) => Held'
<1>0. drain'[d] = q /\ \A e \in Drains \ {d} : drain'[e] = drain[e]
  BY Types
<1> QED BY <1>0 DEF Held

LEMMA Grows ==
  ASSUME NEW i \in {0, 1}, NEW j \in {0, 1}, j >= i, NEW a \in Nat, NEW b \in Nat, b >= a
  PROVE  (i = 1 => j = 1) /\ (i + a > 0 => j + b > 0)
  OBVIOUS

\* An action is right when the account still balances with what its own drain then owes, and
\* when that drain has told the user before it says so.
LEMMA OneDrain ==
  ASSUME Inv, NEW d \in Drains, NEW q \in DrainType, drain' = [drain EXCEPT ![d] = q],
         UNCHANGED mode, due' \in BOOLEAN, deleted' \in BOOLEAN,
         reminder' \in ReminderType, inbox' \in {0, 1}, inbox' >= inbox,
         alerts' \in Nat, alerts' >= alerts, faults' \in 0..FaultBound,
         alerts' + Allowed' + Owed(q) - faults' <=
           alerts + Allowed + Owed(drain[d]) - faults,
         reminder'.status = "completed" =>
           reminder.status = "completed" \/ inbox' + alerts' > 0,
         ToldBefore(q)'
  PROVE  Inv'
<1>0. drain'[d] = q /\ \A e \in Drains \ {d} : drain'[e] = drain[e]
  BY Types
<1>1. drain' \in [Drains -> DrainType]
  BY <1>0, Types
<1>2. TypeOK'
  BY <1>1 DEF Inv, TypeOK, ReminderType, DrainType
<1>3. Account'
  <2> PICK c \in Nat : c = Cardinality(Debtors)
    BY Types
  <2> PICK k \in Nat : k = Cardinality(Debtors')
    BY DebtorsMove
  <2> PICK f \in Nat : f = faults'
    BY BoundsAssumption
  <2>1. Allowed' \in {0, 1}
    BY DEF Allowed
  <2>2. /\ IsFiniteSet(Debtors')
        /\ Owes(drain[d]) /\ Owes(q) => k = c
        /\ Owes(drain[d]) /\ ~Owes(q) => k = c - 1
        /\ ~Owes(drain[d]) /\ Owes(q) => k = c + 1
        /\ ~Owes(drain[d]) /\ ~Owes(q) => k = c
    BY DebtorsMove
  <2>3. alerts + Allowed + c <= 1 + faults
    BY DEF Inv, Account
  <2>4. alerts' + Allowed' + k <= 1 + f
    BY <2>1, <2>2, <2>3, Types DEF Owed
  <2> QED BY <2>2, <2>4 DEF Account
<1>a. (inbox = 1 => inbox' = 1) /\ (inbox + alerts > 0 => inbox' + alerts' > 0)
  BY Types, Grows
<1>4. Told'
  <2>1. \A e \in Drains \ {d} : ToldBefore(drain[e])'
    BY <1>0, <1>a, Types DEF ToldBefore
  <2>2. ToldBefore(drain[d])'
    BY <1>0 DEF ToldBefore
  <2>3. CompletedWasDelivered'
    BY <1>a DEF Inv, Told, CompletedWasDelivered
  <2>4. inbox' \in 0..1
    OBVIOUS
  <2> QED BY <2>1, <2>2, <2>3, <2>4 DEF Told
<1> QED BY <1>2, <1>3, <1>4 DEF Inv

LEMMA AllowedStays ==
  ASSUME Inv
  PROVE  /\ Allowed \in {0, 1} /\ Allowed' \in {0, 1}
         /\ reminder' = reminder /\ (Held => Held') => Allowed' <= Allowed
         /\ reminder'.status # "scheduled" => Allowed' = 0
         /\ reminder'.state \notin {"pending", "retrying", "processing"} => Allowed' = 0
  BY DEF Allowed, Free, Scheduled, Processing

\* A step of a drain that leaves the row, and perhaps the drain, as they are.
LEMMA QuietStep ==
  ASSUME Inv, NEW d \in Drains, NEW q \in DrainType, drain' = [drain EXCEPT ![d] = q],
         UNCHANGED <<mode, due, deleted, reminder, alerts, faults>>,
         inbox' = inbox \/ inbox' = 1,
         drain[d].pc \in Delivering => q.pc \in Delivering,
         Owes(q) => Owes(drain[d]), ToldBefore(q)'
  PROVE  Inv'
<1>1. Allowed \in {0, 1} /\ Allowed' \in {0, 1} /\ Allowed' <= Allowed
  BY HeldMoves, AllowedStays
<1>2. Owed(q) <= Owed(drain[d]) /\ Owed(q) \in {0, 1} /\ Owed(drain[d]) \in {0, 1}
  BY DEF Owed
<1>3. alerts' + Allowed' + Owed(q) - faults' <= alerts + Allowed + Owed(drain[d]) - faults
  BY <1>1, <1>2, Types
<1>4. due' \in BOOLEAN /\ deleted' \in BOOLEAN /\ alerts' \in Nat /\ alerts' >= alerts
      /\ faults' \in 0..FaultBound /\ reminder' \in ReminderType
  BY Types DEF Inv, TypeOK
<1>5. inbox' \in {0, 1} /\ inbox' >= inbox
  BY Types
<1> QED BY <1>3, <1>4, <1>5, OneDrain

\* A step of a drain, which writes the row, but delivers nothing.
LEMMA RowStep ==
  ASSUME Inv, NEW d \in Drains, NEW q \in DrainType, drain' = [drain EXCEPT ![d] = q],
         UNCHANGED <<mode, due, deleted, inbox, alerts, faults>>,
         reminder' \in ReminderType,
         Allowed' + Owed(q) <= Allowed + Owed(drain[d]),
         reminder'.status = "completed" => reminder.status = "completed" \/ inbox + alerts > 0,
         ToldBefore(q)'
  PROVE  Inv'
<1>1. Allowed \in {0, 1} /\ Allowed' \in {0, 1}
  BY AllowedStays
<1>2. Owed(q) \in {0, 1} /\ Owed(drain[d]) \in {0, 1}
  BY DEF Owed
<1>3. alerts' + Allowed' + Owed(q) - faults' <= alerts + Allowed + Owed(drain[d]) - faults
  BY <1>1, <1>2, Types
<1>4. due' \in BOOLEAN /\ deleted' \in BOOLEAN /\ alerts' \in Nat /\ alerts' >= alerts
      /\ inbox' \in {0, 1} /\ inbox' >= inbox /\ faults' \in 0..FaultBound
  BY Types DEF Inv, TypeOK
<1> QED BY <1>3, <1>4, OneDrain

-----------------------------------------------------------------------------
(* The actions. *)

LEMMA SweepStep == ASSUME Inv, NEW d \in Drains, SweepDeleted(d) PROVE Inv'
<1>1. PICK q \in DrainType : drain' = [drain EXCEPT ![d] = q] /\ q.pc = "recover"
  BY Goes DEF SweepDeleted, PCs
<1>2. ~Owes(q) /\ ToldBefore(q)' /\ ~Owes(drain[d]) /\ drain[d].pc \notin Delivering
  BY <1>1 DEF SweepDeleted, Owes, ToldBefore, Delivering
<1>3. CASE UNCHANGED reminder
  BY <1>1, <1>2, <1>3, Types, QuietStep DEF SweepDeleted, worldVars, pushVars
<1>4. CASE CancelForDeletedSession
  <2>1. reminder' \in ReminderType /\ reminder'.status = "cancelled"
    BY <1>4, Types DEF CancelForDeletedSession, ReminderType, Statuses, NotificationStates
  <2>2. Allowed' + Owed(q) <= Allowed + Owed(drain[d])
    BY <1>2, <2>1, AllowedStays DEF Owed
  <2> QED BY <1>1, <1>2, <2>1, <2>2, RowStep DEF SweepDeleted, worldVars, pushVars
<1> QED BY <1>3, <1>4 DEF SweepDeleted

LEMMA RecoverStep == ASSUME Inv, NEW d \in Drains, RecoverStale(d) PROVE Inv'
<1>1. PICK q \in DrainType : drain' = [drain EXCEPT ![d] = q] /\ q.pc = "page"
  BY Goes DEF RecoverStale, PCs
<1>2. ~Owes(q) /\ ToldBefore(q)' /\ ~Owes(drain[d]) /\ drain[d].pc \notin Delivering
  BY <1>1 DEF RecoverStale, Owes, ToldBefore, Delivering
<1>3. CASE UNCHANGED reminder
  BY <1>1, <1>2, <1>3, Types, QuietStep DEF RecoverStale, worldVars, pushVars
<1>4. CASE /\ Scheduled /\ Processing /\ reminder.old
           /\ reminder' = [reminder EXCEPT !.state = RecoveredState, !.old = FALSE]
  <2>1. reminder' \in ReminderType /\ reminder'.status = reminder.status
    BY <1>4, Types DEF RecoveredState, ReminderType, Statuses, NotificationStates
  <2>2. Allowed = 1
    BY <1>4 DEF Allowed, Free
  <2>3. Allowed' + Owed(q) <= Allowed + Owed(drain[d])
    BY <1>2, <2>2, AllowedStays DEF Owed
  <2> QED BY <1>1, <1>2, <2>1, <2>3, RowStep DEF RecoverStale, worldVars, pushVars
<1> QED BY <1>3, <1>4 DEF RecoverStale

LEMMA PageStep == ASSUME Inv, NEW d \in Drains, ReadPage(d) PROVE Inv'
<1>1. PICK q \in DrainType : /\ drain' = [drain EXCEPT ![d] = q] /\ q.pc \in {"claim", "idle"}
                             /\ q.pc = "claim" => q.old = FALSE
  <2>1. CASE Leave(d)
    BY <2>1, Leaves
  <2>2. CASE drain' = [drain EXCEPT ![d] = [pc |-> "claim", attempts |-> reminder.attempts,
                                            old |-> FALSE]]
    <3>1. reminder.attempts \in 0..MaxAttempts
      BY Types DEF ReminderType
    <3>2. PICK q : q = [pc |-> "claim", attempts |-> reminder.attempts, old |-> FALSE]
      OBVIOUS
    <3>3. q \in DrainType /\ q.pc = "claim" /\ q.old = FALSE
      BY <3>1, <3>2 DEF DrainType, PCs
    <3>4. drain' = [drain EXCEPT ![d] = q]
      BY <2>2, <3>2
    <3> HIDE <3>2
    <3> QED BY <3>3, <3>4
  <2> QED BY <2>1, <2>2 DEF ReadPage
<1>2. ~Owes(q) /\ ToldBefore(q)' /\ drain[d].pc \notin Delivering
  BY <1>1 DEF ReadPage, Owes, ToldBefore, Delivering
<1> QED BY <1>1, <1>2, Types, QuietStep DEF ReadPage, worldVars, pushVars

\* A claim spends what the row allowed; one with a lease that is over brings its own debt.
LEMMA ClaimStep == ASSUME Inv, NEW d \in Drains, Claim(d) PROVE Inv'
<1>1. CASE Leave(d) /\ UNCHANGED reminder
  <2>1. PICK q \in DrainType : drain' = [drain EXCEPT ![d] = q] /\ q.pc = "idle"
    BY <1>1, Leaves
  <2>2. ~Owes(q) /\ ToldBefore(q)' /\ drain[d].pc \notin Delivering
    BY <2>1 DEF Claim, Owes, ToldBefore, Delivering
  <2> QED BY <1>1, <2>1, <2>2, Types, QuietStep DEF Claim, worldVars, pushVars
<1>2. CASE /\ Claimable
           /\ reminder' = [reminder EXCEPT !.state = "processing", !.attempts = @ + 1,
                                           !.old = drain[d].old]
           /\ Goto(d, IF mode = "apns" THEN "alert" ELSE "inbox")
  <2>1. PICK q \in DrainType : /\ drain' = [drain EXCEPT ![d] = q]
                               /\ q.pc = IF mode = "apns" THEN "alert" ELSE "inbox"
    BY <1>2, Goes DEF PCs
  <2>2. drain[d].old \in BOOLEAN /\ reminder.attempts \in 0..MaxAttempts
        /\ reminder.attempts < MaxAttempts
    BY <1>2, Types DEF DrainType, ReminderType, Claimable
  <2>3. reminder.attempts + 1 \in 0..MaxAttempts
    BY <2>2, BoundsAssumption
  <2>4. /\ reminder' \in ReminderType /\ reminder'.status = reminder.status
        /\ reminder'.state = "processing" /\ reminder'.old = drain[d].old
    BY <1>2, <2>2, <2>3, Types DEF ReminderType, NotificationStates
  <2>5. Owes(q) /\ ToldBefore(q)'
    BY <2>1 DEF Owes, ToldBefore, Claim, worldVars
  <2>6. Allowed = 1
    BY <1>2 DEF Claimable, Allowed, Free
  <2>7. Held'
    BY <2>1, HeldMoves DEF Delivering
  <2>8. Allowed' <= Owed(drain[d])
    BY <2>2, <2>4, <2>7 DEF Allowed, Free, Processing, Owed, Owes, Claim
  <2>9. Allowed' + Owed(q) <= Allowed + Owed(drain[d])
    BY <2>5, <2>6, <2>8, AllowedStays DEF Owed
  <2> QED BY <2>1, <2>4, <2>5, <2>9, RowStep DEF Claim, worldVars, pushVars
<1> QED BY <1>1, <1>2 DEF Claim

LEMMA Queued == ASSUME Inv PROVE Enqueued = 1 /\ Enqueued >= inbox
  BY Types DEF Enqueued

LEMMA InboxStep == ASSUME Inv, NEW d \in Drains, EnqueueInbox(d) PROVE Inv'
<1>1. PICK q \in DrainType : /\ drain' = [drain EXCEPT ![d] = q]
                             /\ q.pc = IF mode = "both" THEN "alert" ELSE "sent"
  BY Goes DEF EnqueueInbox, PCs
<1>2. inbox' = 1 /\ inbox' >= inbox /\ alerts \in Nat
  BY Queued, Types DEF EnqueueInbox
<1>3. ToldBefore(q)'
  BY <1>2 DEF ToldBefore, EnqueueInbox
<1>4. Owes(drain[d]) /\ q.pc \in Delivering
  BY <1>1 DEF Owes, EnqueueInbox, Delivering
<1> QED BY <1>1, <1>2, <1>3, <1>4, QuietStep DEF EnqueueInbox, worldVars

LEMMA FallbackStep == ASSUME Inv, NEW d \in Drains, EnqueueFallback(d) PROVE Inv'
<1>1. PICK q \in DrainType : drain' = [drain EXCEPT ![d] = q] /\ q.pc = "sent"
  BY Goes DEF EnqueueFallback, PCs
<1>2. inbox' = 1 /\ inbox' >= inbox /\ alerts \in Nat
  BY Queued, Types DEF EnqueueFallback
<1>3. ToldBefore(q)'
  BY <1>1, <1>2 DEF ToldBefore, EnqueueFallback
<1>4. ~Owes(q) /\ q.pc \in Delivering
  BY <1>1 DEF Owes, Delivering
<1> QED BY <1>1, <1>2, <1>3, <1>4, QuietStep DEF EnqueueFallback, worldVars

\* The alert the drain owed is sent, or is not.
LEMMA AlertStep == ASSUME Inv, NEW d \in Drains, SendAlert(d) PROVE Inv'
<1>0. mode \in {"dev", "apns", "both"} /\ drain[d].pc = "alert"
      /\ UNCHANGED <<reminder, inbox, faults, mode, due, deleted>>
  BY ModesAssumption DEF Inv, TypeOK, SendAlert, worldVars
<1>1. PICK q \in DrainType : /\ drain' = [drain EXCEPT ![d] = q]
                             /\ q.pc = "sent" \/ (q.pc = "fallback" /\ mode = "apns")
                             /\ q.pc = "sent" /\ mode = "apns" => alerts' = alerts + 1
  <2>1. CASE alerts' = alerts + 1 /\ Goto(d, "sent")
    BY <2>1, Goes DEF PCs
  <2>2. CASE alerts' \in {alerts, alerts + 1} /\ Goto(d, AfterUnsent)
    <3>1. CASE mode = "apns"
      BY <2>2, <3>1, Goes DEF AfterUnsent, PCs
    <3>2. CASE mode # "apns"
      BY <2>2, <3>2, Goes DEF AfterUnsent, PCs
    <3> QED BY <3>1, <3>2
  <2> QED BY <2>1, <2>2 DEF SendAlert
<1>2. alerts' \in {alerts, alerts + 1} /\ alerts' \in Nat /\ alerts' >= alerts
  BY Types DEF SendAlert
<1>3. ToldBefore(q)'
  <2>1. inbox = 1 \/ mode = "apns"
    BY <1>0, Types DEF ToldBefore
  <2>2. q.pc = "sent" => inbox' + alerts' > 0
    BY <1>0, <1>1, <1>2, <2>1, Types
  <2> QED BY <1>1, <2>2 DEF ToldBefore
<1>4. Owed(drain[d]) = 1 /\ Owed(q) = 0 /\ q.pc \in Delivering
  BY <1>0, <1>1 DEF Owed, Owes, Delivering
<1>5. Allowed' <= Allowed /\ Allowed \in {0, 1} /\ Allowed' \in {0, 1}
  BY <1>0, <1>1, <1>4, HeldMoves, AllowedStays
<1>6. alerts' + Allowed' + Owed(q) - faults' <= alerts + Allowed + Owed(drain[d]) - faults
  BY <1>0, <1>2, <1>4, <1>5, Types
<1>7. due' \in BOOLEAN /\ deleted' \in BOOLEAN /\ faults' \in 0..FaultBound
      /\ reminder' \in ReminderType /\ inbox' \in {0, 1} /\ inbox' >= inbox
  BY <1>0, Types DEF Inv, TypeOK
<1> QED BY <1>0, <1>1, <1>2, <1>3, <1>6, <1>7, OneDrain

LEMMA FinishSentStep == ASSUME Inv, NEW d \in Drains, FinishSent(d) PROVE Inv'
<1>1. PICK q \in DrainType : drain' = [drain EXCEPT ![d] = q] /\ q.pc = "idle"
  BY Leaves DEF FinishSent
<1>2. Owed(q) = 0 /\ ToldBefore(q)' /\ Owed(drain[d]) = 0 /\ inbox + alerts > 0
  BY <1>1, Types DEF FinishSent, Owed, Owes, ToldBefore
<1>3. /\ reminder' \in ReminderType
      /\ Finishable => reminder'.status = "completed"
      /\ ~Finishable => reminder' = reminder
  BY Types DEF FinishSent, ReminderType, Statuses, NotificationStates
<1>4. Allowed' <= Allowed
  <2>1. CASE Finishable
    BY <1>3, <2>1, AllowedStays
  <2>2. CASE ~Finishable
    BY <1>3, <2>2 DEF Allowed, Free, Finishable, Scheduled, Processing
  <2> QED BY <2>1, <2>2
<1>5. Allowed' + Owed(q) <= Allowed + Owed(drain[d])
  BY <1>2, <1>4, AllowedStays
<1> QED BY <1>1, <1>2, <1>3, <1>5, RowStep DEF FinishSent, worldVars, pushVars

\* A drain that could not deliver gives the claim back: what it owed, the row allows.
LEMMA FinishErrorStep == ASSUME Inv, NEW d \in Drains, FinishError(d) PROVE Inv'
<1>1. PICK q \in DrainType : drain' = [drain EXCEPT ![d] = q] /\ q.pc = "idle"
  BY Leaves DEF FinishError
<1>2. Owed(q) = 0 /\ ToldBefore(q)' /\ Owed(drain[d]) = 1
  BY <1>1 DEF FinishError, Owed, Owes, ToldBefore
<1>3. /\ reminder' \in ReminderType /\ reminder'.status = reminder.status
      /\ ~Finishable => reminder' = reminder
  <2>1. CASE Finishable
    <3>1. PICK s \in {"failed", "retrying"} :
            reminder' = [reminder EXCEPT !.old = FALSE, !.state = s]
      BY <2>1 DEF FinishError
    <3> QED BY <2>1, <3>1, Types DEF ReminderType, NotificationStates
  <2>2. CASE ~Finishable
    BY <2>2, Types DEF FinishError
  <2> QED BY <2>1, <2>2
<1>4. Allowed' + Owed(q) <= Allowed + Owed(drain[d])
  BY <1>2, AllowedStays
<1> QED BY <1>1, <1>2, <1>3, <1>4, RowStep DEF FinishError, worldVars, pushVars

\* A fault pays for what the drain then owes, or for the claim it leaves to nobody.
LEMMA FaultyDrainStep ==
  ASSUME Inv, NEW d \in Drains, DeliveryFails(d) \/ Crash(d) \/ PageAges(d)
  PROVE  Inv'
<1>1. PICK q \in DrainType : /\ drain' = [drain EXCEPT ![d] = q] /\ ToldBefore(q)'
                             /\ \/ drain[d].pc \in Delivering /\ q.pc = "error"
                                \/ drain[d].pc = "claim" /\ q.pc = "claim"
                                \/ q.pc = "idle"
  <2>1. CASE DeliveryFails(d)
    <3>1. PICK q \in DrainType : drain' = [drain EXCEPT ![d] = q] /\ q.pc = "error"
      BY <2>1, Goes DEF DeliveryFails, PCs
    <3> QED BY <2>1, <3>1 DEF DeliveryFails, Delivering, ToldBefore
  <2>2. CASE Crash(d)
    BY <2>2, Leaves DEF Crash, ToldBefore
  <2>3. CASE PageAges(d)
    <3>1. PICK q : q = [drain[d] EXCEPT !.old = TRUE]
      OBVIOUS
    <3>2. q \in DrainType /\ q.pc = drain[d].pc
      BY <3>1, Types DEF DrainType
    <3>3. drain' = [drain EXCEPT ![d] = q] /\ drain[d].pc = "claim"
      BY <2>3, <3>1 DEF PageAges
    <3> QED BY <3>2, <3>3 DEF ToldBefore
  <2> QED BY <2>1, <2>2, <2>3
<1>2. /\ faults' = faults + 1 /\ faults' \in 0..FaultBound
      /\ UNCHANGED <<mode, due, deleted, reminder, inbox, alerts>>
  BY Types, BoundsAssumption DEF DeliveryFails, Crash, PageAges, Fault, worldVars, pushVars
<1>3. Allowed' + Owed(q) <= Allowed + Owed(drain[d]) + 1
  <2>1. /\ Allowed \in {0, 1} /\ Allowed' \in {0, 1}
        /\ Owed(q) \in {0, 1} /\ Owed(drain[d]) \in {0, 1}
    BY AllowedStays DEF Owed
  <2>2. CASE q.pc = "idle"
    <3>1. Owed(q) = 0
      BY <2>2 DEF Owed, Owes
    <3> QED BY <2>1, <3>1
  <2>3. CASE q.pc # "idle"
    <3>1. Allowed' <= Allowed
      BY <1>1, <1>2, <2>3, HeldMoves, AllowedStays DEF Delivering
    <3> QED BY <2>1, <3>1
  <2> QED BY <2>2, <2>3
<1>4. alerts' + Allowed' + Owed(q) - faults' <= alerts + Allowed + Owed(drain[d]) - faults
  <2>1. /\ Allowed \in {0, 1} /\ Allowed' \in {0, 1}
        /\ Owed(q) \in {0, 1} /\ Owed(drain[d]) \in {0, 1}
    BY AllowedStays DEF Owed
  <2> QED BY <1>2, <1>3, <2>1, Types
<1>5. due' \in BOOLEAN /\ deleted' \in BOOLEAN /\ alerts' \in Nat /\ alerts' >= alerts
      /\ inbox' \in {0, 1} /\ inbox' >= inbox /\ reminder' \in ReminderType
  BY <1>2, Types DEF Inv, TypeOK
<1> QED BY <1>1, <1>2, <1>4, <1>5, OneDrain

\* The row is written, or time passes, and no drain moves.
LEMMA OutsideStep ==
  ASSUME Inv, ClaimAges \/ Stall \/ BecomesDue \/ Undo \/ DeleteSession
  PROVE  Inv'
<1>0. UNCHANGED <<mode, drain, inbox, alerts>> /\ due' \in BOOLEAN /\ deleted' \in BOOLEAN
  BY DEF Inv, TypeOK, ClaimAges, Stall, BecomesDue, Undo, DeleteSession, worldVars, pushVars
<1>1. /\ reminder' \in ReminderType
      /\ reminder'.status \in {reminder.status, "cancelled"}
      /\ BecomesDue => reminder' = reminder
      /\ DeleteSession => reminder' = reminder \/ reminder'.status = "cancelled"
      /\ Undo => reminder'.status = "cancelled"
  BY Types DEF ClaimAges, Stall, BecomesDue, Undo, DeleteSession, CancelForDeletedSession,
               ReminderType, Statuses, NotificationStates
<1>2. faults' \in 0..FaultBound /\ faults' >= faults /\ (Stall => faults' = faults + 1)
  BY Types, BoundsAssumption DEF ClaimAges, Stall, BecomesDue, Undo, DeleteSession, Fault
<1>3. Allowed' + faults <= Allowed + faults'
  <2>0. Allowed \in {0, 1} /\ Allowed' \in {0, 1} /\ faults' \in Nat /\ faults \in Nat
    BY <1>2, Types, AllowedStays, BoundsAssumption
  <2>a. ASSUME NEW i \in {0, 1}, NEW j \in {0, 1}, NEW m \in Nat, NEW n \in Nat,
               n >= m, i <= j \/ n = m + 1
        PROVE  i + m <= j + n
    BY <2>a
  <2>1. Held' = Held
    BY <1>0 DEF Held
  <2>2. CASE ClaimAges
    <3>1. Scheduled => Allowed = 1
      BY <2>2 DEF ClaimAges, Allowed, Free
    <3>2. reminder'.status = reminder.status
      BY <2>2, Types DEF ClaimAges, ReminderType
    <3>3. Allowed' <= Allowed
      BY <2>0, <3>1, <3>2 DEF Allowed, Free, Scheduled
    <3> QED BY <1>2, <2>0, <2>a, <3>3
  <2>3. CASE Stall
    BY <1>2, <2>0, <2>a, <2>3
  <2>4. CASE BecomesDue \/ Undo \/ DeleteSession
    <3>1. Allowed' <= Allowed
      BY <1>1, <2>0, <2>1, <2>4, AllowedStays
    <3> QED BY <1>2, <2>0, <2>a, <3>1
  <2> QED BY <2>2, <2>3, <2>4
<1>4. Debtors' = Debtors
  BY <1>0 DEF Debtors
<1>5. Account'
  <2> PICK c \in Nat : c = Cardinality(Debtors)
    BY Types
  <2>1. alerts + Allowed + c <= 1 + faults /\ alerts \in Nat /\ faults \in Nat /\ faults' \in Nat
        /\ Allowed \in {0, 1} /\ Allowed' \in {0, 1}
    BY <1>2, Types, AllowedStays, BoundsAssumption DEF Inv, Account
  <2>a. ASSUME NEW a \in Nat, NEW i \in {0, 1}, NEW j \in {0, 1}, NEW m \in Nat, NEW n \in Nat,
               a + i + c <= 1 + m, j + m <= i + n
        PROVE  a + j + c <= 1 + n
    BY <2>a
  <2>2. alerts + Allowed' + c <= 1 + faults'
    BY <1>3, <2>1, <2>a
  <2> QED BY <1>0, <1>4, <2>2, Types DEF Account
<1>6. TypeOK' /\ Told'
  BY <1>0, <1>1, <1>2 DEF Inv, TypeOK, ReminderType, Told, ToldBefore, CompletedWasDelivered
<1> QED BY <1>5, <1>6 DEF Inv

LEMMA InvStep == ASSUME Inv, [Next]_vars PROVE Inv'
<1>1. ASSUME NEW d \in Drains, DrainStep(d) PROVE Inv'
  BY <1>1, SweepStep, RecoverStep, PageStep, ClaimStep, InboxStep, AlertStep, FallbackStep,
     FinishSentStep, FinishErrorStep DEF DrainStep
<1>2. ASSUME NEW d \in Drains, DeliveryFails(d) \/ Crash(d) \/ PageAges(d) PROVE Inv'
  BY <1>2, FaultyDrainStep
<1>3. CASE UNCHANGED vars
  BY <1>3 DEF vars, Inv, TypeOK, Account, Debtors, Allowed, Free, Scheduled, Processing, Held,
              Told, ToldBefore, CompletedWasDelivered
<1> QED BY <1>1, <1>2, <1>3, OutsideStep DEF Next

LEMMA Invariance == Spec => []Inv
<1>1. Init => Inv
  BY InvInit
<1>2. Inv /\ [Next]_vars => Inv'
  BY InvStep
<1> QED BY <1>1, <1>2, PTL DEF Spec

-----------------------------------------------------------------------------
(* What the runs check, for every value of the constants. *)

\* A completed reminder was told, the inbox has it once, and each alert beyond the first
\* took a crash, a stall or a failed call of its own, however many drains overlap.
THEOREM DeliveredOnceCorrect == Spec => []DeliveredOnce
<1>1. Inv => DeliveredOnce
  <2> SUFFICES ASSUME Inv PROVE DeliveredOnce
    OBVIOUS
  <2> PICK c \in Nat : c = Cardinality(Debtors)
    BY Types
  <2>1. alerts + Allowed + c <= 1 + faults
    BY DEF Inv, Account
  <2>2. alerts <= 1 + faults /\ inbox <= 1
    BY <2>1, Types
  <2> QED BY <2>2 DEF Inv, Told, DeliveredOnce, DuplicateNeedsFault
<1> QED BY <1>1, Invariance, PTL

\* Neither a late completion, nor a recovery, nor an undo changes what has become of a
\* reminder: cancelled stays cancelled, completed stays completed.
THEOREM StatusIsFinalCorrect == Spec => StatusIsFinal
<1>1. Inv /\ [Next]_vars => (reminder.status # "scheduled" => reminder'.status = reminder.status)
  <2> SUFFICES ASSUME Inv, [Next]_vars, ~Scheduled PROVE reminder'.status = reminder.status
    BY DEF Scheduled
  <2>1. reminder \in ReminderType
    BY Types
  <2>2. ASSUME NEW d \in Drains, DrainStep(d) PROVE reminder' = reminder
    BY <2>2 DEF DrainStep, SweepDeleted, Orphaned, RecoverStale, ReadPage, Claim, Claimable,
                EnqueueInbox, SendAlert, EnqueueFallback, FinishSent, FinishError, Finishable
  <2>3. ASSUME NEW d \in Drains, DeliveryFails(d) \/ Crash(d) \/ PageAges(d)
        PROVE reminder' = reminder
    BY <2>3 DEF DeliveryFails, Crash, PageAges
  <2>4. CASE ClaimAges \/ Stall
    BY <2>1, <2>4 DEF ClaimAges, Stall, ReminderType
  <2>5. CASE BecomesDue \/ Undo \/ DeleteSession
    BY <2>5 DEF BecomesDue, Undo, Undoable, DeleteSession
  <2> QED BY <2>2, <2>3, <2>4, <2>5 DEF Next, vars
<1> QED BY <1>1, Invariance, PTL DEF Spec, StatusIsFinal

===============================================================================
