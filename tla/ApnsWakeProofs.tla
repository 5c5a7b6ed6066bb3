--------------------------- MODULE ApnsWakeProofs ---------------------------
(***************************************************************************)
(* Proofs about ApnsWake: it keeps its types and the inductive invariant   *)
(* WakeInv, and it implements WakeOnce.                                    *)
(***************************************************************************)
EXTENDS ApnsWake, TLAPS

WorkerType ==
  [pc : PCs, claim : Nat, attempts : Nat, to : Recorded, both : BOOLEAN]

\* What a failure makes of a row is one of three states.
LEMMA TransitionState ==
  ASSUME NEW f, NEW n
  PROVE  /\ f = "unknown" => WakeFailureTransition(f, n) = "unknown"
         /\ f # "unknown" => WakeFailureTransition(f, n) \in {"retrying", "failed"}
BY DEF WakeFailureTransition

\* The ways in which the record of a worker is changed keep its type.
LEMMA WorkerTyped ==
  ASSUME TypeOK, NEW w \in Workers
  PROVE  /\ Leave(w) => worker' \in [Workers -> WorkerType]
         /\ \A pc \in PCs : Goto(w, pc) => worker' \in [Workers -> WorkerType]
         /\ \A s \in Recorded, b \in BOOLEAN :
              Record(w, s, b) => worker' \in [Workers -> WorkerType]
         /\ \A f \in {"permanent", "retryable", "unknown"}, b \in BOOLEAN :
              Fails(w, f, b) => worker' \in [Workers -> WorkerType]
<1>1. worker \in [Workers -> WorkerType]
  BY DEF TypeOK, WorkerType
<1>2. Idle \in WorkerType
  BY DEF Idle, WorkerType, PCs, Recorded
<1>3. Leave(w) => worker' \in [Workers -> WorkerType]
  BY <1>1, <1>2 DEF Leave
<1>4. \A pc \in PCs : Goto(w, pc) => worker' \in [Workers -> WorkerType]
  BY <1>1 DEF Goto, WorkerType
<1>5. ASSUME NEW s \in Recorded, NEW b \in BOOLEAN, Record(w, s, b)
      PROVE  worker' \in [Workers -> WorkerType]
  <2> DEFINE r == [worker[w] EXCEPT !.pc = "settle", !.to = s, !.both = b]
  <2>1. r \in WorkerType
    BY <1>1 DEF WorkerType, PCs
  <2>2. worker' = [worker EXCEPT ![w] = r]
    BY <1>5 DEF Record
  <2> QED BY <1>1, <2>1, <2>2
<1>6. ASSUME NEW f \in {"permanent", "retryable", "unknown"}, NEW b \in BOOLEAN, Fails(w, f, b)
      PROVE  worker' \in [Workers -> WorkerType]
  <2>1. WakeFailureTransition(f, worker[w].attempts) \in Recorded
    BY TransitionState DEF Recorded, Final
  <2> QED BY <1>1, <1>6, <2>1 DEF Fails, WorkerType, PCs
<1> QED BY <1>3, <1>4, <1>5, <1>6

\* A settlement keeps the types of the rows.
LEMMA SettledTyped ==
  ASSUME TypeOK, NEW w \in Workers, Settled(w) \/ UNCHANGED <<row, attempt>>
  PROVE  /\ row' \in [state : RowStates, claims : Nat, live : BOOLEAN, due : BOOLEAN]
         /\ attempt' \in AttemptStates
<1>1. worker[w].to \in Recorded
  BY DEF TypeOK
<1> QED BY <1>1 DEF TypeOK, Settled, Release, RowStates, AttemptStates

\* A claim keeps the types of the row and of the worker.
LEMMA ClaimTyped ==
  ASSUME TypeOK, NEW w \in Workers, Claim(w)
  PROVE  /\ worker' \in [Workers -> WorkerType]
         /\ row' \in [state : RowStates, claims : Nat, live : BOOLEAN, due : BOOLEAN]
<1>1. worker \in [Workers -> WorkerType] /\ Idle \in WorkerType /\ "preflight" \in PCs
  BY DEF TypeOK, WorkerType, Idle, PCs, Recorded
<1>2. row.claims + 1 \in Nat /\ worker[w].attempts + 1 \in Nat
  BY DEF TypeOK
<1>3. CASE ~Due
  BY <1>1, <1>3 DEF Claim, Leave, TypeOK
<1>4. CASE Due
  <2> DEFINE r == [worker[w] EXCEPT !.pc = "preflight", !.claim = row.claims + 1,
                                    !.attempts = worker[w].attempts + 1]
  <2>1. r \in WorkerType
    BY <1>1, <1>2 DEF WorkerType
  <2>2. worker' = [worker EXCEPT ![w] = r]
    BY <1>4 DEF Claim
  <2>3. worker' \in [Workers -> WorkerType]
    BY <1>1, <2>1, <2>2
  <2>4. row' = [state |-> "running", claims |-> row.claims + 1, live |-> TRUE, due |-> FALSE]
    BY <1>4 DEF Claim
  <2>5. row' \in [state : RowStates, claims : Nat, live : BOOLEAN, due : BOOLEAN]
    BY <1>2, <2>4 DEF RowStates, Recorded
  <2> QED BY <2>3, <2>5
<1> QED BY <1>3, <1>4

\* The page a worker selects from keeps the type of the worker.
LEMMA SelectTyped ==
  ASSUME TypeOK, NEW w \in Workers, Select(w)
  PROVE  worker' \in [Workers -> WorkerType]
<1> DEFINE r == [worker[w] EXCEPT !.pc = "page", !.attempts = row.claims]
<1>1. worker \in [Workers -> WorkerType] /\ row.claims \in Nat
  BY DEF TypeOK, WorkerType
<1>2. r \in WorkerType
  BY <1>1 DEF WorkerType, PCs
<1>3. worker' = [worker EXCEPT ![w] = r]
  BY DEF Select
<1> QED BY <1>1, <1>2, <1>3

\* A step of a worker, a fault or the passing of time keeps the types.
LEMMA NextTyped == TypeOK /\ [Next]_vars => TypeOK'
<1> SUFFICES ASSUME TypeOK, [Next]_vars PROVE TypeOK'
  OBVIOUS
<1>1. ASSUME NEW w \in Workers, WorkerStep(w) \/ WorkerFault(w) PROVE TypeOK'
  <2>s. Select(w) => worker' \in [Workers -> WorkerType]
    BY SelectTyped
  <2>p. Preflight(w) => worker' \in [Workers -> WorkerType]
    <3>1. "succeeded" \in Recorded /\ "acquire" \in PCs
      BY DEF Recorded, Final, PCs
    <3> QED BY <3>1, WorkerTyped DEF Preflight
  <2> USE DEF TypeOK, WorkerType, Recorded, RowStates, AttemptStates, Final, PCs
  <2>1. worker[w] \in WorkerType /\ worker[w].both \in BOOLEAN
    OBVIOUS
  <2>2. CASE RecoverRead(w)
    <3>1. ExpiredTo \in Recorded
      BY DEF ExpiredTo
    <3> QED BY <2>2, <3>1 DEF RecoverRead
  <2>3. CASE RecoverApply(w)
    BY <2>1, <2>3, WorkerTyped DEF RecoverApply, Release
  <2>4. CASE Select(w)
    BY <2>4, <2>s DEF Select
  <2>5. CASE Claim(w)
    BY <2>5, ClaimTyped DEF Claim
  <2>6. CASE Preflight(w)
    BY <2>6, <2>p DEF Preflight
  <2>7. CASE PreflightRefuses(w)
    BY <2>7, WorkerTyped DEF PreflightRefuses
  <2>8. CASE Acquire(w)
    BY <2>8, WorkerTyped DEF Acquire
  <2>9. CASE ReadUnpermitted(w)
    BY <2>9, WorkerTyped DEF ReadUnpermitted
  <2>10. CASE Send(w)
    BY <2>10, WorkerTyped DEF Send
  <2>11. CASE Answer(w)
    BY <2>11, WorkerTyped DEF Answer
  <2>12. CASE Refused(w)
    BY <2>12, WorkerTyped DEF Refused
  <2>13. CASE Settle(w)
    BY <2>13, WorkerTyped, SettledTyped DEF Settle
  <2>14. CASE AcquireFails(w)
    <3>1. faults' \in Nat
      BY <2>14 DEF AcquireFails, Fault
    <3>2. worker' \in [Workers -> WorkerType]
      BY <2>14, WorkerTyped DEF AcquireFails
    <3> QED BY <2>14, <3>1, <3>2 DEF AcquireFails
  <2>15. CASE TryLater(w)
    <3>1. faults' \in Nat
      BY <2>15 DEF TryLater, Fault
    <3>2. worker' \in [Workers -> WorkerType]
      BY <2>15, WorkerTyped DEF TryLater
    <3> QED BY <2>15, <3>1, <3>2 DEF TryLater
  <2>16. CASE AnswerLost(w)
    <3>1. faults' \in Nat
      BY <2>16 DEF AnswerLost, Fault
    <3>2. worker' \in [Workers -> WorkerType]
      BY <2>16, WorkerTyped DEF AnswerLost
    <3> QED BY <2>16, <3>1, <3>2 DEF AnswerLost
  <2>17. CASE SettleFails(w)
    <3>1. faults' \in Nat
      BY <2>17 DEF SettleFails, Fault
    <3>2. worker' \in [Workers -> WorkerType]
      BY <2>17, WorkerTyped DEF SettleFails
    <3> QED BY <2>17, <3>1, <3>2, SettledTyped DEF SettleFails
  <2>18. CASE Crash(w)
    <3>1. faults' \in Nat
      BY <2>18 DEF Crash, Fault
    <3>2. worker' \in [Workers -> WorkerType]
      BY <2>18, WorkerTyped DEF Crash
    <3> QED BY <2>18, <3>1, <3>2 DEF Crash
  <2> QED
    BY <1>1, <2>2, <2>3, <2>4, <2>5, <2>6, <2>7, <2>8, <2>9, <2>10, <2>11, <2>12, <2>13,
       <2>14, <2>15, <2>16, <2>17, <2>18 DEF WorkerStep, WorkerFault
<1>2. CASE LeaseExpires
  BY <1>2 DEF TypeOK, LeaseExpires
<1>3. CASE Stall
  <2>1. faults' \in Nat
    BY <1>3 DEF TypeOK, Stall, Fault
  <2> QED BY <1>3, <2>1 DEF TypeOK, Stall
<1>4. CASE BecomesDue
  BY <1>4 DEF TypeOK, BecomesDue
<1>5. CASE UNCHANGED vars
  BY <1>5 DEF TypeOK, vars
<1> QED BY <1>1, <1>2, <1>3, <1>4, <1>5 DEF Next

LEMMA InitTyped == Init => TypeOK
BY DEF Init, TypeOK, Idle, Recorded, RowStates, AttemptStates, Final, PCs

-----------------------------------------------------------------------------
(* The inductive invariant, one worker at a time. *)

PermitOf(w) ==
  Permitted(w) =>
    /\ worker[w].claim = row.claims /\ mode # "dev"
    /\ \/ row.state = "running" /\ attempt = "running"
       \/ row.state = "unknown"
       \/ row.state = "succeeded" /\ worker[w].pc = "fail"

KnowledgeOf(w) ==
  /\ worker[w].pc = "acquire" => mode # "dev"
  /\ worker[w].pc = "send" => woken = 0
  /\ worker[w].pc = "answer" => woken = 1
  /\ worker[w].pc = "settle" /\ worker[w].both =>
       \/ worker[w].to = "unknown"
       \/ worker[w].to = "succeeded" /\ woken = 1
  /\ worker[w].pc = "fail" =>
       \/ worker[w].to = "unknown" /\ worker[w].both
       \/ worker[w].to \in {"failed", "retrying"} /\ (worker[w].both => woken = 0)
  /\ /\ worker[w].pc \in Holding /\ ~Permitted(w)
     /\ row.state = "running" /\ worker[w].claim = row.claims
     => /\ woken = 0
        /\ worker[w].pc = "settle" /\ ~worker[w].both =>
             worker[w].to = "succeeded" /\ mode = "dev"

RecoveryOf(w) ==
  worker[w].pc = "recover" /\ row.state = "running" /\ row.claims = worker[w].claim =>
    /\ ~row.live
    /\ worker[w].to = ExpiredTo /\ (worker[w].both <=> ExpiredTo = "unknown")

Good(w) == PermitOf(w) /\ KnowledgeOf(w) /\ RecoveryOf(w)

LEMMA WakeInvParts ==
  WakeInv <=> /\ TypeOK /\ ClaimsAreDistinct /\ AttemptIsRecorded /\ WokenIsRecorded
              /\ \A w \in Workers : Good(w)
BY DEF WakeInv, PermitIsLast, WorkersKnow, RecoveryIsCurrent, Good, PermitOf,
       KnowledgeOf, RecoveryOf

LEMMA WakeInvPartsNext ==
  WakeInv' <=> /\ TypeOK' /\ ClaimsAreDistinct' /\ AttemptIsRecorded' /\ WokenIsRecorded'
               /\ \A w \in Workers : Good(w)'
BY DEF WakeInv, PermitIsLast, WorkersKnow, RecoveryIsCurrent, Good, PermitOf,
       KnowledgeOf, RecoveryOf

\* The workers other than w stay as they are.
Only(w) == \A v \in Workers : v # w => worker'[v] = worker[v]

\* What each way of changing the record of a worker does.
LEMMA Moves ==
  ASSUME TypeOK, NEW w \in Workers
  PROVE  /\ Leave(w) => Only(w) /\ worker'[w] = Idle
         /\ \A pc \in PCs : Goto(w, pc) =>
              /\ Only(w) /\ worker'[w].pc = pc /\ worker'[w].claim = worker[w].claim
              /\ worker'[w].to = worker[w].to /\ worker'[w].both = worker[w].both
         /\ \A s \in Recorded, b \in BOOLEAN : Record(w, s, b) =>
              /\ Only(w) /\ worker'[w].pc = "settle" /\ worker'[w].claim = worker[w].claim
              /\ worker'[w].to = s /\ worker'[w].both = b
         /\ \A f \in {"permanent", "retryable", "unknown"}, b \in BOOLEAN : Fails(w, f, b) =>
              /\ Only(w) /\ worker'[w].pc = "fail" /\ worker'[w].claim = worker[w].claim
              /\ worker'[w].both = b
              /\ f = "unknown" => worker'[w].to = "unknown"
              /\ f # "unknown" => worker'[w].to \in {"retrying", "failed"}
<1>1. worker \in [Workers -> WorkerType]
  BY DEF TypeOK, WorkerType
<1>2. Leave(w) => Only(w) /\ worker'[w] = Idle
  BY <1>1 DEF Leave, Only
<1>3. ASSUME NEW pc \in PCs, Goto(w, pc)
      PROVE  /\ Only(w) /\ worker'[w].pc = pc /\ worker'[w].claim = worker[w].claim
             /\ worker'[w].to = worker[w].to /\ worker'[w].both = worker[w].both
  BY <1>1, <1>3 DEF Goto, Only, WorkerType
<1>4. ASSUME NEW s \in Recorded, NEW b \in BOOLEAN, Record(w, s, b)
      PROVE  /\ Only(w) /\ worker'[w].pc = "settle" /\ worker'[w].claim = worker[w].claim
             /\ worker'[w].to = s /\ worker'[w].both = b
  BY <1>1, <1>4 DEF Record, Only, WorkerType
<1>5. ASSUME NEW f \in {"permanent", "retryable", "unknown"}, NEW b \in BOOLEAN, Fails(w, f, b)
      PROVE  /\ Only(w) /\ worker'[w].pc = "fail" /\ worker'[w].claim = worker[w].claim
             /\ worker'[w].both = b
             /\ f = "unknown" => worker'[w].to = "unknown"
             /\ f # "unknown" => worker'[w].to \in {"retrying", "failed"}
  <2>1. worker'[w].to = WakeFailureTransition(f, worker[w].attempts)
    BY <1>1, <1>5 DEF Fails, WorkerType
  <2>2. /\ Only(w) /\ worker'[w].pc = "fail" /\ worker'[w].claim = worker[w].claim
        /\ worker'[w].both = b
    BY <1>1, <1>5 DEF Fails, Only, WorkerType
  <2> QED BY <2>1, <2>2, TransitionState
<1> QED BY <1>2, <1>3, <1>4, <1>5

-----------------------------------------------------------------------------
(* Steps that change one worker and nothing else. *)

LEMMA WorkerOnly ==
  ASSUME WakeInv, TypeOK', NEW w \in Workers, Only(w), Good(w)',
         UNCHANGED <<mode, row, attempt, woken>>,
         worker'[w].claim <= row.claims,
         worker'[w].pc \in Holding =>
           worker[w].pc \in Holding /\ worker'[w].claim = worker[w].claim
  PROVE  WakeInv'
<1>1. /\ TypeOK /\ ClaimsAreDistinct /\ AttemptIsRecorded /\ WokenIsRecorded
      /\ \A v \in Workers : Good(v)
  BY WakeInvParts
<1>2. ClaimsAreDistinct'
  BY <1>1 DEF ClaimsAreDistinct, Only
<1>3. AttemptIsRecorded' /\ WokenIsRecorded'
  BY <1>1 DEF AttemptIsRecorded, WokenIsRecorded
<1>4. ASSUME NEW v \in Workers, v # w PROVE Good(v)'
  <2>1. worker'[v] = worker[v] /\ Good(v)
    BY <1>1, <1>4 DEF Only
  <2> QED BY <2>1 DEF Good, PermitOf, KnowledgeOf, RecoveryOf, Permitted, Expired, ExpiredTo
<1> QED BY <1>1, <1>2, <1>3, <1>4, WakeInvPartsNext

\* A worker that is not at work satisfies its part of the invariant.
LEMMA OffDuty ==
  ASSUME NEW w \in Workers, TypeOK', worker'[w].pc \in {"idle", "page"}
  PROVE  Good(w)'
BY DEF Good, PermitOf, KnowledgeOf, RecoveryOf, Permitted, Holding

LEMMA LeaveKeeps ==
  ASSUME WakeInv, TypeOK', NEW w \in Workers, Leave(w),
         UNCHANGED <<mode, row, attempt, woken>>
  PROVE  WakeInv'
<1>1. TypeOK
  BY DEF WakeInv
<1>2. Only(w) /\ worker'[w] = Idle
  BY <1>1, Moves
<1>3. worker'[w].pc = "idle" /\ worker'[w].claim = 0 /\ row.claims \in Nat
  BY <1>1, <1>2 DEF Idle, TypeOK
<1> QED BY <1>2, <1>3, OffDuty, WorkerOnly DEF Holding

LEMMA PageKeeps ==
  ASSUME WakeInv, TypeOK', NEW w \in Workers, Select(w)
  PROVE  WakeInv'
<1>1. TypeOK /\ worker \in [Workers -> WorkerType] /\ worker[w].claim <= row.claims
  BY DEF WakeInv, TypeOK, ClaimsAreDistinct, WorkerType
<1>2. /\ Only(w) /\ worker'[w].pc = "page" /\ worker'[w].claim = worker[w].claim
  BY <1>1 DEF Select, Only, WorkerType
<1> QED BY <1>1, <1>2, OffDuty, WorkerOnly DEF Select, Holding

LEMMA RecoverReadKeeps ==
  ASSUME WakeInv, TypeOK', NEW w \in Workers, RecoverRead(w)
  PROVE  WakeInv'
<1>1. TypeOK /\ worker \in [Workers -> WorkerType] /\ row.claims \in Nat
  BY DEF WakeInv, TypeOK, WorkerType
<1>2. /\ Only(w) /\ worker'[w].pc = "recover" /\ worker'[w].claim = row.claims
      /\ worker'[w].to = ExpiredTo /\ worker'[w].both = (ExpiredTo = "unknown")
      /\ ~row.live
  BY <1>1 DEF RecoverRead, Only
<1>3. UNCHANGED <<mode, row, attempt, woken>>
  BY DEF RecoverRead
<1>4. Good(w)'
  BY <1>2, <1>3 DEF Good, PermitOf, KnowledgeOf, RecoveryOf, Permitted, Holding, ExpiredTo
<1> QED BY <1>1, <1>2, <1>3, <1>4, WorkerOnly DEF Holding

\* A worker at work on its claim goes on.
LEMMA GoesOn ==
  ASSUME WakeInv, TypeOK', NEW w \in Workers, Only(w), Good(w)',
         UNCHANGED <<mode, row, attempt, woken>>,
         worker[w].pc \in Holding, worker'[w].claim = worker[w].claim
  PROVE  WakeInv'
<1>1. worker'[w].claim <= row.claims
  BY DEF WakeInv, ClaimsAreDistinct
<1> QED BY <1>1, WorkerOnly

\* The preflight hands its claim on to the permit, or records that there is
\* nothing to send.
LEMMA PreflightKeeps ==
  ASSUME WakeInv, TypeOK', NEW w \in Workers, Preflight(w)
  PROVE  WakeInv'
<1>1. TypeOK /\ Good(w) /\ worker[w].pc = "preflight" /\ worker[w].pc \in Holding
  BY WakeInvParts DEF Preflight, Holding
<1>2. UNCHANGED <<mode, row, attempt, woken>>
  BY DEF Preflight
<1>3. CASE Leave(w)
  BY <1>2, <1>3, LeaveKeeps
<1>4. CASE mode = "dev" /\ Record(w, "succeeded", FALSE)
  <2>1. /\ Only(w) /\ worker'[w].pc = "settle" /\ worker'[w].claim = worker[w].claim
        /\ worker'[w].to = "succeeded" /\ worker'[w].both = FALSE
    BY <1>1, <1>4, Moves DEF Recorded, Final
  <2>2. Good(w)'
    BY <1>1, <1>2, <1>4, <2>1 DEF Good, PermitOf, KnowledgeOf, RecoveryOf, Permitted
  <2> QED BY <1>1, <1>2, <2>1, <2>2, GoesOn
<1>5. CASE mode = "apns" /\ Goto(w, "acquire")
  <2>1. Only(w) /\ worker'[w].pc = "acquire" /\ worker'[w].claim = worker[w].claim
    BY <1>1, <1>5, Moves DEF PCs
  <2>2. Good(w)'
    BY <1>1, <1>2, <1>5, <2>1 DEF Good, PermitOf, KnowledgeOf, RecoveryOf, Permitted
  <2> QED BY <1>1, <1>2, <2>1, <2>2, GoesOn
<1> QED BY <1>3, <1>4, <1>5 DEF Preflight

\* A worker that fails without the permit, or with the permit it has.
LEMMA FailsKeeps ==
  ASSUME WakeInv, TypeOK', NEW w \in Workers,
         NEW f \in {"permanent", "retryable", "unknown"}, NEW b \in BOOLEAN, Fails(w, f, b),
         UNCHANGED <<mode, row, attempt, woken>>,
         worker[w].pc \in Holding,
         b => Permitted(w) /\ (f # "unknown" => woken = 0),
         ~b => ~Permitted(w) /\ f # "unknown"
  PROVE  WakeInv'
<1>1. TypeOK /\ Good(w)
  BY WakeInvParts
<1>2. /\ Only(w) /\ worker'[w].pc = "fail" /\ worker'[w].claim = worker[w].claim
      /\ worker'[w].both = b
      /\ f = "unknown" => worker'[w].to = "unknown"
      /\ f # "unknown" => worker'[w].to \in {"retrying", "failed"}
  BY <1>1, Moves
<1>3. PermitOf(w)'
  BY <1>1, <1>2 DEF Good, PermitOf, Permitted
<1>4. KnowledgeOf(w)'
  BY <1>1, <1>2 DEF Good, KnowledgeOf, Permitted
<1>5. RecoveryOf(w)'
  BY <1>2 DEF RecoveryOf
<1> QED BY <1>1, <1>2, <1>3, <1>4, <1>5, GoesOn DEF Good

LEMMA FailureKeeps ==
  ASSUME WakeInv, TypeOK', NEW w \in Workers,
         PreflightRefuses(w) \/ Refused(w) \/ TryLater(w) \/ AnswerLost(w)
  PROVE  WakeInv'
<1>1. Good(w)
  BY WakeInvParts
<1>2. CASE PreflightRefuses(w)
  BY <1>2, FailsKeeps DEF PreflightRefuses, Holding, Permitted
<1>3. CASE Refused(w)
  BY <1>1, <1>3, FailsKeeps DEF Refused, Holding, Permitted, Good, KnowledgeOf
<1>4. CASE TryLater(w) /\ worker[w].pc = "send"
  BY <1>1, <1>4, FailsKeeps DEF TryLater, Holding, Permitted, Good, KnowledgeOf
<1>5. CASE TryLater(w) /\ worker[w].pc # "send"
  BY <1>5, FailsKeeps DEF TryLater, Holding, Permitted
<1>6. CASE AnswerLost(w)
  BY <1>6, FailsKeeps DEF AnswerLost, Holding, Permitted
<1> QED BY <1>2, <1>3, <1>4, <1>5, <1>6

LEMMA AnswerKeeps ==
  ASSUME WakeInv, TypeOK', NEW w \in Workers, Answer(w)
  PROVE  WakeInv'
<1>1. TypeOK /\ Good(w) /\ worker[w].pc = "answer" /\ worker[w].pc \in Holding
  BY WakeInvParts DEF Answer, Holding
<1>2. /\ Only(w) /\ worker'[w].pc = "settle" /\ worker'[w].claim = worker[w].claim
      /\ worker'[w].to = "succeeded" /\ worker'[w].both = TRUE
  BY <1>1, Moves DEF Answer, Recorded, Final
<1>3. UNCHANGED <<mode, row, attempt, woken>>
  BY DEF Answer
<1>4. Good(w)'
  BY <1>1, <1>2, <1>3 DEF Good, PermitOf, KnowledgeOf, RecoveryOf, Permitted
<1> QED BY <1>1, <1>2, <1>3, <1>4, GoesOn

LEMMA ReadUnpermittedKeeps ==
  ASSUME WakeInv, TypeOK', NEW w \in Workers, ReadUnpermitted(w)
  PROVE  WakeInv'
<1>1. /\ TypeOK /\ Good(w) /\ AttemptIsRecorded
      /\ worker[w].pc = "unpermitted" /\ worker[w].pc \in Holding
  BY WakeInvParts DEF ReadUnpermitted, Holding
<1>2. UNCHANGED <<mode, row, attempt, woken>>
  BY DEF ReadUnpermitted
<1>3. CASE attempt \in Final /\ Record(w, attempt, FALSE)
  <2>1. /\ Only(w) /\ worker'[w].pc = "settle" /\ worker'[w].claim = worker[w].claim
        /\ worker'[w].to = attempt /\ worker'[w].both = FALSE
    BY <1>1, <1>3, Moves DEF Recorded
  <2>2. row.state # "running"
    BY <1>1, <1>3 DEF AttemptIsRecorded, Final
  <2>3. Good(w)'
    BY <1>2, <2>1, <2>2 DEF Good, PermitOf, KnowledgeOf, RecoveryOf, Permitted
  <2> QED BY <1>1, <1>2, <2>1, <2>3, GoesOn
<1>4. CASE Record(w, "unknown", TRUE)
  <2>1. /\ Only(w) /\ worker'[w].pc = "settle" /\ worker'[w].claim = worker[w].claim
        /\ worker'[w].to = "unknown" /\ worker'[w].both = TRUE
    BY <1>1, <1>4, Moves DEF Recorded, Final
  <2>2. Good(w)'
    BY <1>1, <1>2, <2>1 DEF Good, PermitOf, KnowledgeOf, RecoveryOf, Permitted
  <2> QED BY <1>1, <1>2, <2>1, <2>2, GoesOn
<1>5. CASE Leave(w)
  BY <1>2, <1>5, LeaveKeeps
<1> QED BY <1>3, <1>4, <1>5 DEF ReadUnpermitted

-----------------------------------------------------------------------------
(* Steps that change the rows. *)

\* A worker that holds the last claim is the only one that does: no other one
\* has the permit, or is at work on the row.
LEMMA Alone ==
  ASSUME WakeInv, NEW w \in Workers, worker[w].pc \in Holding, worker[w].claim = row.claims,
         NEW v \in Workers, v # w
  PROVE  ~Permitted(v) /\ ~(worker[v].pc \in Holding /\ worker[v].claim = row.claims)
<1>1. ~(worker[v].pc \in Holding /\ worker[v].claim = row.claims)
  BY DEF WakeInv, ClaimsAreDistinct
<1>2. Permitted(v) => worker[v].pc \in Holding /\ worker[v].claim = row.claims
  BY DEF WakeInv, PermitIsLast, Permitted, Holding
<1> QED BY <1>1, <1>2

LEMMA ClaimKeeps ==
  ASSUME WakeInv, TypeOK', NEW w \in Workers, Claim(w)
  PROVE  WakeInv'
<1>1. /\ TypeOK /\ ClaimsAreDistinct /\ AttemptIsRecorded /\ WokenIsRecorded
      /\ \A v \in Workers : Good(v)
  BY WakeInvParts
<1>2. UNCHANGED <<mode, attempt, woken>>
  BY DEF Claim
<1>3. CASE ~Due
  BY <1>2, <1>3, LeaveKeeps DEF Claim
<1>4. CASE Due
  <2>1. /\ worker \in [Workers -> WorkerType] /\ row.claims \in Nat /\ row.claims + 1 \in Nat
        /\ \A v \in Workers : worker[v].claim \in Nat
    BY <1>1 DEF TypeOK, WorkerType
  <2>2. /\ Only(w) /\ worker'[w].pc = "preflight" /\ worker'[w].claim = row.claims + 1
        /\ row'.state = "running" /\ row'.claims = row.claims + 1 /\ row'.live
    <3> DEFINE r == [worker[w] EXCEPT !.pc = "preflight", !.claim = row.claims + 1,
                                      !.attempts = worker[w].attempts + 1]
    <3>1. /\ worker' = [worker EXCEPT ![w] = r]
          /\ row' = [state |-> "running", claims |-> row.claims + 1,
                     live |-> TRUE, due |-> FALSE]
      BY <1>4 DEF Claim
    <3>2. r.pc = "preflight" /\ r.claim = row.claims + 1
      BY <2>1 DEF WorkerType
    <3>3. worker'[w] = r /\ Only(w)
      BY <2>1, <3>1 DEF Only
    <3> QED BY <3>1, <3>2, <3>3
  <2>3. row.state \in {"queued", "retrying"}
    BY <1>4 DEF Due
  <2>4. woken = 0 /\ attempt \notin Final
    BY <1>1, <2>3 DEF WokenIsRecorded, AttemptIsRecorded, Final
  <2>5. ClaimsAreDistinct'
    <3>1. \A v \in Workers : v # w => worker'[v] = worker[v] /\ worker[v].claim <= row.claims
      BY <1>1, <2>2 DEF ClaimsAreDistinct, Only
    <3>2. \A v \in Workers : worker'[v].claim <= row'.claims
      BY <2>1, <2>2, <3>1
    <3>3. \A v \in Workers : v # w => worker'[v].claim # worker'[w].claim
      BY <2>1, <2>2, <3>1
    <3>4. ASSUME NEW u \in Workers, NEW v \in Workers, worker'[u].pc \in Holding,
                 worker'[v].pc \in Holding, worker'[u].claim = worker'[v].claim
          PROVE  u = v
      <4>1. CASE u = w \/ v = w
        BY <3>3, <3>4, <4>1
      <4>2. CASE u # w /\ v # w
        BY <1>1, <3>1, <3>4, <4>2 DEF ClaimsAreDistinct
      <4> QED BY <4>1, <4>2
    <3> QED BY <3>2, <3>4 DEF ClaimsAreDistinct
  <2>6. AttemptIsRecorded' /\ WokenIsRecorded'
    BY <1>2, <2>4 DEF AttemptIsRecorded, WokenIsRecorded
  <2>7. Good(w)'
    BY <1>2, <2>2, <2>4 DEF Good, PermitOf, KnowledgeOf, RecoveryOf, Permitted
  <2>8. ASSUME NEW v \in Workers, v # w PROVE Good(v)'
    <3>1. Good(v) /\ worker'[v] = worker[v] /\ worker[v].claim <= row.claims
      BY <1>1, <2>2, <2>8 DEF Only, ClaimsAreDistinct
    <3>2. worker'[v].claim # row'.claims
      BY <2>1, <2>2, <3>1
    <3>3. ~Permitted(v) /\ ~Permitted(v)'
      BY <2>3, <3>1 DEF Good, PermitOf, Permitted
    <3> QED BY <1>2, <3>1, <3>2, <3>3 DEF Good, PermitOf, KnowledgeOf, RecoveryOf, Permitted
  <2> QED BY <2>5, <2>6, <2>7, <2>8, WakeInvPartsNext
<1> QED BY <1>3, <1>4

\* The attempt row becomes `running' under the active claim of w, which goes on
\* to the request, or is told that the statement failed.
LEMMA PermitKeeps ==
  ASSUME WakeInv, TypeOK', NEW w \in Workers, worker[w].pc = "acquire", AcquireWins(w),
         attempt' = "running", UNCHANGED <<mode, row, woken>>,
         Only(w), worker'[w].claim = worker[w].claim,
         \/ worker'[w].pc = "send"
         \/ worker'[w].pc = "fail" /\ ~worker'[w].both /\ worker'[w].to \in {"retrying", "failed"}
  PROVE  WakeInv'
<1>1. /\ TypeOK /\ ClaimsAreDistinct /\ AttemptIsRecorded /\ WokenIsRecorded
      /\ \A v \in Workers : Good(v)
  BY WakeInvParts
<1>2. /\ row.state = "running" /\ row.live /\ worker[w].claim = row.claims
      /\ attempt \in {"none", "retrying"} /\ worker[w].pc \in Holding
  BY DEF AcquireWins, Active, Holding
<1>3. mode # "dev" /\ woken = 0
  BY <1>1, <1>2 DEF Good, KnowledgeOf, Permitted
<1>4. ClaimsAreDistinct'
  BY <1>1, <1>2 DEF ClaimsAreDistinct, Only, Holding
<1>5. AttemptIsRecorded' /\ WokenIsRecorded'
  BY <1>3 DEF AttemptIsRecorded, WokenIsRecorded, Final
<1>6. Good(w)'
  BY <1>2, <1>3 DEF Good, PermitOf, KnowledgeOf, RecoveryOf, Permitted
<1>7. ASSUME NEW v \in Workers, v # w PROVE Good(v)'
  <2>1. Good(v) /\ worker'[v] = worker[v] /\ ~Permitted(v)
    BY <1>1, <1>2, <1>7, Alone DEF Only
  <2> QED BY <1>2, <2>1 DEF Good, PermitOf, KnowledgeOf, RecoveryOf, Permitted
<1> QED BY <1>4, <1>5, <1>6, <1>7, WakeInvPartsNext

LEMMA AcquireKeeps ==
  ASSUME WakeInv, TypeOK', NEW w \in Workers, Acquire(w) \/ AcquireFails(w)
  PROVE  WakeInv'
<1>1. TypeOK /\ Good(w) /\ worker[w].pc = "acquire" /\ worker[w].pc \in Holding
  BY WakeInvParts DEF Acquire, AcquireFails, Holding
<1>2. CASE Acquire(w) /\ AcquireWins(w)
  <2>1. Only(w) /\ worker'[w].pc = "send" /\ worker'[w].claim = worker[w].claim
    BY <1>1, <1>2, Moves DEF Acquire, PCs
  <2> QED BY <1>1, <1>2, <2>1, PermitKeeps DEF Acquire
<1>3. CASE Acquire(w) /\ ~AcquireWins(w)
  <2>1. Only(w) /\ worker'[w].pc = "unpermitted" /\ worker'[w].claim = worker[w].claim
    BY <1>1, <1>3, Moves DEF Acquire, PCs
  <2>2. UNCHANGED <<mode, row, attempt, woken>>
    BY <1>3 DEF Acquire
  <2>3. Good(w)'
    BY <1>1, <2>1, <2>2 DEF Good, PermitOf, KnowledgeOf, RecoveryOf, Permitted
  <2> QED BY <1>1, <2>1, <2>2, <2>3, GoesOn
<1>4. CASE AcquireFails(w) /\ UNCHANGED attempt
  BY <1>1, <1>4, FailsKeeps DEF AcquireFails, Permitted
<1>5. CASE AcquireFails(w) /\ AcquireWins(w) /\ attempt' = "running"
  <2>1. /\ Only(w) /\ worker'[w].pc = "fail" /\ worker'[w].claim = worker[w].claim
        /\ worker'[w].both = FALSE /\ worker'[w].to \in {"retrying", "failed"}
    BY <1>1, <1>5, Moves DEF AcquireFails
  <2> QED BY <1>1, <1>5, <2>1, PermitKeeps DEF AcquireFails
<1> QED BY <1>2, <1>3, <1>4, <1>5 DEF AcquireFails

\* The one worker with the permit wakes the device.
LEMMA SendKeeps ==
  ASSUME WakeInv, TypeOK', NEW w \in Workers, Send(w)
  PROVE  WakeInv'
<1>1. /\ TypeOK /\ ClaimsAreDistinct /\ AttemptIsRecorded /\ WokenIsRecorded
      /\ \A v \in Workers : Good(v)
  BY WakeInvParts
<1>2. /\ worker[w].pc = "send" /\ worker[w].pc \in Holding /\ Permitted(w)
      /\ UNCHANGED <<mode, row, attempt>>
  BY DEF Send, Holding, Permitted
<1>3. /\ worker[w].claim = row.claims /\ mode # "dev" /\ woken = 0
      /\ \/ row.state = "running" /\ attempt = "running"
         \/ row.state = "unknown"
  BY <1>1, <1>2 DEF Good, PermitOf, KnowledgeOf
<1>4. Only(w) /\ worker'[w].pc = "answer" /\ worker'[w].claim = worker[w].claim
  BY <1>1, Moves DEF Send, PCs
<1>5. woken' = 1
  BY <1>3 DEF Send
<1>6. ClaimsAreDistinct'
  BY <1>1, <1>2, <1>4 DEF ClaimsAreDistinct, Only, Holding
<1>7. AttemptIsRecorded' /\ WokenIsRecorded'
  BY <1>1, <1>2, <1>3, <1>5 DEF AttemptIsRecorded, WokenIsRecorded
<1>8. Good(w)'
  BY <1>2, <1>3, <1>4, <1>5 DEF Good, PermitOf, KnowledgeOf, RecoveryOf, Permitted
<1>9. ASSUME NEW v \in Workers, v # w PROVE Good(v)'
  <2>1. /\ Good(v) /\ worker'[v] = worker[v] /\ ~Permitted(v)
        /\ ~(worker[v].pc \in Holding /\ worker[v].claim = row.claims)
    BY <1>1, <1>2, <1>3, <1>4, <1>9, Alone DEF Only
  <2> QED
    BY <1>2, <1>3, <1>5, <2>1
    DEF Good, PermitOf, KnowledgeOf, RecoveryOf, Permitted, ExpiredTo
<1> QED BY <1>6, <1>7, <1>8, <1>9, WakeInvPartsNext

\* What w knows of a settlement that finds the row under its claim.
LEMMA SettlementKnows ==
  ASSUME WakeInv, NEW w \in Workers, worker[w].pc \in {"settle", "fail"}, Settles(w)
  PROVE  /\ worker[w].to \in {"succeeded", "failed", "unknown", "retrying"}
         /\ woken = 1 => worker[w].to \in {"unknown", "succeeded"}
         /\ attempt \notin Final
<1>1. TypeOK /\ AttemptIsRecorded /\ WokenIsRecorded /\ Good(w)
  BY WakeInvParts
<1>2. /\ row.state = "running" /\ worker[w].claim = row.claims
      /\ worker[w].both \in BOOLEAN /\ worker[w].pc \in Holding
  BY <1>1 DEF Settles, Active, Holding, TypeOK
<1>3. attempt \notin Final
  BY <1>1, <1>2 DEF AttemptIsRecorded, Final
<1>4. CASE worker[w].pc = "settle"
  BY <1>1, <1>2, <1>3, <1>4 DEF Good, KnowledgeOf, Permitted
<1>5. CASE worker[w].pc = "fail"
  <2>1. ~worker[w].both => woken = 0
    BY <1>1, <1>2, <1>5 DEF Good, KnowledgeOf, Permitted
  <2> QED BY <1>1, <1>2, <1>3, <1>5, <2>1 DEF Good, KnowledgeOf
<1> QED BY <1>4, <1>5

\* A settlement under the active claim, after which the worker leaves or, because
\* it was told that the statement failed, settles again.
LEMMA SettledKeeps ==
  ASSUME WakeInv, TypeOK', NEW w \in Workers, worker[w].pc \in {"settle", "fail"},
         Settles(w), Settled(w), UNCHANGED <<mode, woken>>, Only(w),
         \/ worker'[w] = Idle
         \/ /\ worker[w].pc = "settle" /\ worker'[w].pc = "fail"
            /\ worker'[w].claim = worker[w].claim
            /\ \/ /\ worker[w].both /\ worker[w].to = "succeeded"
                  /\ worker'[w].both /\ worker'[w].to = "unknown"
               \/ ~worker'[w].both /\ worker'[w].to \in {"retrying", "failed"}
  PROVE  WakeInv'
<1>1. /\ TypeOK /\ ClaimsAreDistinct /\ AttemptIsRecorded /\ WokenIsRecorded
      /\ \A v \in Workers : Good(v)
  BY WakeInvParts
<1>2. /\ row.state = "running" /\ worker[w].claim = row.claims /\ worker[w].pc \in Holding
      /\ row.claims \in Nat
  BY <1>1 DEF Settles, Active, Holding, TypeOK
<1>3. /\ worker[w].to \in {"succeeded", "failed", "unknown", "retrying"}
      /\ woken = 1 => worker[w].to \in {"unknown", "succeeded"}
      /\ attempt \notin Final
  BY SettlementKnows
<1>4. /\ row'.state = worker[w].to /\ row'.claims = row.claims
      /\ attempt' = IF worker[w].both THEN worker[w].to ELSE attempt
  BY <1>1 DEF Settled, Release, TypeOK
<1>5. row'.state # "running"
  BY <1>3, <1>4
<1>6. ClaimsAreDistinct'
  <2>1. worker'[w].claim <= row.claims
    BY <1>2 DEF Idle
  <2>2. worker'[w].pc \in Holding => worker'[w].claim = worker[w].claim
    BY DEF Idle, Holding
  <2> QED BY <1>1, <1>2, <1>4, <2>1, <2>2 DEF ClaimsAreDistinct, Only
<1>7. AttemptIsRecorded'
  BY <1>3, <1>4 DEF AttemptIsRecorded
<1>8. WokenIsRecorded'
  BY <1>1, <1>3, <1>4 DEF WokenIsRecorded
<1>9. Good(w)'
  <2>1. CASE worker'[w] = Idle
    BY <2>1, OffDuty DEF Idle
  <2>2. CASE worker'[w].pc = "fail" /\ worker[w].pc = "settle"
    <3>1. PermitOf(w)'
      BY <1>1, <1>2, <1>4, <2>2 DEF Good, PermitOf, Permitted, Idle
    <3>2. KnowledgeOf(w)'
      BY <1>5, <2>2 DEF KnowledgeOf, Idle
    <3>3. RecoveryOf(w)'
      BY <2>2 DEF RecoveryOf
    <3> QED BY <3>1, <3>2, <3>3 DEF Good
  <2> QED BY <2>1, <2>2
<1>10. ASSUME NEW v \in Workers, v # w PROVE Good(v)'
  <2>1. Good(v) /\ worker'[v] = worker[v] /\ ~Permitted(v)
    BY <1>1, <1>2, <1>10, Alone DEF Only
  <2> QED BY <1>5, <2>1 DEF Good, PermitOf, KnowledgeOf, RecoveryOf, Permitted
<1> QED BY <1>6, <1>7, <1>8, <1>9, <1>10, WakeInvPartsNext

LEMMA SettleKeeps ==
  ASSUME WakeInv, TypeOK', NEW w \in Workers, Settle(w)
  PROVE  WakeInv'
<1>1. TypeOK
  BY DEF WakeInv
<1>2. CASE Settles(w)
  <2>1. Only(w) /\ worker'[w] = Idle
    BY <1>1, Moves DEF Settle
  <2> QED BY <1>2, <2>1, SettledKeeps DEF Settle
<1>3. CASE ~Settles(w)
  BY <1>3, LeaveKeeps DEF Settle, Settled
<1> QED BY <1>2, <1>3

\* A settlement of which the worker is told that it failed.
LEMMA SettleFailsKeeps ==
  ASSUME WakeInv, TypeOK', NEW w \in Workers, SettleFails(w)
  PROVE  WakeInv'
<1>1. /\ TypeOK /\ Good(w) /\ worker[w].pc \in {"settle", "fail"}
      /\ worker[w].pc \in Holding /\ UNCHANGED <<mode, woken>>
  BY WakeInvParts DEF SettleFails, Holding
<1>2. CASE Settles(w) /\ Settled(w)
  <2>1. CASE worker[w].pc = "fail" /\ Leave(w)
    <3>1. Only(w) /\ worker'[w] = Idle
      BY <1>1, <2>1, Moves
    <3> QED BY <1>1, <1>2, <3>1, SettledKeeps
  <2>2. CASE /\ worker[w].pc = "settle" /\ worker[w].both /\ worker[w].to = "succeeded"
             /\ Fails(w, "unknown", TRUE)
    <3>1. /\ Only(w) /\ worker'[w].pc = "fail" /\ worker'[w].claim = worker[w].claim
          /\ worker'[w].both /\ worker'[w].to = "unknown"
      BY <1>1, <2>2, Moves
    <3> QED BY <1>1, <1>2, <2>2, <3>1, SettledKeeps
  <2>3. CASE worker[w].pc = "settle" /\ Fails(w, "retryable", FALSE)
    <3>1. /\ Only(w) /\ worker'[w].pc = "fail" /\ worker'[w].claim = worker[w].claim
          /\ ~worker'[w].both /\ worker'[w].to \in {"retrying", "failed"}
      BY <1>1, <2>3, Moves
    <3> QED BY <1>1, <1>2, <2>3, <3>1, SettledKeeps
  <2> QED BY <2>1, <2>2, <2>3 DEF SettleFails
<1>3. CASE UNCHANGED <<row, attempt>>
  <2>1. CASE Leave(w)
    BY <1>1, <1>3, <2>1, LeaveKeeps
  <2>2. CASE /\ worker[w].pc = "settle" /\ worker[w].both /\ worker[w].to = "succeeded"
             /\ Fails(w, "unknown", TRUE)
    BY <1>1, <1>3, <2>2, FailsKeeps DEF Permitted
  <2>3. CASE /\ worker[w].pc = "settle" /\ ~(worker[w].both /\ worker[w].to = "succeeded")
             /\ Fails(w, "retryable", FALSE)
    BY <1>1, <1>3, <2>3, FailsKeeps DEF Permitted
  <2> QED BY <2>1, <2>2, <2>3 DEF SettleFails
<1> QED BY <1>2, <1>3 DEF SettleFails, Settled

\* An expired claim is settled as what its attempt row says.
LEMMA RecoverApplyKeeps ==
  ASSUME WakeInv, TypeOK', NEW w \in Workers, RecoverApply(w)
  PROVE  WakeInv'
<1>1. /\ TypeOK /\ ClaimsAreDistinct /\ AttemptIsRecorded /\ WokenIsRecorded
      /\ \A v \in Workers : Good(v)
  BY WakeInvParts
<1>2. Only(w) /\ worker'[w] = Idle /\ UNCHANGED <<mode, woken>>
  BY <1>1, Moves DEF RecoverApply
<1>3. CASE UNCHANGED <<row, attempt>>
  BY <1>2, <1>3, LeaveKeeps DEF RecoverApply
<1>4. ASSUME Expired(w), NEW s \in {"unknown", "retrying", "failed"}, Release(s),
             \/ s = "unknown" /\ attempt' = "unknown"
             \/ s # "unknown" /\ UNCHANGED attempt /\ attempt \in {"none", "retrying"}
      PROVE  WakeInv'
  <2>1. row'.state = s /\ row'.claims = row.claims /\ row.state = "running"
    BY <1>1, <1>4 DEF Release, Expired, TypeOK
  <2>2. ClaimsAreDistinct'
    <3>1. worker'[w].claim <= row.claims /\ worker'[w].pc \notin Holding
      BY <1>1, <1>2 DEF Idle, Holding, TypeOK
    <3> QED BY <1>1, <1>2, <2>1, <3>1 DEF ClaimsAreDistinct, Only
  <2>3. AttemptIsRecorded'
    BY <1>4, <2>1 DEF AttemptIsRecorded, Final
  <2>4. WokenIsRecorded'
    BY <1>1, <1>2, <1>4, <2>1 DEF WokenIsRecorded
  <2>5. Good(w)'
    BY <1>2, OffDuty DEF Idle
  <2>6. ASSUME NEW v \in Workers, v # w PROVE Good(v)'
    <3>1. Good(v) /\ worker'[v] = worker[v]
      BY <1>1, <1>2, <2>6 DEF Only
    <3>2. PermitOf(v)'
      BY <1>2, <1>4, <2>1, <3>1 DEF Good, PermitOf, Permitted
    <3> QED BY <1>2, <1>4, <2>1, <3>1, <3>2 DEF Good, KnowledgeOf, RecoveryOf, Permitted
  <2> QED BY <2>2, <2>3, <2>4, <2>5, <2>6, WakeInvPartsNext
<1>5. CASE Expired(w) /\ worker[w].both /\ attempt' = "unknown" /\ Release("unknown")
  BY <1>4, <1>5
<1>6. CASE Expired(w) /\ ~worker[w].both /\ Release(worker[w].to) /\ UNCHANGED attempt
  <2>1. worker[w].to = ExpiredTo /\ ExpiredTo # "unknown" /\ row.state = "running"
    BY <1>1, <1>6 DEF Good, RecoveryOf, Expired, RecoverApply
  <2>2. attempt \notin Final /\ attempt # "running"
    BY <1>1, <2>1 DEF AttemptIsRecorded, ExpiredTo, Final
  <2>3. attempt \in {"none", "retrying"}
    BY <1>1, <2>2 DEF TypeOK, AttemptStates, Recorded
  <2>4. worker[w].to \in {"retrying", "failed"}
    BY <2>1, <2>3 DEF ExpiredTo
  <2> QED BY <1>4, <1>6, <2>3, <2>4
<1> QED BY <1>3, <1>5, <1>6 DEF RecoverApply

\* Time passes: only the flags of the row change.
LEMMA TimeKeeps ==
  ASSUME WakeInv, TypeOK', LeaseExpires \/ Stall \/ BecomesDue \/ UNCHANGED vars
  PROVE  WakeInv'
<1>1. /\ TypeOK /\ ClaimsAreDistinct /\ AttemptIsRecorded /\ WokenIsRecorded
      /\ \A v \in Workers : Good(v)
  BY WakeInvParts
<1>2. UNCHANGED <<mode, attempt, worker, woken>>
  BY DEF LeaseExpires, Stall, BecomesDue, vars
<1>3. row'.state = row.state /\ row'.claims = row.claims
  BY <1>1 DEF LeaseExpires, Stall, BecomesDue, vars, TypeOK
<1>4. row.state = "running" => row'.live \in {FALSE, row.live}
  BY <1>1 DEF LeaseExpires, Stall, BecomesDue, vars, TypeOK
<1>5. ClaimsAreDistinct' /\ AttemptIsRecorded' /\ WokenIsRecorded'
  BY <1>1, <1>2, <1>3 DEF ClaimsAreDistinct, AttemptIsRecorded, WokenIsRecorded
<1>6. ASSUME NEW v \in Workers PROVE Good(v)'
  BY <1>1, <1>2, <1>3, <1>4
  DEF Good, PermitOf, KnowledgeOf, RecoveryOf, Permitted, ExpiredTo
<1> QED BY <1>5, <1>6, WakeInvPartsNext

\* A crash forgets what the worker was doing.
LEMMA CrashKeeps ==
  ASSUME WakeInv, TypeOK', NEW w \in Workers, Crash(w)
  PROVE  WakeInv'
BY LeaveKeeps DEF Crash

LEMMA InitInv == Init => WakeInv
<1> SUFFICES ASSUME Init PROVE WakeInv
  OBVIOUS
<1>1. TypeOK
  BY InitTyped
<1>2. ClaimsAreDistinct
  BY DEF Init, ClaimsAreDistinct, Idle, Holding
<1>3. AttemptIsRecorded /\ WokenIsRecorded
  BY DEF Init, AttemptIsRecorded, WokenIsRecorded, Final
<1>4. \A w \in Workers : Good(w)
  BY DEF Init, Good, PermitOf, KnowledgeOf, RecoveryOf, Permitted, Idle, Holding
<1> QED BY <1>1, <1>2, <1>3, <1>4, WakeInvParts

LEMMA StepKeeps == WakeInv /\ [Next]_vars => WakeInv'
<1> SUFFICES ASSUME WakeInv, [Next]_vars PROVE WakeInv'
  OBVIOUS
<1>1. TypeOK'
  BY NextTyped DEF WakeInv
<1>2. ASSUME NEW w \in Workers, WorkerStep(w) PROVE WakeInv'
  BY <1>1, <1>2, RecoverReadKeeps, RecoverApplyKeeps, PageKeeps, ClaimKeeps, PreflightKeeps,
     FailureKeeps, AcquireKeeps, ReadUnpermittedKeeps, SendKeeps, AnswerKeeps, SettleKeeps
  DEF WorkerStep
<1>3. ASSUME NEW w \in Workers, WorkerFault(w) PROVE WakeInv'
  BY <1>1, <1>3, AcquireKeeps, FailureKeeps, SettleFailsKeeps, CrashKeeps DEF WorkerFault
<1> QED BY <1>1, <1>2, <1>3, TimeKeeps DEF Next

-----------------------------------------------------------------------------
(* The theorems. *)

\* The rows and the drains keep their types, for every number of drains, budget
\* of attempts and bound on the faults.
THEOREM WakeTypeCorrect == Spec => []TypeOK
<1>1. Init => TypeOK
  BY InitTyped
<1>2. TypeOK /\ [Next]_vars => TypeOK'
  BY NextTyped
<1> QED BY <1>1, <1>2, PTL DEF Spec

\* The claim of a permit is the last one, the attempt row ends with the wake row,
\* and a wake that was sent is never recorded as one that was not.
THEOREM WakeInvCorrect == Spec => []WakeInv
<1>1. Init => WakeInv
  BY InitInv
<1>2. WakeInv /\ [Next]_vars => WakeInv'
  BY StepKeeps
<1> QED BY <1>1, <1>2, PTL DEF Spec

-----------------------------------------------------------------------------
(* The rows implement WakeOnce. *)

\* The row moves to another state only before it is final, and to `succeeded' only
\* if the device was woken or the deployment sends nothing.
LEMMA RowMoves ==
  ASSUME WakeInv, [Next]_vars, row'.state # row.state
  PROVE  /\ row.state \notin Final /\ UNCHANGED <<mode, woken>>
         /\ row'.state = "succeeded" => woken = 1 \/ mode = "dev"
<1>1. TypeOK /\ \A w \in Workers : Good(w)
  BY WakeInvParts
<1>2. ASSUME NEW w \in Workers, Claim(w)
      PROVE  row.state \notin Final /\ UNCHANGED <<mode, woken>> /\ row'.state = "running"
  BY <1>2 DEF Claim, Due, Final
<1>3. ASSUME NEW w \in Workers, RecoverApply(w)
      PROVE  /\ row.state \notin Final /\ UNCHANGED <<mode, woken>>
             /\ row'.state # "succeeded"
  <2>1. row.state = "running" /\ row.claims = worker[w].claim
    BY <1>3 DEF RecoverApply, Expired
  <2>2. worker[w].to = ExpiredTo /\ worker[w].pc = "recover"
    BY <1>1, <1>3, <2>1 DEF Good, RecoveryOf, RecoverApply
  <2>3. attempt \notin Final
    BY <2>1, WakeInvParts DEF AttemptIsRecorded, Final
  <2>4. worker[w].to # "succeeded"
    BY <2>2, <2>3 DEF ExpiredTo, Final
  <2>5. row'.state \in {row.state, "unknown", worker[w].to}
    BY <1>1, <1>3 DEF RecoverApply, Release, TypeOK
  <2> QED BY <1>3, <2>1, <2>4, <2>5 DEF RecoverApply, Final
<1>4. ASSUME NEW w \in Workers, Settle(w) \/ SettleFails(w)
      PROVE  /\ row.state \notin Final /\ UNCHANGED <<mode, woken>>
             /\ row'.state = "succeeded" => woken = 1 \/ mode = "dev"
  <2>1. Settles(w) /\ Settled(w) /\ worker[w].pc \in {"settle", "fail"}
    BY <1>4 DEF Settle, SettleFails, Settled
  <2>2. row.state = "running" /\ worker[w].claim = row.claims
    BY <2>1 DEF Settles, Active
  <2>3. row'.state = worker[w].to
    BY <1>1, <2>1 DEF Settled, Release, TypeOK
  <2>4. worker[w].to = "succeeded" => woken = 1 \/ mode = "dev"
    BY <1>1, <2>1, <2>2 DEF Good, KnowledgeOf, Permitted, Holding
  <2> QED BY <1>4, <2>2, <2>3, <2>4 DEF Settle, SettleFails, Final
<1>5. CASE LeaseExpires \/ Stall \/ BecomesDue \/ UNCHANGED vars
  BY <1>1, <1>5 DEF LeaseExpires, Stall, BecomesDue, vars, TypeOK
<1>6. ASSUME NEW w \in Workers, WorkerStep(w) \/ WorkerFault(w)
      PROVE  Claim(w) \/ RecoverApply(w) \/ Settle(w) \/ SettleFails(w)
  BY <1>6
  DEF WorkerStep, WorkerFault, RecoverRead, Select, Preflight, PreflightRefuses, Acquire,
      ReadUnpermitted, Send, Answer, Refused, AcquireFails, TryLater, AnswerLost, Crash
<1> QED BY <1>2, <1>3, <1>4, <1>5, <1>6 DEF Next

\* The device is woken only by the worker with the permit, before a verdict that
\* it was not, or that it was.
LEMMA WokenMoves ==
  ASSUME WakeInv, [Next]_vars, woken' # woken
  PROVE  /\ woken = 0 /\ woken' = 1 /\ mode # "dev" /\ UNCHANGED <<mode, row>>
         /\ row.state \in {"running", "unknown"}
<1>1. PICK w \in Workers : Send(w)
  BY DEF Next, WorkerStep, WorkerFault, RecoverRead, RecoverApply, Select, Claim, Preflight,
         PreflightRefuses, Acquire, ReadUnpermitted, Answer, Refused, Settle, AcquireFails,
         TryLater, AnswerLost, SettleFails, Crash, LeaseExpires, Stall, BecomesDue, vars
<1>2. Good(w) /\ worker[w].pc = "send"
  BY <1>1, WakeInvParts DEF Send
<1>3. woken = 0 /\ mode # "dev" /\ row.state \in {"running", "unknown"}
  BY <1>2 DEF Good, PermitOf, KnowledgeOf, Permitted
<1> QED BY <1>1, <1>3 DEF Send

\* The deployment does not change its mode.
LEMMA ModeStays == [Next]_vars => mode' = mode
BY DEF Next, WorkerStep, WorkerFault, RecoverRead, RecoverApply, Select, Claim, Preflight,
       PreflightRefuses, Acquire, ReadUnpermitted, Send, Answer, Refused, Settle,
       AcquireFails, TryLater, AnswerLost, SettleFails, Crash, LeaseExpires, Stall,
       BecomesDue, vars

LEMMA StepImplements ==
  WakeInv /\ WakeInv' /\ [Next]_vars => [Once!Next]_<<mode = "dev", woken, verdict>>
<1> SUFFICES ASSUME WakeInv, WakeInv', [Next]_vars
             PROVE  Once!Next \/ UNCHANGED <<mode = "dev", woken, verdict>>
  OBVIOUS
<1>1. mode' = mode
  BY ModeStays
<1>2. CASE woken' # woken
  <2>1. /\ woken = 0 /\ woken' = 1 /\ mode # "dev" /\ row' = row
        /\ row.state \in {"running", "unknown"}
    BY <1>2, WokenMoves
  <2>2. verdict \in {"open", "unknown"} /\ verdict' = verdict
    BY <2>1 DEF verdict, Final
  <2>3. Once!Wake
    BY <1>1, <2>1, <2>2 DEF Once!Wake
  <2> QED BY <2>3 DEF Once!Next
<1>3. CASE woken' = woken /\ row'.state # row.state
  <2>1. /\ row.state \notin Final
        /\ row'.state = "succeeded" => woken = 1 \/ mode = "dev"
    BY <1>3, RowMoves
  <2>2. CASE row'.state \notin Final
    BY <1>1, <1>3, <2>1, <2>2 DEF verdict, Final
  <2>3. CASE row'.state \in Final
    <3>1. WokenIsRecorded'
      BY DEF WakeInv
    <3>2. row'.state = "failed" => woken = 0
      BY <1>3, <3>1 DEF WokenIsRecorded
    <3>3. verdict = "open" /\ verdict' = row'.state
      BY <2>1, <2>3 DEF verdict, Final
    <3>4. Once!Decide(row'.state)
      BY <1>1, <1>3, <2>1, <3>2, <3>3 DEF Once!Decide
    <3>5. row'.state \in Once!Verdicts
      BY <2>3 DEF Final, Once!Verdicts
    <3> QED BY <3>4, <3>5 DEF Once!Next
  <2> QED BY <2>2, <2>3
<1>4. CASE woken' = woken /\ row'.state = row.state
  BY <1>1, <1>4 DEF verdict, Final
<1> QED BY <1>2, <1>3, <1>4

\* The wake rows implement WakeOnce: at most one notification for a version of a
\* command, and a record that never says the opposite of what happened.
THEOREM WakesOnceCorrect == Spec => WakesOnce
<1>1. Init => Once!Init
  BY DEF Init, Once!Init, verdict, Final
<1>2. WakeInv /\ WakeInv' /\ [Next]_vars => [Once!Next]_<<mode = "dev", woken, verdict>>
  BY StepImplements
<1> QED BY <1>1, <1>2, WakeInvCorrect, PTL DEF Spec, WakesOnce, Once!Spec
=============================================================================
