---------------------------- MODULE ServicesProofs ----------------------------
(***************************************************************************)
(* Theorems about four of the parts of MCServices, for any values of their *)
(* constants: the idempotency keys of phone operations, refresh tokens and *)
(* pairing codes, push tokens and devices, and the rate limits.  A step of *)
(* the whole is one of the part or leaves its variables as they are, so    *)
(* the inductive invariant of a part is one of the whole.                  *)
(***************************************************************************)
EXTENDS MCServices, FiniteSetTheorems, TLAPS

-----------------------------------------------------------------------------
(* Operations: phone_operations.rs. *)

\* A request under way has a key and a goal.
Asked == \A r \in Repeats :
  calls[r].pc # "idle" => calls[r].key \in OpKeys /\ calls[r].goal \in Goals

\* A claim belongs to a request that is at work for it and for its goal.
HoldersWork == \A k \in OpKeys :
  ops[k].holder # NoOne =>
    LET r == ops[k].holder IN
    /\ ~ops[k].answered
    /\ calls[r].pc \in {"work", "complete", "release"}
    /\ calls[r].key = k /\ calls[r].goal = ops[k].goal

\* What is about to be recorded has taken place.
WorkIsDone == \A r \in Repeats :
  calls[r].pc = "complete" => work[calls[r].goal] # "open"

\* An answered row says what was asked for.
AnsweredHasGoal == \A k \in OpKeys : ops[k].answered => ops[k].goal \in Goals

\* The inductive invariant.
OperationInv == Operations!TypeOK /\ Asked /\ HoldersWork /\ WorkIsDone /\ AnsweredHasGoal /\ Operations!AnswersStand

-----------------------------------------------------------------------------
LEMMA OperationInvInit ==
  ASSUME Operations!Init
  PROVE  OperationInv
BY DEF Operations!Init, OperationInv, Operations!TypeOK, Asked, HoldersWork, WorkIsDone,
   AnsweredHasGoal, Operations!AnswersStand,
       Operations!ToldIsRecorded, Operations!RecordedIsReal, Operations!Absent,
       Operations!Idle, Operations!PCs

\* Each step is one of these, whoever takes it.
LEMMA OperationSteps ==
  ASSUME Operations!Next
  PROVE  \/ \E r \in Repeats :
              \/ \E k \in OpKeys, g \in Goals : Operations!Ask(r, k, g)
              \/ Operations!BeginOperation(r) \/ Operations!LookAtRow(r) \/ Operations!TakeOver(r) \/ Operations!Work(r)
              \/ Operations!CompleteOperation(r) \/ Operations!ReleaseOperation(r) \/ Operations!Stop(r)
         \/ \E k \in OpKeys : Operations!LeasePasses(k)
         \/ \E g \in Goals : Operations!MovesOn(g)
BY DEF Operations!Next

\* What the updates do, point by point.
OperationRowType == [goal : Goals \cup {NoOne}, holder : Repeats \cup {NoOne},
            answered : BOOLEAN, due : BOOLEAN]

CallType == [pc : Operations!PCs, key : OpKeys \cup {NoOne}, goal : Goals \cup {NoOne}]

LEMMA ClaimRow ==
  ASSUME NEW r \in Repeats, calls[r].goal \in Goals
  PROVE  /\ Operations!Claim(r) = [goal |-> calls[r].goal, holder |-> r, answered |-> FALSE, due |-> FALSE]
         /\ Operations!Claim(r) \in OperationRowType
BY DEF Operations!Claim, OperationRowType

\* The row of a claim whose answer is recorded.
Answered(row) == [row EXCEPT !.answered = TRUE, !.holder = NoOne]

LEMMA AnswerRow ==
  ASSUME NEW row \in OperationRowType
  PROVE  Answered(row) \in OperationRowType /\ Answered(row).answered
         /\ Answered(row).holder = NoOne /\ Answered(row).goal = row.goal
BY DEF OperationRowType, Answered

LEMMA RowWritten ==
  ASSUME Operations!TypeOK, NEW r \in Repeats, calls[r].key \in OpKeys, NEW row \in OperationRowType, Operations!Write(r, row)
  PROVE  /\ ops' \in [OpKeys -> OperationRowType]
         /\ ops'[calls[r].key] = row
         /\ \A k \in OpKeys \ {calls[r].key} : ops'[k] = ops[k]
BY DEF Operations!TypeOK, Operations!Write, OperationRowType

LEMMA OperationRequestGoes ==
  ASSUME Operations!TypeOK, NEW r \in Repeats, NEW pc \in Operations!PCs, Operations!Goto(r, pc)
  PROVE  /\ calls' \in [Repeats -> CallType]
         /\ calls'[r].pc = pc /\ calls'[r].key = calls[r].key /\ calls'[r].goal = calls[r].goal
         /\ \A q \in Repeats \ {r} : calls'[q] = calls[q]
<1>1. calls \in [Repeats -> CallType] 
  BY DEF Operations!TypeOK, CallType
<1>2. /\ calls'[r] = [calls[r] EXCEPT !.pc = pc]
      /\ \A q \in Repeats \ {r} : calls'[q] = calls[q]
      /\ calls' = [calls EXCEPT ![r] = [calls[r] EXCEPT !.pc = pc]]
  BY <1>1 DEF Operations!Goto
<1>3. calls[r] \in CallType
  BY <1>1
<1>4. [calls[r] EXCEPT !.pc = pc] \in CallType
  BY <1>3 DEF CallType
<1>5. /\ calls'[r].pc = pc /\ calls'[r].key = calls[r].key /\ calls'[r].goal = calls[r].goal
  BY <1>2, <1>3 DEF CallType
<1>6. calls' \in [Repeats -> CallType]
  BY <1>1, <1>2, <1>4
<1> QED BY <1>2, <1>5, <1>6

LEMMA OperationRequestLeaves ==
  ASSUME Operations!TypeOK, NEW r \in Repeats, Operations!Leave(r)
  PROVE  /\ calls' \in [Repeats -> CallType]
         /\ calls'[r].pc = "idle"
         /\ \A q \in Repeats \ {r} : calls'[q] = calls[q]
BY DEF Operations!TypeOK, Operations!Leave, Operations!Idle, CallType, Operations!PCs

\* A step keeps the types, and a request under way keeps its key and goal.
LEMMA TypeStep ==
  ASSUME Operations!TypeOK, Asked, [Operations!Next]_(Operations!vars)
  PROVE  Operations!TypeOK' /\ Asked'
<1> DEFINE Kept == Operations!TypeOK' /\ Asked'
<1> USE DEF Asked
<1>0. Operations!TypeOK <=> /\ ops \in [OpKeys -> OperationRowType] /\ work \in [Goals -> {"open", "done", "over"}]
                 /\ calls \in [Repeats -> CallType] /\ told \subseteq OpKeys \X Goals
  BY DEF Operations!TypeOK, OperationRowType, CallType
<1>t. Operations!TypeOK' <=> /\ ops' \in [OpKeys -> OperationRowType] /\ work' \in [Goals -> {"open", "done", "over"}]
                  /\ calls' \in [Repeats -> CallType] /\ told' \subseteq OpKeys \X Goals
  BY DEF Operations!TypeOK, OperationRowType, CallType
<1>p. {"idle", "begin", "look", "take", "work", "complete", "release"} \subseteq Operations!PCs
  BY DEF Operations!PCs
<1>1. CASE UNCHANGED Operations!vars
  BY <1>1, <1>0, <1>t DEF Operations!vars
<1>2. ASSUME NEW r \in Repeats, NEW k \in OpKeys, NEW g \in Goals, Operations!Ask(r, k, g) PROVE Kept
  BY <1>2, <1>0, <1>t, <1>p DEF Operations!Ask, CallType
<1>3. ASSUME NEW r \in Repeats, Operations!BeginOperation(r) PROVE Kept
  <2>1. calls[r].key \in OpKeys /\ calls[r].goal \in Goals
    BY <1>3 DEF Operations!BeginOperation
  <2>2. CASE Operations!Write(r, Operations!Claim(r)) /\ Operations!Goto(r, "work")
    BY <1>3, <2>1, <2>2, ClaimRow, RowWritten, OperationRequestGoes, <1>0, <1>t, <1>p
       DEF Operations!BeginOperation
  <2>3. CASE UNCHANGED ops /\ Operations!Goto(r, "look")
    BY <1>3, <2>1, <2>3, OperationRequestGoes, <1>0, <1>t, <1>p
       DEF Operations!BeginOperation
  <2> QED BY <1>3, <2>2, <2>3 DEF Operations!BeginOperation
<1>4. ASSUME NEW r \in Repeats, Operations!LookAtRow(r) PROVE Kept
  <2>1. calls[r].key \in OpKeys /\ calls[r].goal \in Goals
    BY <1>4 DEF Operations!LookAtRow
  <2>2. told' \subseteq OpKeys \X Goals /\ UNCHANGED <<ops, work>>
    BY <1>4, <1>0, <2>1 DEF Operations!LookAtRow
  <2>3. CASE Operations!Goto(r, "take")
    BY <2>1, <2>2, <2>3, OperationRequestGoes, <1>0, <1>t, <1>p
  <2>4. CASE Operations!Leave(r)
    BY <2>2, <2>4, OperationRequestLeaves, <1>0, <1>t
  <2> QED BY <1>4, <2>3, <2>4 DEF Operations!LookAtRow
<1>5. ASSUME NEW r \in Repeats, Operations!TakeOver(r) PROVE Kept
  <2>1. calls[r].key \in OpKeys /\ calls[r].goal \in Goals
    BY <1>5 DEF Operations!TakeOver
  <2>2. CASE Operations!Write(r, Operations!Claim(r)) /\ Operations!Goto(r, "work")
    BY <1>5, <2>1, <2>2, ClaimRow, RowWritten, OperationRequestGoes, <1>0, <1>t, <1>p
       DEF Operations!TakeOver
  <2>3. CASE UNCHANGED ops /\ Operations!Leave(r)
    BY <1>5, <2>3, OperationRequestLeaves, <1>0, <1>t DEF Operations!TakeOver
  <2> QED BY <1>5, <2>2, <2>3 DEF Operations!TakeOver
<1>6. ASSUME NEW r \in Repeats, Operations!Work(r) PROVE Kept
  <2>1. calls[r].key \in OpKeys /\ calls[r].goal \in Goals
    BY <1>6 DEF Operations!Work
  <2>2. work' \in [Goals -> {"open", "done", "over"}] /\ UNCHANGED <<ops, told>>
    BY <1>6, <1>0 DEF Operations!Work
  <2>3. Operations!Goto(r, "complete") \/ Operations!Goto(r, "release")
    BY <1>6 DEF Operations!Work
  <2> QED BY <2>1, <2>2, <2>3, OperationRequestGoes, <1>0, <1>t, <1>p
<1>7. ASSUME NEW r \in Repeats, Operations!CompleteOperation(r) PROVE Kept
  <2>1. calls[r].key \in OpKeys /\ calls[r].goal \in Goals /\ Operations!Leave(r) /\ UNCHANGED work
    BY <1>7 DEF Operations!CompleteOperation
  <2>2. [Operations!Row(r) EXCEPT !.answered = TRUE, !.holder = NoOne] \in OperationRowType
    <3>1. Operations!Row(r) \in OperationRowType
      BY <2>1, <1>0 DEF Operations!Row
    <3> QED BY <3>1 DEF OperationRowType
  <2>3. ops' \in [OpKeys -> OperationRowType] /\ told' \subseteq OpKeys \X Goals
    BY <1>7, <2>1, <2>2, <1>0, RowWritten DEF Operations!CompleteOperation
  <2> QED BY <2>1, <2>3, OperationRequestLeaves, <1>0, <1>t
<1>8. ASSUME NEW r \in Repeats, Operations!ReleaseOperation(r) PROVE Kept
  <2>1. calls[r].key \in OpKeys /\ Operations!Leave(r) /\ UNCHANGED <<work, told>>
    BY <1>8 DEF Operations!ReleaseOperation
  <2>2. Operations!Absent \in OperationRowType
    BY DEF Operations!Absent, OperationRowType
  <2>3. ops' \in [OpKeys -> OperationRowType]
    BY <1>8, <2>1, <2>2, <1>0, RowWritten DEF Operations!ReleaseOperation
  <2> QED BY <2>1, <2>3, OperationRequestLeaves, <1>0, <1>t
<1>9. ASSUME NEW r \in Repeats, Operations!Stop(r) PROVE Kept
  <2>1. ops' \in [OpKeys -> OperationRowType]
    BY <1>9, <1>0 DEF Operations!Stop, OperationRowType
  <2> QED BY <1>9, <2>1, OperationRequestLeaves, <1>0, <1>t DEF Operations!Stop
<1>10. ASSUME NEW k \in OpKeys, Operations!LeasePasses(k) PROVE Kept
  BY <1>10, <1>0, <1>t DEF Operations!LeasePasses, OperationRowType
<1>11. ASSUME NEW g \in Goals, Operations!MovesOn(g) PROVE Kept
  BY <1>11, <1>0, <1>t DEF Operations!MovesOn
<1> QED
  BY <1>1, <1>2, <1>3, <1>4, <1>5, <1>6, <1>7, <1>8, <1>9, <1>10, <1>11, OperationSteps

\* What the invariant says of one row.
HolderWorks(k) ==
  ops[k].holder # NoOne =>
    LET r == ops[k].holder IN
    /\ ~ops[k].answered
    /\ calls[r].pc \in {"work", "complete", "release"}
    /\ calls[r].key = k /\ calls[r].goal = ops[k].goal

\* A request holds at most the row of its key, and that while it works.
LEMMA OwnRow ==
  ASSUME OperationInv, NEW r \in Repeats, NEW k \in OpKeys,
         ops[k].holder = r
  PROVE  /\ calls[r].key = k /\ calls[r].goal = ops[k].goal /\ ~ops[k].answered
         /\ calls[r].pc \in {"work", "complete", "release"}
  BY OperationsAssumption DEF OperationInv, HoldersWork

\* What a step of one request must keep: of the row of its key, of its own work, and of
\* what it tells.
LEMMA OneRequest ==
  ASSUME OperationInv, Operations!TypeOK', Asked',
         NEW r \in Repeats, NEW K \in OpKeys,
         \A q \in Repeats \ {r} : calls'[q] = calls[q],
         \A k \in OpKeys \ {K} : ops'[k] = ops[k] /\ ops[k].holder # r,
         HolderWorks(K)',
         ops[K].answered => ops'[K].answered /\ ops'[K].goal = ops[K].goal,
         ops'[K].answered => ops'[K].goal \in Goals /\ work'[ops'[K].goal] # "open",
         \A g \in Goals : work[g] # "open" => work'[g] # "open",
         calls'[r].pc = "complete" => work'[calls'[r].goal] # "open",
         \A k \in OpKeys, g \in Goals : <<k, g>> \in told' =>
           <<k, g>> \in told \/ (k = K /\ ops'[K].answered /\ ops'[K].goal = g)
  PROVE  OperationInv'
<1>t. \A k \in OpKeys : /\ ops[k].holder # NoOne => ops[k].holder \in Repeats
                        /\ ops[k].goal \in Goals \cup {NoOne}
  BY DEF OperationInv, Operations!TypeOK
<1>1. HoldersWork'
  <2> SUFFICES ASSUME NEW k \in OpKeys PROVE HolderWorks(k)'
    BY DEF HoldersWork, HolderWorks
  <2>1. CASE k = K
    BY <2>1
  <2>2. CASE k # K
    <3>1. HolderWorks(k) /\ ops'[k] = ops[k] /\ ops[k].holder # r
      BY <2>2 DEF OperationInv, HoldersWork, HolderWorks
    <3>2. ops[k].holder # NoOne => calls'[ops[k].holder] = calls[ops[k].holder]
      BY <1>t, <3>1
    <3> QED BY <3>1, <3>2 DEF HolderWorks
  <2> QED BY <2>1, <2>2
<1>2. WorkIsDone'
  <2> SUFFICES ASSUME NEW q \in Repeats, calls'[q].pc = "complete"
               PROVE  work'[calls'[q].goal] # "open"
    BY DEF WorkIsDone
  <2>1. CASE q # r
    <3>1. calls[q].goal \in Goals /\ work[calls[q].goal] # "open"
      BY <2>1 DEF OperationInv, Asked, WorkIsDone
    <3> QED BY <2>1, <3>1
  <2> QED BY <2>1
<1>3. Operations!ToldIsRecorded'
  BY DEF Operations!ToldIsRecorded, OperationInv, Operations!AnswersStand
<1>4. AnsweredHasGoal' /\ Operations!RecordedIsReal'
  <2> SUFFICES ASSUME NEW k \in OpKeys, ops'[k].answered
               PROVE  ops'[k].goal \in Goals /\ work'[ops'[k].goal] # "open"
    BY DEF AnsweredHasGoal, Operations!RecordedIsReal
  <2>1. CASE k # K
    <3>1. ops[k].goal \in Goals /\ work[ops[k].goal] # "open" /\ ops'[k] = ops[k]
      BY <2>1 DEF OperationInv, AnsweredHasGoal, Operations!AnswersStand,
         Operations!RecordedIsReal
    <3> QED BY <3>1
  <2> QED BY <2>1
<1> QED BY <1>1, <1>2, <1>3, <1>4 DEF OperationInv, Operations!AnswersStand

\* A step of one request that leaves the rows alone and is not an answer's last.
LEMMA RowsStay ==
  ASSUME OperationInv, Operations!TypeOK', Asked',
         NEW r \in Repeats, calls[r].key \in OpKeys,
         \A q \in Repeats \ {r} : calls'[q] = calls[q],
         UNCHANGED ops,
         ops[calls[r].key].holder = r =>
           /\ calls'[r].pc \in {"work", "complete", "release"}
           /\ calls'[r].key = calls[r].key /\ calls'[r].goal = calls[r].goal,
         \A g \in Goals : work[g] # "open" => work'[g] # "open",
         calls'[r].pc = "complete" => work'[calls'[r].goal] # "open",
         \A k \in OpKeys, g \in Goals : <<k, g>> \in told' =>
           <<k, g>> \in told \/ (k = calls[r].key /\ ops[k].answered /\ ops[k].goal = g)
  PROVE  OperationInv'
<1> PICK K \in OpKeys : K = calls[r].key
  OBVIOUS
<1>1. \A k \in OpKeys \ {K} : ops'[k] = ops[k] /\ ops[k].holder # r
  BY OwnRow
<1>2. HolderWorks(K)'
  <2>1. HolderWorks(K) /\ ops'[K] = ops[K]
    BY DEF OperationInv, HoldersWork, HolderWorks
  <2>2. ops[K].holder # NoOne => ops[K].holder \in Repeats
    BY DEF OperationInv, Operations!TypeOK
  <2>3. CASE ops[K].holder = r
    BY <2>1, <2>3 DEF HolderWorks
  <2>4. CASE ops[K].holder # r
    BY <2>1, <2>2, <2>4 DEF HolderWorks
  <2> QED BY <2>3, <2>4
<1>3. ops[K].answered => ops[K].goal \in Goals /\ work[ops[K].goal] # "open"
  BY DEF OperationInv, AnsweredHasGoal, Operations!AnswersStand,
     Operations!RecordedIsReal
<1>4. ops'[K] = ops[K]
  OBVIOUS
<1> QED BY <1>1, <1>2, <1>3, <1>4, OneRequest

\* The claim of a request that was at none.
LEMMA NewClaim ==
  ASSUME OperationInv, Operations!TypeOK', Asked',
         NEW r \in Repeats, calls[r].pc \in {"begin", "take"}, ~Operations!Row(r).answered,
         Operations!Write(r, Operations!Claim(r)), Operations!Goto(r, "work"), UNCHANGED <<work, told>>
  PROVE  OperationInv'
<1>1. calls[r].key \in OpKeys /\ calls[r].goal \in Goals /\ Operations!TypeOK
  BY DEF OperationInv, Asked
<1> PICK K \in OpKeys : K = calls[r].key
  BY <1>1
<1>2. \A k \in OpKeys : ops[k].holder # r
  BY OwnRow
<1>3. /\ ops'[K] = [goal |-> calls[r].goal, holder |-> r, answered |-> FALSE, due |-> FALSE]
      /\ \A k \in OpKeys \ {K} : ops'[k] = ops[k]
  BY <1>1, ClaimRow, RowWritten
<1>4. /\ calls'[r].pc = "work" /\ calls'[r].key = K /\ calls'[r].goal = calls[r].goal
      /\ \A q \in Repeats \ {r} : calls'[q] = calls[q]
  BY <1>1, OperationRequestGoes DEF Operations!PCs
<1>5. HolderWorks(K)'
  BY <1>3, <1>4 DEF HolderWorks
<1>6. ~ops[K].answered
  BY DEF Operations!Row
<1> QED BY <1>1, <1>2, <1>3, <1>4, <1>5, <1>6, OneRequest

\* The invariant is kept by every step.
LEMMA OperationInvStep ==
  ASSUME OperationInv, [Operations!Next]_(Operations!vars)
  PROVE  OperationInv'
<1>1. Operations!TypeOK /\ Asked /\ Operations!TypeOK' /\ Asked'
  BY TypeStep DEF OperationInv
<1>k. \A r \in Repeats : calls[r].pc # "idle" => calls[r].key \in OpKeys /\ calls[r].goal \in Goals
  BY <1>1 DEF Asked
<1>p. {"idle", "begin", "look", "take", "work", "complete", "release"} \subseteq Operations!PCs
  BY DEF Operations!PCs
<1>2. CASE UNCHANGED Operations!vars
  BY <1>2 DEF Operations!vars, OperationInv, Operations!TypeOK, Asked, HoldersWork,
     WorkIsDone, AnsweredHasGoal, Operations!AnswersStand,
              Operations!ToldIsRecorded, Operations!RecordedIsReal
<1>3. ASSUME NEW r \in Repeats, NEW k \in OpKeys, NEW g \in Goals, Operations!Ask(r, k, g) PROVE OperationInv'
  <2>1. \A j \in OpKeys : ops[j].holder # r
    BY <1>3, OwnRow DEF Operations!Ask
  <2>2. /\ calls'[r] = [pc |-> "begin", key |-> k, goal |-> g]
        /\ \A q \in Repeats \ {r} : calls'[q] = calls[q]
        /\ UNCHANGED <<ops, work, told>>
    BY <1>3, <1>1 DEF Operations!Ask, Operations!TypeOK
  <2>3. HolderWorks(k)'
    <3>1. HolderWorks(k) /\ (ops[k].holder # NoOne => ops[k].holder \in Repeats)
      BY DEF OperationInv, HoldersWork, HolderWorks, Operations!TypeOK
    <3> QED BY <2>1, <2>2, <3>1 DEF HolderWorks
  <2>4. ops[k].answered => ops[k].goal \in Goals /\ work[ops[k].goal] # "open"
    BY DEF OperationInv, AnsweredHasGoal, Operations!AnswersStand,
       Operations!RecordedIsReal
  <2> QED BY <1>1, <2>1, <2>2, <2>3, <2>4, OneRequest
<1>4. ASSUME NEW r \in Repeats, Operations!BeginOperation(r) PROVE OperationInv'
  <2>1. calls[r].pc = "begin" /\ UNCHANGED <<work, told>>
    BY <1>4 DEF Operations!BeginOperation
  <2>2. CASE Operations!Row(r) = Operations!Absent /\ Operations!Write(r, Operations!Claim(r)) /\ Operations!Goto(r, "work")
    BY <1>1, <2>1, <2>2, NewClaim DEF Operations!Absent
  <2>3. CASE UNCHANGED ops /\ Operations!Goto(r, "look")
    <3>1. ops[calls[r].key].holder # r
      BY <1>k, <2>1, OwnRow
    <3> QED BY <1>1, <1>k, <1>p, <2>1, <2>3, <3>1, OperationRequestGoes, RowsStay
  <2> QED BY <1>4, <2>2, <2>3 DEF Operations!BeginOperation
<1>5. ASSUME NEW r \in Repeats, Operations!LookAtRow(r) PROVE OperationInv'
  <2>1. /\ calls[r].pc = "look" /\ UNCHANGED <<ops, work>>
        /\ Operations!Goto(r, "take") \/ Operations!Leave(r)
    BY <1>5 DEF Operations!LookAtRow
  <2>2. \A k \in OpKeys, g \in Goals : <<k, g>> \in told' =>
           <<k, g>> \in told \/ (k = calls[r].key /\ ops[k].answered /\ ops[k].goal = g)
    BY <1>5 DEF Operations!LookAtRow, Operations!Row
  <2>3. ops[calls[r].key].holder # r
    BY <1>k, <2>1, OwnRow
  <2>4. /\ \A q \in Repeats \ {r} : calls'[q] = calls[q]
        /\ calls'[r].pc # "complete"
    BY <1>1, <1>p, <2>1, OperationRequestGoes, OperationRequestLeaves
  <2> QED BY <1>1, <1>k, <2>1, <2>2, <2>3, <2>4, RowsStay
<1>6. ASSUME NEW r \in Repeats, Operations!TakeOver(r) PROVE OperationInv'
  <2>1. calls[r].pc = "take" /\ UNCHANGED <<work, told>>
    BY <1>6 DEF Operations!TakeOver
  <2>2. CASE Operations!Expirable(Operations!Row(r)) /\ Operations!Write(r, Operations!Claim(r)) /\ Operations!Goto(r, "work")
    BY <1>1, <2>1, <2>2, NewClaim DEF Operations!Expirable
  <2>3. CASE UNCHANGED ops /\ Operations!Leave(r)
    <3>1. ops[calls[r].key].holder # r
      BY <1>k, <2>1, OwnRow
    <3> QED BY <1>1, <1>k, <2>1, <2>3, <3>1, OperationRequestLeaves, RowsStay
  <2> QED BY <1>6, <2>2, <2>3 DEF Operations!TakeOver
<1>7. ASSUME NEW r \in Repeats, Operations!Work(r) PROVE OperationInv'
  <2>1. calls[r].pc = "work" /\ UNCHANGED <<ops, told>>
    BY <1>7 DEF Operations!Work
  <2>2. \A g \in Goals : work[g] # "open" => work'[g] # "open"
    BY <1>7, <1>1 DEF Operations!Work, Operations!TypeOK
  <2>3. \/ Operations!Goto(r, "complete") /\ work'[calls[r].goal] # "open"
        \/ Operations!Goto(r, "release")
    BY <1>7, <1>1, <1>k DEF Operations!Work, Operations!TypeOK
  <2>4. /\ \A q \in Repeats \ {r} : calls'[q] = calls[q]
        /\ calls'[r].pc \in {"complete", "release"}
        /\ calls'[r].key = calls[r].key /\ calls'[r].goal = calls[r].goal
        /\ calls'[r].pc = "complete" => work'[calls[r].goal] # "open"
    BY <1>1, <1>p, <2>3, OperationRequestGoes
  <2> QED BY <1>1, <1>k, <2>1, <2>2, <2>4, RowsStay
<1>8. ASSUME NEW r \in Repeats, Operations!CompleteOperation(r) PROVE OperationInv'
  <2>1. calls[r].pc = "complete" /\ UNCHANGED work /\ Operations!Leave(r)
    BY <1>8 DEF Operations!CompleteOperation
  <2>2. calls'[r].pc = "idle" /\ \A q \in Repeats \ {r} : calls'[q] = calls[q]
    BY <1>1, <2>1, OperationRequestLeaves
  <2>3. calls[r].key \in OpKeys /\ calls[r].goal \in Goals
    BY <1>k, <2>1
  <2> PICK K \in OpKeys : K = calls[r].key
    BY <2>3
  <2>4. CASE ~Operations!Holds(r) /\ UNCHANGED <<ops, told>>
    <3>1. ops[K].holder # r
      BY <2>3, <2>4, OwnRow DEF Operations!Holds, Operations!Row
    <3> QED BY <1>1, <2>1, <2>2, <2>3, <2>4, <3>1, RowsStay
  <2>5. CASE /\ Operations!Holds(r) /\ Operations!Write(r, [Operations!Row(r) EXCEPT !.answered = TRUE, !.holder = NoOne])
             /\ told' = told \cup {<<K, calls[r].goal>>}
    <3>1. ops[K].goal = calls[r].goal /\ ~ops[K].answered
      BY <2>3, <2>5, OwnRow DEF Operations!Holds, Operations!Row
    <3>2. Operations!Row(r) \in OperationRowType
      BY <2>3, <1>1 DEF Operations!Row, OperationRowType, Operations!TypeOK
    <3>w. Operations!Write(r, Answered(Operations!Row(r)))
      BY <2>5 DEF Answered
    <3>3. ops'[K] = Answered(Operations!Row(r)) /\ \A k \in OpKeys \ {K} : ops'[k] = ops[k]
      BY <1>1, <2>3, <3>w, <3>2, AnswerRow, RowWritten
    <3>4. ops'[K].answered /\ ops'[K].holder = NoOne /\ ops'[K].goal = calls[r].goal
      BY <3>1, <3>2, <3>3, AnswerRow DEF Operations!Row
    <3>5. HolderWorks(K)'
      BY <3>4 DEF HolderWorks
    <3>6. \A k \in OpKeys \ {K} : ops[k].holder # r
      BY OwnRow
    <3>7. work[calls[r].goal] # "open"
      BY <2>1 DEF OperationInv, WorkIsDone
    <3> QED BY <1>1, <2>1, <2>2, <2>3, <2>5, <3>1, <3>3, <3>4, <3>5, <3>6, <3>7,
               OneRequest
  <2> QED BY <1>8, <2>4, <2>5 DEF Operations!CompleteOperation
<1>9. ASSUME NEW r \in Repeats, Operations!ReleaseOperation(r) PROVE OperationInv'
  <2>1. calls[r].pc = "release" /\ UNCHANGED <<work, told>> /\ Operations!Leave(r)
    BY <1>9 DEF Operations!ReleaseOperation
  <2>2. calls'[r].pc = "idle" /\ \A q \in Repeats \ {r} : calls'[q] = calls[q]
    BY <1>1, <2>1, OperationRequestLeaves
  <2>3. calls[r].key \in OpKeys
    BY <1>k, <2>1
  <2> PICK K \in OpKeys : K = calls[r].key
    BY <2>3
  <2>4. CASE ~Operations!Holds(r) /\ UNCHANGED ops
    <3>1. ops[K].holder # r
      BY <2>3, <2>4, OwnRow DEF Operations!Holds, Operations!Row
    <3> QED BY <1>1, <2>1, <2>2, <2>3, <2>4, <3>1, RowsStay
  <2>5. CASE Operations!Holds(r) /\ Operations!Write(r, Operations!Absent)
    <3>1. ~ops[K].answered
      BY <2>5 DEF Operations!Holds, Operations!Row
    <3>2. Operations!Absent \in OperationRowType
      BY DEF Operations!Absent, OperationRowType
    <3>3. ops'[K] = Operations!Absent /\ \A k \in OpKeys \ {K} : ops'[k] = ops[k]
      BY <1>1, <2>3, <2>5, <3>2, AnswerRow, RowWritten
    <3>4. ~ops'[K].answered /\ ops'[K].holder = NoOne
      BY <3>3 DEF Operations!Absent
    <3>5. HolderWorks(K)'
      BY <3>4 DEF HolderWorks
    <3>6. \A k \in OpKeys \ {K} : ops[k].holder # r
      BY OwnRow
    <3> QED BY <1>1, <2>1, <2>2, <2>3, <3>1, <3>3, <3>4, <3>5, <3>6, OneRequest
  <2> QED BY <1>9, <2>4, <2>5 DEF Operations!ReleaseOperation
<1>10. ASSUME NEW r \in Repeats, Operations!Stop(r) PROVE OperationInv'
  <2>1. UNCHANGED <<work, told>> /\ Operations!Leave(r) /\ calls[r].pc # "idle"
    BY <1>10 DEF Operations!Stop
  <2>2. calls'[r].pc = "idle" /\ \A q \in Repeats \ {r} : calls'[q] = calls[q]
    BY <1>1, <2>1, OperationRequestLeaves
  <2>3. calls[r].key \in OpKeys
    BY <1>k, <2>1
  <2> PICK K \in OpKeys : K = calls[r].key
    BY <2>3
  <2>4. \A k \in OpKeys : ops'[k] = IF ops[k].holder = r THEN [ops[k] EXCEPT !.holder = NoOne]
                                    ELSE ops[k]
    BY <1>10 DEF Operations!Stop
  <2>5. \A k \in OpKeys \ {K} : ops'[k] = ops[k] /\ ops[k].holder # r
    BY <2>4, OwnRow
  <2>6. /\ ops'[K].answered = ops[K].answered /\ ops'[K].goal = ops[K].goal
        /\ ops'[K].holder = IF ops[K].holder = r THEN NoOne ELSE ops[K].holder
    BY <1>1, <2>3, <2>4 DEF Operations!TypeOK
  <2>7. HolderWorks(K)'
    <3>1. HolderWorks(K) /\ (ops[K].holder # NoOne => ops[K].holder \in Repeats)
      BY <2>3 DEF OperationInv, HoldersWork, HolderWorks, Operations!TypeOK
    <3> QED BY <2>2, <2>6, <3>1 DEF HolderWorks
  <2>8. ops[K].answered => ops[K].goal \in Goals /\ work[ops[K].goal] # "open"
    BY <2>3 DEF OperationInv, AnsweredHasGoal, Operations!AnswersStand,
       Operations!RecordedIsReal
  <2> QED BY <1>1, <2>1, <2>2, <2>3, <2>5, <2>6, <2>7, <2>8, OneRequest
<1>11. ASSUME NEW k \in OpKeys, Operations!LeasePasses(k) PROVE OperationInv'
  <2>1. UNCHANGED <<work, calls, told>>
    BY <1>11 DEF Operations!LeasePasses
  <2>2. \A j \in OpKeys : /\ ops'[j].answered = ops[j].answered /\ ops'[j].goal = ops[j].goal
                          /\ ops'[j].holder = ops[j].holder
    BY <1>11, <1>1 DEF Operations!LeasePasses, Operations!TypeOK
  <2>3. HoldersWork' /\ WorkIsDone'
    BY <2>1, <2>2 DEF OperationInv, HoldersWork, WorkIsDone
  <2>4. AnsweredHasGoal' /\ Operations!ToldIsRecorded' /\ Operations!RecordedIsReal'
    BY <2>1, <2>2 DEF OperationInv, AnsweredHasGoal, Operations!AnswersStand,
       Operations!ToldIsRecorded, Operations!RecordedIsReal
  <2> QED BY <1>1, <2>3, <2>4 DEF OperationInv, Operations!AnswersStand
<1>12. ASSUME NEW g \in Goals, Operations!MovesOn(g) PROVE OperationInv'
  <2>1. UNCHANGED <<ops, calls, told>>
    BY <1>12 DEF Operations!MovesOn
  <2>2. \A h \in Goals : work[h] # "open" => work'[h] # "open"
    BY <1>12, <1>1 DEF Operations!MovesOn, Operations!TypeOK
  <2>3. WorkIsDone'
    BY <1>k, <2>1, <2>2 DEF OperationInv, WorkIsDone
  <2>4. AnsweredHasGoal' /\ Operations!RecordedIsReal'
    BY <2>1, <2>2 DEF OperationInv, AnsweredHasGoal, Operations!AnswersStand,
       Operations!RecordedIsReal
  <2>5. HoldersWork' /\ Operations!ToldIsRecorded'
    BY <2>1 DEF OperationInv, HoldersWork, Operations!AnswersStand,
       Operations!ToldIsRecorded
  <2> QED BY <1>1, <2>3, <2>4, <2>5 DEF OperationInv, Operations!AnswersStand
<1> QED
  BY <1>2, <1>3, <1>4, <1>5, <1>6, <1>7, <1>8, <1>9, <1>10, <1>11, <1>12, OperationSteps

LEMMA OperationsGo == [Next]_vars => [Operations!Next]_(Operations!vars)
  BY DEF Next, Only, vars, operationsVars, Operations!vars

LEMMA OperationInvariant == Spec => []OperationInv
<1>1. Init => OperationInv
  BY OperationInvInit DEF Init
<1>2. OperationInv /\ [Next]_vars => OperationInv'
  BY OperationsGo, OperationInvStep
<1> QED BY <1>1, <1>2, PTL DEF Spec

\* An answer that was given stays the answer of its key and took place, however many
\* requests repeat, overtake each other and stop under the key (phone_operations.rs).
THEOREM AnswersStandCorrect == Spec => []AnswersStand
<1>1. OperationInv => AnswersStand
  BY DEF OperationInv, AnswersStand
<1> QED BY <1>1, OperationInvariant, PTL

\* What ClaimIsKept says of a step.
KeepsClaims ==
  \A r \in Repeats :
    calls[r].pc \in {"work", "complete", "release"} /\ Operations!Holds(r) /\ ~Operations!Row(r).due
    /\ calls'[r] = calls[r] => ops'[calls[r].key].holder = r

LEMMA KeepsClaimsStep ==
  ASSUME OperationInv, Operations!Next
  PROVE  KeepsClaims
<1> SUFFICES ASSUME NEW r \in Repeats, calls[r].pc \in {"work", "complete", "release"},
                    Operations!Holds(r), ~Operations!Row(r).due, calls'[r] = calls[r]
             PROVE  ops'[calls[r].key].holder = r
  BY DEF KeepsClaims
<1> USE DEF OperationInv, Operations!TypeOK, Asked, Operations!Holds, Operations!Row
<1>1. ASSUME NEW q \in Repeats, NEW k \in OpKeys, NEW g \in Goals, Operations!Ask(q, k, g)
      PROVE  ops'[calls[r].key].holder = r
  BY <1>1 DEF Operations!Ask
<1>2. ASSUME NEW q \in Repeats, Operations!BeginOperation(q) PROVE ops'[calls[r].key].holder = r
  BY <1>2, OperationsAssumption
     DEF Operations!BeginOperation, Operations!Write, Operations!Absent
<1>3. ASSUME NEW q \in Repeats, Operations!LookAtRow(q) PROVE ops'[calls[r].key].holder = r
  BY <1>3 DEF Operations!LookAtRow
<1>4. ASSUME NEW q \in Repeats, Operations!TakeOver(q) PROVE ops'[calls[r].key].holder = r
  BY <1>4 DEF Operations!TakeOver, Operations!Write, Operations!Expirable
<1>5. ASSUME NEW q \in Repeats, Operations!Work(q) PROVE ops'[calls[r].key].holder = r
  BY <1>5 DEF Operations!Work
<1>6. ASSUME NEW q \in Repeats, Operations!CompleteOperation(q) PROVE ops'[calls[r].key].holder = r
  <2>1. q # r
    BY <1>6 DEF Operations!CompleteOperation, Operations!Leave, Operations!Idle
  <2> QED BY <2>1, <1>6 DEF Operations!CompleteOperation, Operations!Write
<1>7. ASSUME NEW q \in Repeats, Operations!ReleaseOperation(q) PROVE ops'[calls[r].key].holder = r
  <2>1. q # r
    BY <1>7 DEF Operations!ReleaseOperation, Operations!Leave, Operations!Idle
  <2> QED BY <2>1, <1>7 DEF Operations!ReleaseOperation, Operations!Write
<1>8. ASSUME NEW q \in Repeats, Operations!Stop(q) PROVE ops'[calls[r].key].holder = r
  <2>1. q # r
    BY <1>8 DEF Operations!Stop, Operations!Leave, Operations!Idle
  <2> QED BY <2>1, <1>8 DEF Operations!Stop
<1>9. ASSUME NEW k \in OpKeys, Operations!LeasePasses(k) PROVE ops'[calls[r].key].holder = r
  BY <1>9 DEF Operations!LeasePasses
<1>10. ASSUME NEW g \in Goals, Operations!MovesOn(g) PROVE ops'[calls[r].key].holder = r
  BY <1>10 DEF Operations!MovesOn
<1> QED
  BY <1>1, <1>2, <1>3, <1>4, <1>5, <1>6, <1>7, <1>8, <1>9, <1>10, OperationSteps

\* While the lease of a claim lasts no other request takes it over or frees it
\* (phone_operations.rs).
THEOREM ClaimIsKeptCorrect == Spec => ClaimIsKept
<1>1. OperationInv /\ [Next]_vars => [KeepsClaims]_(Operations!vars)
  BY OperationsGo, KeepsClaimsStep
<1>2. ClaimIsKept <=> [][KeepsClaims]_(Operations!vars)
  BY DEF ClaimIsKept, Operations!ClaimIsKept, KeepsClaims
<1> QED BY <1>1, <1>2, OperationInvariant, PTL DEF Spec

-----------------------------------------------------------------------------
(* Access: refresh tokens and pairing codes, auth.rs and lib.rs. *)

\* A request that rotates a token or issues one knows the login it is for, and one that
\* claims a code knows the code.
AccessAimed == \A r \in Requests :
  /\ reqs[r].pc = "issue" => reqs[r].login \in Logins
  /\ reqs[r].pc = "rotate" => /\ reqs[r].token \in RefreshTokens /\ reqs[r].login \in Logins
                              /\ tokens[reqs[r].token].login = reqs[r].login
  /\ reqs[r].pc = "claim" => reqs[r].code \in Codes

\* The winner of a code has made its claim.
WinnerIsOver == \A c \in Codes :
  codes[c].by # NoOne => reqs[codes[c].by].pc = "over" /\ codes[c].by \in Requests

Issuing(r, l) == reqs[r].pc = "issue" /\ reqs[r].login = l
Good(t, l) == tokens[t].login = l /\ Access!Live(t)

\* A login has one good token, or one request that issues the next.
OneHeir == \A l \in Logins :
  /\ \A t, u \in RefreshTokens : Good(t, l) /\ Good(u, l) => t = u
  /\ \A r, q \in Requests : Issuing(r, l) /\ Issuing(q, l) => r = q
  /\ \A t \in RefreshTokens, r \in Requests : ~(Good(t, l) /\ Issuing(r, l))

\* The inductive invariant.
AccessInv == Access!TypeOK /\ AccessAimed /\ WinnerIsOver /\ OneHeir /\ Access!OneAgentPerCode

-----------------------------------------------------------------------------
PCs == {"idle", "issue", "rotate", "claim", "over"}
AccessReqType == [pc : PCs, token : RefreshTokens \cup {NoOne}, login : Logins \cup {NoOne},
            code : Codes \cup {NoOne}, late : BOOLEAN]
TokenType == [login : Logins \cup {NoOne}, revoked : BOOLEAN, due : BOOLEAN]
CodeType == [status : {"none", "waiting", "claimed"}, by : Requests \cup {NoOne}, due : BOOLEAN]

LEMMA AccessTypes ==
  /\ Access!TypeOK <=> /\ tokens \in [RefreshTokens -> TokenType] /\ codes \in [Codes -> CodeType]
                /\ agents \subseteq Requests \X Codes /\ reqs \in [Requests -> AccessReqType]
  /\ Access!TypeOK' <=> /\ tokens' \in [RefreshTokens -> TokenType] /\ codes' \in [Codes -> CodeType]
                 /\ agents' \subseteq Requests \X Codes /\ reqs' \in [Requests -> AccessReqType]
BY DEF Access!TypeOK, TokenType, CodeType, AccessReqType, PCs

LEMMA AccessRequestGoes ==
  ASSUME Access!TypeOK, NEW r \in Requests, NEW pc \in PCs, Access!Goto(r, pc)
  PROVE  /\ reqs' \in [Requests -> AccessReqType]
         /\ reqs'[r].pc = pc /\ reqs'[r].token = reqs[r].token /\ reqs'[r].login = reqs[r].login
         /\ reqs'[r].code = reqs[r].code
         /\ \A q \in Requests \ {r} : reqs'[q] = reqs[q]
<1>1. reqs' \in [Requests -> AccessReqType]
  BY DEF Access!TypeOK, Access!Goto, AccessReqType, PCs
<1>2. /\ reqs'[r].pc = pc /\ reqs'[r].token = reqs[r].token /\ reqs'[r].login = reqs[r].login
      /\ reqs'[r].code = reqs[r].code
  BY DEF Access!TypeOK, Access!Goto
<1>3. \A q \in Requests \ {r} : reqs'[q] = reqs[q]
  BY DEF Access!TypeOK, Access!Goto
<1> QED BY <1>1, <1>2, <1>3

LEMMA AccessRequestLeaves ==
  ASSUME Access!TypeOK, NEW r \in Requests, Access!Leave(r)
  PROVE  /\ reqs' \in [Requests -> AccessReqType] /\ reqs'[r].pc = "idle"
         /\ \A q \in Requests \ {r} : reqs'[q] = reqs[q]
BY DEF Access!TypeOK, Access!Leave, Access!Idle, AccessReqType, PCs

LEMMA TokenRevoked ==
  ASSUME Access!TypeOK, NEW t \in RefreshTokens, tokens' = [tokens EXCEPT ![t].revoked = TRUE]
  PROVE  /\ tokens' \in [RefreshTokens -> TokenType]
         /\ tokens'[t].revoked /\ tokens'[t].login = tokens[t].login
         /\ \A u \in RefreshTokens \ {t} : tokens'[u] = tokens[u]
<1> DEFINE new == [tokens[t] EXCEPT !.revoked = TRUE]
<1>0. tokens \in [RefreshTokens -> TokenType] /\ tokens[t] \in TokenType
  BY AccessTypes
<1>n. new \in TokenType /\ new.revoked = TRUE /\ new.login = tokens[t].login
  BY <1>0 DEF TokenType
<1>w. tokens' = [tokens EXCEPT ![t] = new]
  BY <1>0
<1> HIDE DEF new
<1>1. tokens' \in [RefreshTokens -> TokenType]
  BY <1>0, <1>n, <1>w
<1>2. tokens'[t].revoked
  BY <1>0, <1>n, <1>w
<1>3. tokens'[t].login = tokens[t].login
  BY DEF Access!TypeOK
<1> QED BY <1>1, <1>2, <1>3 DEF Access!TypeOK

LEMMA AccessInvInit == ASSUME Access!Init PROVE AccessInv
<1>1. Access!TypeOK
  BY DEF Access!Init, Access!TypeOK, Access!NoToken, Access!NoCode, Access!Idle
<1>2. AccessAimed /\ WinnerIsOver
  BY DEF Access!Init, AccessAimed, WinnerIsOver, Access!NoCode, Access!Idle
<1>3. OneHeir
  BY AccessAssumption DEF Access!Init, OneHeir, Good, Issuing, Access!NoToken,
     Access!Idle
<1>4. Access!OneAgentPerCode
  BY DEF Access!Init, Access!OneAgentPerCode, Access!NoCode
<1> QED BY <1>1, <1>2, <1>3, <1>4 DEF AccessInv

-----------------------------------------------------------------------------
(* The types and what a request is about. *)

LEMMA AccessSteps ==
  ASSUME Access!Next
  PROVE  \/ \E r \in Requests :
              \/ \E l \in Logins : Access!Login(r, l)
              \/ \E t \in RefreshTokens : Access!IssueToken(r, t) \/ Access!StartRefresh(r, t)
              \/ Access!RotateToken(r) \/ \E c \in Codes : Access!StartClaim(r, c)
              \/ Access!ClaimCode(r) \/ Access!Stop(r)
         \/ \E t \in RefreshTokens : Access!Logout(t) \/ Access!TokenExpires(t)
         \/ \E c \in Codes : Access!CreateCode(c) \/ Access!CodeExpires(c)
BY DEF Access!Next

\* What each action does, point by point.
LEMMA LoginDoes ==
  ASSUME AccessInv, NEW r \in Requests, NEW l \in Logins, Access!Login(r, l)
  PROVE  /\ reqs' \in [Requests -> AccessReqType] /\ reqs[r].pc = "idle"
         /\ reqs'[r].pc = "issue" /\ reqs'[r].login = l
         /\ \A q \in Requests \ {r} : reqs'[q] = reqs[q]
         /\ \A t \in RefreshTokens : tokens[t].login # l
         /\ \A q \in Requests : reqs[q].login # l
         /\ UNCHANGED <<tokens, codes, agents>>
BY DEF AccessInv, Access!TypeOK, Access!Login, Access!Idle, AccessReqType, PCs

LEMMA RefreshDoes ==
  ASSUME AccessInv, NEW r \in Requests, NEW t \in RefreshTokens, Access!StartRefresh(r, t)
  PROVE  /\ reqs' \in [Requests -> AccessReqType] /\ reqs[r].pc = "idle"
         /\ reqs'[r].pc = "rotate" /\ reqs'[r].token = t
         /\ reqs'[r].login = tokens[t].login /\ tokens[t].login \in Logins
         /\ \A q \in Requests \ {r} : reqs'[q] = reqs[q]
         /\ UNCHANGED <<tokens, codes, agents>>
<1>1. tokens[t].login \in Logins /\ reqs[r].pc = "idle"
  BY DEF AccessInv, Access!TypeOK, Access!StartRefresh, Access!Live
<1> QED BY <1>1 DEF AccessInv, Access!TypeOK, Access!StartRefresh, Access!Idle,
           AccessReqType, PCs

LEMMA StartClaimDoes ==
  ASSUME AccessInv, NEW r \in Requests, NEW c \in Codes, Access!StartClaim(r, c)
  PROVE  /\ reqs' \in [Requests -> AccessReqType] /\ reqs[r].pc = "idle"
         /\ reqs'[r].pc = "claim" /\ reqs'[r].code = c
         /\ \A q \in Requests \ {r} : reqs'[q] = reqs[q]
         /\ UNCHANGED <<tokens, codes, agents>>
BY DEF AccessInv, Access!TypeOK, Access!StartClaim, Access!Idle, AccessReqType, PCs

LEMMA IssueDoes ==
  ASSUME AccessInv, NEW r \in Requests, NEW t \in RefreshTokens, Access!IssueToken(r, t)
  PROVE  /\ reqs' \in [Requests -> AccessReqType]
         /\ reqs[r].pc = "issue" /\ reqs[r].login \in Logins /\ reqs'[r].pc = "idle"
         /\ \A q \in Requests \ {r} : reqs'[q] = reqs[q]
         /\ tokens' \in [RefreshTokens -> TokenType] /\ tokens'[t].login = reqs[r].login
         /\ tokens[t].login = NoOne
         /\ \A u \in RefreshTokens \ {t} : tokens'[u] = tokens[u]
         /\ UNCHANGED <<codes, agents>>
<1>1. reqs[r].pc = "issue" /\ reqs[r].login \in Logins /\ Access!TypeOK /\ Access!Leave(r)
      /\ UNCHANGED <<codes, agents>>
  BY DEF AccessInv, AccessAimed, Access!IssueToken
<1>2. tokens' = [tokens EXCEPT ![t].login = reqs[r].login]
  BY DEF Access!IssueToken
<1>3. tokens' \in [RefreshTokens -> TokenType]
  BY <1>1, <1>2 DEF Access!TypeOK, TokenType
<1>4. tokens'[t].login = reqs[r].login /\ \A u \in RefreshTokens \ {t} : tokens'[u] = tokens[u]
  BY <1>1, <1>2 DEF Access!TypeOK
<1>5. tokens[t].login = NoOne
  BY DEF Access!IssueToken, Access!NoToken
<1> QED BY <1>1, <1>3, <1>4, <1>5, AccessRequestLeaves

LEMMA RotateDoes ==
  ASSUME AccessInv, NEW r \in Requests, Access!RotateToken(r)
  PROVE  LET t == reqs[r].token IN
         /\ reqs' \in [Requests -> AccessReqType] /\ tokens' \in [RefreshTokens -> TokenType]
         /\ reqs[r].pc = "rotate" /\ t \in RefreshTokens
         /\ reqs[r].login \in Logins /\ tokens[t].login = reqs[r].login
         /\ tokens'[t].revoked /\ tokens'[t].login = tokens[t].login
         /\ \A u \in RefreshTokens \ {t} : tokens'[u] = tokens[u]
         /\ \A q \in Requests \ {r} : reqs'[q] = reqs[q]
         /\ \/ Access!Live(t) /\ reqs'[r].pc = "issue" /\ reqs'[r].login = reqs[r].login
            \/ ~Access!Live(t) /\ reqs'[r].pc = "idle"
         /\ UNCHANGED <<codes, agents>>
<1>1. /\ Access!TypeOK /\ reqs[r].pc = "rotate" /\ reqs[r].token \in RefreshTokens /\ reqs[r].login \in Logins
      /\ tokens[reqs[r].token].login = reqs[r].login /\ UNCHANGED <<codes, agents>>
  BY DEF AccessInv, AccessAimed, Access!RotateToken
<1> PICK t \in RefreshTokens : t = reqs[r].token
  BY <1>1
<1>2. tokens' = [tokens EXCEPT ![t].revoked = TRUE]
  BY DEF Access!RotateToken
<1>3. /\ tokens' \in [RefreshTokens -> TokenType]
      /\ tokens'[t].revoked /\ tokens'[t].login = tokens[t].login
      /\ \A u \in RefreshTokens \ {t} : tokens'[u] = tokens[u]
  BY <1>1, <1>2, TokenRevoked
<1>4. Access!Live(t) <=> ~tokens[t].revoked
  BY <1>1, AccessAssumption DEF Access!Live
<1>5. \/ Access!Live(t) /\ Access!Goto(r, "issue")
      \/ ~Access!Live(t) /\ Access!Leave(r)
  BY <1>4 DEF Access!RotateToken, Access!Rotates
<1>6. CASE Access!Live(t) /\ Access!Goto(r, "issue")
  BY <1>1, <1>3, <1>6, AccessRequestGoes DEF PCs
<1>7. CASE ~Access!Live(t) /\ Access!Leave(r)
  BY <1>1, <1>3, <1>7, AccessRequestLeaves
<1> QED BY <1>5, <1>6, <1>7

\* The two outcomes of a claim.
LEMMA ClaimDoes ==
  ASSUME AccessInv, NEW r \in Requests, Access!ClaimCode(r)
  PROVE  LET c == reqs[r].code IN
         /\ reqs' \in [Requests -> AccessReqType] /\ codes' \in [Codes -> CodeType]
         /\ reqs[r].pc = "claim" /\ c \in Codes /\ reqs'[r].pc = "over"
         /\ \A q \in Requests \ {r} : reqs'[q] = reqs[q]
         /\ UNCHANGED tokens
         /\ \/ /\ codes[c].status = "waiting"
               /\ codes'[c].status = "claimed" /\ codes'[c].by = r
               /\ \A d \in Codes \ {c} : codes'[d] = codes[d]
               /\ agents' = agents \cup {<<r, c>>}
            \/ UNCHANGED <<codes, agents>>
<1>1. /\ Access!TypeOK /\ reqs[r].pc = "claim" /\ reqs[r].code \in Codes /\ Access!Goto(r, "over")
      /\ UNCHANGED tokens
  BY DEF AccessInv, AccessAimed, Access!ClaimCode
<1> PICK c \in Codes : c = reqs[r].code
  BY <1>1
<1>2. /\ reqs' \in [Requests -> AccessReqType] /\ reqs'[r].pc = "over"
      /\ \A q \in Requests \ {r} : reqs'[q] = reqs[q]
  BY <1>1, AccessRequestGoes DEF PCs
<1>3. codes[c].by # r
  BY <1>1, AccessAssumption DEF AccessInv, WinnerIsOver
<1>4. CASE codes[c].status = "waiting" /\ ~reqs[r].late
  <2>1. codes' = [codes EXCEPT ![c].status = "claimed", ![c].by = r]
    BY <1>4 DEF Access!ClaimCode
  <2>2. codes'[c].status = "claimed" /\ codes'[c].by = r /\ \A d \in Codes \ {c} : codes'[d] = codes[d]
    BY <1>1, <2>1 DEF Access!TypeOK
  <2>3. codes' \in [Codes -> CodeType]
    <3>1. codes \in [Codes -> CodeType] /\ codes[c] \in CodeType
      BY <1>1, AccessTypes
    <3>2. codes' = [codes EXCEPT ![c] = [codes[c] EXCEPT !.status = "claimed", !.by = r]]
      BY <2>1, <3>1
    <3>3. [codes[c] EXCEPT !.status = "claimed", !.by = r] \in CodeType
      BY <3>1 DEF CodeType
    <3> QED BY <3>1, <3>2, <3>3
  <2>4. agents' = agents \cup {<<r, c>>}
    BY <2>2 DEF Access!ClaimCode, Access!Claimed
  <2> QED BY <1>1, <1>2, <1>4, <2>2, <2>3, <2>4
<1>5. CASE ~(codes[c].status = "waiting" /\ ~reqs[r].late)
  <2>1. UNCHANGED codes
    BY <1>5 DEF Access!ClaimCode
  <2>2. UNCHANGED agents
    BY <1>3, <2>1 DEF Access!ClaimCode, Access!Claimed
  <2> QED BY <1>1, <1>2, <2>1, <2>2, AccessTypes
<1> QED BY <1>4, <1>5

-----------------------------------------------------------------------------
(* The invariant is kept. *)

\* A step that leaves the codes alone keeps what is said of them, as long as no claim
\* that is over begins again.
LEMMA CodesStay ==
  ASSUME AccessInv, UNCHANGED <<codes, agents>>, NEW r \in Requests, reqs[r].pc # "over",
         \A q \in Requests \ {r} : reqs'[q] = reqs[q]
  PROVE  WinnerIsOver' /\ Access!OneAgentPerCode'
<1>1. WinnerIsOver'
  BY DEF AccessInv, WinnerIsOver
<1>2. Access!OneAgentPerCode'
  BY DEF AccessInv, Access!OneAgentPerCode
<1> QED BY <1>1, <1>2

LEMMA LoginStep ==
  ASSUME AccessInv, NEW r \in Requests, NEW l \in Logins, Access!Login(r, l)
  PROVE  AccessInv'
<1> USE LoginDoes
<1>1. Access!TypeOK'
  BY AccessTypes DEF AccessInv
<1>2. AccessAimed'
  BY DEF AccessInv, AccessAimed
<1>3. WinnerIsOver' /\ Access!OneAgentPerCode'
  BY CodesStay
<1>4. OneHeir'
  <2> SUFFICES ASSUME NEW m \in Logins
               PROVE  /\ \A t, u \in RefreshTokens : Good(t, m)' /\ Good(u, m)' => t = u
                      /\ \A p, q \in Requests : Issuing(p, m)' /\ Issuing(q, m)' => p = q
                      /\ \A t \in RefreshTokens, p \in Requests : ~(Good(t, m)' /\ Issuing(p, m)')
    BY DEF OneHeir
  <2>1. \A t \in RefreshTokens : Good(t, m)' <=> Good(t, m)
    BY DEF Good, Access!Live
  <2>2. \A p \in Requests \ {r} : Issuing(p, m)' <=> Issuing(p, m)
    BY DEF Issuing
  <2>3. Issuing(r, m)' <=> l = m
    BY DEF Issuing
  <2>4. m = l => (\A t \in RefreshTokens : ~Good(t, m)) /\ (\A p \in Requests : ~Issuing(p, m))
    BY DEF Good, Issuing
  <2> QED BY <2>1, <2>2, <2>3, <2>4 DEF AccessInv, OneHeir
<1> QED BY <1>1, <1>2, <1>3, <1>4 DEF AccessInv

LEMMA RefreshStep ==
  ASSUME AccessInv, NEW r \in Requests, NEW t \in RefreshTokens, Access!StartRefresh(r, t)
  PROVE  AccessInv'
<1> USE RefreshDoes
<1>1. Access!TypeOK'
  BY AccessTypes DEF AccessInv
<1>2. AccessAimed'
  BY DEF AccessInv, AccessAimed
<1>3. WinnerIsOver' /\ Access!OneAgentPerCode'
  BY CodesStay
<1>4. OneHeir'
  <2>1. \A u \in RefreshTokens, m \in Logins : Good(u, m)' <=> Good(u, m)
    BY DEF Good, Access!Live
  <2>2. \A p \in Requests, m \in Logins : Issuing(p, m)' => Issuing(p, m)
    BY DEF Issuing
  <2> QED BY <2>1, <2>2 DEF AccessInv, OneHeir
<1> QED BY <1>1, <1>2, <1>3, <1>4 DEF AccessInv

LEMMA StartClaimStep ==
  ASSUME AccessInv, NEW r \in Requests, NEW c \in Codes, Access!StartClaim(r, c)
  PROVE  AccessInv'
<1> USE StartClaimDoes
<1>1. Access!TypeOK'
  BY AccessTypes DEF AccessInv
<1>2. AccessAimed'
  BY DEF AccessInv, AccessAimed
<1>3. WinnerIsOver' /\ Access!OneAgentPerCode'
  BY CodesStay
<1>4. OneHeir'
  <2>1. \A u \in RefreshTokens, m \in Logins : Good(u, m)' <=> Good(u, m)
    BY DEF Good, Access!Live
  <2>2. \A p \in Requests, m \in Logins : Issuing(p, m)' => Issuing(p, m)
    BY DEF Issuing
  <2> QED BY <2>1, <2>2 DEF AccessInv, OneHeir
<1> QED BY <1>1, <1>2, <1>3, <1>4 DEF AccessInv

LEMMA IssueStep ==
  ASSUME AccessInv, NEW r \in Requests, NEW t \in RefreshTokens, Access!IssueToken(r, t)
  PROVE  AccessInv'
<1> USE IssueDoes
<1>1. Access!TypeOK'
  BY AccessTypes DEF AccessInv
<1>2. AccessAimed'
  <2> SUFFICES ASSUME NEW q \in Requests \ {r}
               PROVE  /\ reqs[q].pc = "rotate" => tokens'[reqs[q].token].login = reqs[q].login
    BY DEF AccessInv, AccessAimed
  <2> QED BY AccessAssumption DEF AccessInv, AccessAimed
<1>3. WinnerIsOver' /\ Access!OneAgentPerCode'
  BY CodesStay
<1>4. OneHeir'
  <2> SUFFICES ASSUME NEW m \in Logins
               PROVE  /\ \A v, u \in RefreshTokens : Good(v, m)' /\ Good(u, m)' => v = u
                      /\ \A p, q \in Requests : Issuing(p, m)' /\ Issuing(q, m)' => p = q
                      /\ \A v \in RefreshTokens, p \in Requests : ~(Good(v, m)' /\ Issuing(p, m)')
    BY DEF OneHeir
  <2>1. \A u \in RefreshTokens \ {t} : Good(u, m)' <=> Good(u, m)
    BY DEF Good, Access!Live
  <2>2. \A p \in Requests : Issuing(p, m)' => Issuing(p, m) /\ p # r
    BY DEF Issuing
  <2>3. Good(t, m)' => Issuing(r, m)
    BY DEF Good, Issuing
  <2> QED BY <2>1, <2>2, <2>3 DEF AccessInv, OneHeir
<1> QED BY <1>1, <1>2, <1>3, <1>4 DEF AccessInv

LEMMA RotateStep ==
  ASSUME AccessInv, NEW r \in Requests, Access!RotateToken(r)
  PROVE  AccessInv'
<1> PICK t \in RefreshTokens : t = reqs[r].token
  BY RotateDoes
<1>d. /\ reqs' \in [Requests -> AccessReqType] /\ tokens' \in [RefreshTokens -> TokenType]
      /\ reqs[r].pc = "rotate"
      /\ reqs[r].login \in Logins /\ tokens[t].login = reqs[r].login
      /\ tokens'[t].revoked /\ tokens'[t].login = tokens[t].login
      /\ \A u \in RefreshTokens \ {t} : tokens'[u] = tokens[u]
      /\ \A q \in Requests \ {r} : reqs'[q] = reqs[q]
      /\ \/ Access!Live(t) /\ reqs'[r].pc = "issue" /\ reqs'[r].login = reqs[r].login
         \/ ~Access!Live(t) /\ reqs'[r].pc = "idle"
      /\ UNCHANGED <<codes, agents>>
  BY RotateDoes
<1>1. Access!TypeOK'
  BY <1>d, AccessTypes DEF AccessInv
<1>2. AccessAimed'
  BY <1>d DEF AccessInv, AccessAimed
<1>3. WinnerIsOver' /\ Access!OneAgentPerCode'
  BY <1>d, CodesStay
<1>4. OneHeir'
  <2> SUFFICES ASSUME NEW m \in Logins
               PROVE  /\ \A v, u \in RefreshTokens : Good(v, m)' /\ Good(u, m)' => v = u
                      /\ \A p, q \in Requests : Issuing(p, m)' /\ Issuing(q, m)' => p = q
                      /\ \A v \in RefreshTokens, p \in Requests : ~(Good(v, m)' /\ Issuing(p, m)')
    BY DEF OneHeir
  <2>1. \A u \in RefreshTokens : Good(u, m)' => Good(u, m) /\ u # t
    BY <1>d DEF Good, Access!Live
  <2>2. \A p \in Requests \ {r} : Issuing(p, m)' <=> Issuing(p, m)
    BY <1>d DEF Issuing
  <2>3. Issuing(r, m)' => Good(t, m)
    BY <1>d DEF Good, Issuing
  <2> QED BY <2>1, <2>2, <2>3 DEF AccessInv, OneHeir
<1> QED BY <1>1, <1>2, <1>3, <1>4 DEF AccessInv

LEMMA ClaimStep ==
  ASSUME AccessInv, NEW r \in Requests, Access!ClaimCode(r)
  PROVE  AccessInv'
<1> PICK c \in Codes : c = reqs[r].code
  BY ClaimDoes
<1>d. /\ reqs' \in [Requests -> AccessReqType] /\ codes' \in [Codes -> CodeType]
      /\ reqs[r].pc = "claim" /\ reqs'[r].pc = "over"
      /\ \A q \in Requests \ {r} : reqs'[q] = reqs[q]
      /\ UNCHANGED tokens
      /\ \/ /\ codes[c].status = "waiting"
            /\ codes'[c].status = "claimed" /\ codes'[c].by = r
            /\ \A d \in Codes \ {c} : codes'[d] = codes[d]
            /\ agents' = agents \cup {<<r, c>>}
         \/ UNCHANGED <<codes, agents>>
  BY ClaimDoes
<1>1. Access!TypeOK'
  BY <1>d, AccessTypes DEF AccessInv
<1>2. AccessAimed'
  BY <1>d DEF AccessInv, AccessAimed
<1>3. OneHeir'
  <2>1. \A u \in RefreshTokens, m \in Logins : Good(u, m)' <=> Good(u, m)
    BY <1>d DEF Good, Access!Live
  <2>2. \A p \in Requests, m \in Logins : Issuing(p, m)' => Issuing(p, m)
    BY <1>d DEF Issuing
  <2> QED BY <2>1, <2>2 DEF AccessInv, OneHeir
<1>4. CASE UNCHANGED <<codes, agents>>
  BY <1>1, <1>2, <1>3, <1>4, <1>d, CodesStay DEF AccessInv
<1>5. CASE /\ codes[c].status = "waiting"
           /\ codes'[c].status = "claimed" /\ codes'[c].by = r
           /\ \A d \in Codes \ {c} : codes'[d] = codes[d]
           /\ agents' = agents \cup {<<r, c>>}
  <2>1. WinnerIsOver'
    <3> SUFFICES ASSUME NEW d \in Codes, codes'[d].by # NoOne
                 PROVE  reqs'[codes'[d].by].pc = "over" /\ codes'[d].by \in Requests
      BY DEF WinnerIsOver
    <3>1. CASE d = c
      BY <3>1, <1>5, <1>d
    <3>2. CASE d # c
      <4>1. codes'[d] = codes[d] /\ reqs[codes[d].by].pc = "over" /\ codes[d].by \in Requests
        BY <3>2, <1>5 DEF AccessInv, WinnerIsOver
      <4> QED BY <4>1, <1>d
    <3> QED BY <3>1, <3>2
  <2>2. Access!OneAgentPerCode'
    <3> SUFFICES ASSUME NEW d \in Codes
                 PROVE  {a \in agents' : a[2] = d}
                        = IF codes'[d].status = "claimed" THEN {<<codes'[d].by, d>>} ELSE {}
      BY DEF Access!OneAgentPerCode
    <3>0. {a \in agents : a[2] = d}
          = IF codes[d].status = "claimed" THEN {<<codes[d].by, d>>} ELSE {}
      BY DEF AccessInv, Access!OneAgentPerCode
    <3>1. CASE d = c
      <4>1. {a \in agents : a[2] = d} = {}
        BY <3>0, <3>1, <1>5
      <4>2. {a \in agents' : a[2] = d} = {<<r, c>>}
        BY <4>1, <3>1, <1>5
      <4> QED BY <4>2, <3>1, <1>5
    <3>2. CASE d # c
      <4>1. {a \in agents' : a[2] = d} = {a \in agents : a[2] = d}
        BY <3>2, <1>5
      <4> QED BY <4>1, <3>0, <3>2, <1>5
    <3> QED BY <3>1, <3>2
  <2> QED BY <1>1, <1>2, <1>3, <2>1, <2>2 DEF AccessInv
<1> QED BY <1>d, <1>4, <1>5

LEMMA AccessStopStep ==
  ASSUME AccessInv, NEW r \in Requests, Access!Stop(r)
  PROVE  AccessInv'
<1>d. /\ reqs' \in [Requests -> AccessReqType] /\ reqs'[r].pc = "idle"
      /\ \A q \in Requests \ {r} : reqs'[q] = reqs[q]
      /\ reqs[r].pc # "over" /\ UNCHANGED <<tokens, codes, agents>>
  BY AccessRequestLeaves DEF AccessInv, Access!Stop
<1>1. Access!TypeOK'
  BY <1>d, AccessTypes DEF AccessInv
<1>2. AccessAimed'
  BY <1>d DEF AccessInv, AccessAimed
<1>3. WinnerIsOver' /\ Access!OneAgentPerCode'
  BY <1>d, CodesStay
<1>4. OneHeir'
  <2>1. \A u \in RefreshTokens, m \in Logins : Good(u, m)' <=> Good(u, m)
    BY <1>d DEF Good, Access!Live
  <2>2. \A p \in Requests, m \in Logins : Issuing(p, m)' => Issuing(p, m)
    BY <1>d DEF Issuing
  <2> QED BY <2>1, <2>2 DEF AccessInv, OneHeir
<1> QED BY <1>1, <1>2, <1>3, <1>4 DEF AccessInv

\* A token that is revoked or expires, without a request of the model.
LEMMA TokenStep ==
  ASSUME AccessInv, NEW t \in RefreshTokens, Access!Logout(t) \/ Access!TokenExpires(t)
  PROVE  AccessInv'
<1>d. UNCHANGED <<codes, agents, reqs>> /\ Access!TypeOK
  BY DEF AccessInv, Access!Logout, Access!TokenExpires
<1>1. /\ tokens' \in [RefreshTokens -> TokenType] /\ tokens'[t].login = tokens[t].login
      /\ tokens[t].revoked => tokens'[t].revoked
      /\ \A u \in RefreshTokens \ {t} : tokens'[u] = tokens[u]
  <2>1. CASE Access!Logout(t)
    BY <1>d, <2>1, TokenRevoked DEF Access!Logout
  <2>2. CASE Access!TokenExpires(t)
    <3>1. tokens' = [tokens EXCEPT ![t].due = TRUE] /\ ~tokens[t].revoked
      BY <2>2 DEF Access!TokenExpires, Access!Live
    <3>2. tokens' \in [RefreshTokens -> TokenType]
      <4> DEFINE new == [tokens[t] EXCEPT !.due = TRUE]
      <4>1. tokens \in [RefreshTokens -> TokenType] /\ tokens[t] \in TokenType
        BY <1>d, AccessTypes
      <4>2. new \in TokenType
        BY <4>1 DEF TokenType
      <4>3. tokens' = [tokens EXCEPT ![t] = new]
        BY <3>1
      <4> HIDE DEF new
      <4> QED BY <4>1, <4>2, <4>3
    <3>3. tokens'[t].login = tokens[t].login /\ \A u \in RefreshTokens \ {t} : tokens'[u] = tokens[u]
      BY <1>d, <3>1 DEF Access!TypeOK
    <3> QED BY <3>1, <3>2, <3>3
  <2> QED BY <2>1, <2>2
<1>2. Access!TypeOK' /\ AccessAimed'
  BY <1>d, <1>1, AccessTypes DEF AccessInv, AccessAimed
<1>3. WinnerIsOver' /\ Access!OneAgentPerCode'
  BY <1>d DEF AccessInv, WinnerIsOver, Access!OneAgentPerCode
<1>4. OneHeir'
  <2>1. \A u \in RefreshTokens, m \in Logins : Good(u, m)' => Good(u, m)
    BY <1>1 DEF Good, Access!Live
  <2>2. \A p \in Requests, m \in Logins : Issuing(p, m)' => Issuing(p, m)
    BY <1>d DEF Issuing
  <2> QED BY <2>1, <2>2 DEF AccessInv, OneHeir
<1> QED BY <1>2, <1>3, <1>4 DEF AccessInv

\* A code that is made or expires.
LEMMA CodeStep ==
  ASSUME AccessInv, NEW c \in Codes, Access!CreateCode(c) \/ Access!CodeExpires(c)
  PROVE  AccessInv'
<1>d. UNCHANGED <<tokens, agents, reqs>> /\ Access!TypeOK
  BY DEF AccessInv, Access!CreateCode, Access!CodeExpires
<1>1. /\ codes' \in [Codes -> CodeType] /\ codes'[c].by = codes[c].by
      /\ codes'[c].status # "claimed" /\ codes[c].status # "claimed"
      /\ \A d \in Codes \ {c} : codes'[d] = codes[d]
  <2>1. CASE Access!CreateCode(c)
    BY <1>d, <2>1 DEF Access!CreateCode, Access!TypeOK, CodeType
  <2>2. CASE Access!CodeExpires(c)
    BY <1>d, <2>2 DEF Access!CodeExpires, Access!TypeOK, CodeType
  <2> QED BY <2>1, <2>2
<1>2. Access!TypeOK' /\ AccessAimed'
  BY <1>d, <1>1, AccessTypes DEF AccessInv, AccessAimed
<1>3. WinnerIsOver'
  BY <1>d, <1>1 DEF AccessInv, WinnerIsOver
<1>4. Access!OneAgentPerCode'
  BY <1>d, <1>1 DEF AccessInv, Access!OneAgentPerCode
<1>5. OneHeir'
  BY <1>d DEF AccessInv, OneHeir, Good, Issuing, Access!Live
<1> QED BY <1>2, <1>3, <1>4, <1>5 DEF AccessInv

LEMMA AccessInvStep ==
  ASSUME AccessInv, [Access!Next]_(Access!vars)
  PROVE  AccessInv'
<1>1. CASE UNCHANGED Access!vars
  BY <1>1 DEF Access!vars, AccessInv, Access!TypeOK, AccessAimed, WinnerIsOver, OneHeir,
     Good, Issuing, Access!Live,
              Access!OneAgentPerCode
<1> QED BY <1>1, AccessSteps, LoginStep, RefreshStep, StartClaimStep, IssueStep,
           RotateStep, ClaimStep,
           AccessStopStep, TokenStep, CodeStep

LEMMA AccessGo == [Next]_vars => [Access!Next]_(Access!vars)
  BY DEF Next, Only, vars, accessVars, Access!vars

LEMMA AccessInvariant == Spec => []AccessInv
<1>1. Init => AccessInv
  BY AccessInvInit DEF Init
<1>2. AccessInv /\ [Next]_vars => AccessInv'
  BY AccessGo, AccessInvStep
<1> QED BY <1>1, <1>2, PTL DEF Spec

\* A pairing code makes one agent, that of the claim that won it, however many hosts claim
\* the code at the same time (lib.rs, claim_pairing).
THEOREM OneAgentPerCodeCorrect == Spec => []OneAgentPerCode
<1>1. AccessInv => OneAgentPerCode
  BY DEF AccessInv, OneAgentPerCode
<1> QED BY <1>1, AccessInvariant, PTL

LEMMA AccessCardinality == \A S : Access!Cardinality(S) = Cardinality(S)
  BY DEF Cardinality, Access!Cardinality

\* A login has one good token or one request that issues it, however its refreshes race
\* (lib.rs, auth_refresh).
THEOREM OneTokenPerLoginCorrect == Spec => []OneTokenPerLogin
<1>1. AccessInv => OneTokenPerLogin
  <2> SUFFICES ASSUME AccessInv, NEW l \in Logins
               PROVE  Cardinality({t \in RefreshTokens : tokens[t].login = l /\ Access!Live(t)}
                        \cup {r \in Requests : reqs[r].pc = "issue" /\ reqs[r].login = l}) <= 1
    BY AccessCardinality DEF OneTokenPerLogin, Access!OneTokenPerLogin
  <2> DEFINE G == {t \in RefreshTokens : tokens[t].login = l /\ Access!Live(t)}
             I == {r \in Requests : reqs[r].pc = "issue" /\ reqs[r].login = l}
  <2>1. \A x, y \in G \cup I : x = y
    <3>1. \A t, u \in G : t = u
      BY DEF AccessInv, OneHeir, Good
    <3>2. \A r, q \in I : r = q
      BY DEF AccessInv, OneHeir, Issuing
    <3>3. G = {} \/ I = {}
      BY DEF AccessInv, OneHeir, Good, Issuing
    <3> QED BY <3>1, <3>2, <3>3
  <2> HIDE DEF G, I
  <2>2. G \cup I = {} \/ \E x : G \cup I = {x}
    BY <2>1
  <2>3. Cardinality(G \cup I) = 0 \/ Cardinality(G \cup I) = 1
    <3>1. CASE G \cup I = {}
      BY <3>1, FS_EmptySet
    <3>2. ASSUME NEW x, G \cup I = {x} PROVE Cardinality(G \cup I) = 1
      <4>1. Cardinality({x}) = 1
        BY FS_Singleton
      <4> QED BY <3>2, <4>1
    <3> QED BY <2>2, <3>1, <3>2
  <2> QED BY <2>3 DEF G, I
<1> QED BY <1>1, AccessInvariant, PTL

\* What DeadStaysDead says of a step.
StaysDead ==
  \A l \in Logins : (\E t \in RefreshTokens : tokens[t].login = l) /\ ~Access!Alive(l) => ~Access!Alive(l)'

\* A login whose last token was revoked stays without one: a refresh that read the token
\* before is not answered with a new one.
THEOREM DeadStaysDeadCorrect == Spec => Access!DeadStaysDead
<1>1. ASSUME AccessInv, Access!Next PROVE StaysDead
  <2> SUFFICES ASSUME NEW l \in Logins, NEW t \in RefreshTokens, tokens[t].login = l,
                      \A u \in RefreshTokens : ~Good(u, l), \A q \in Requests : ~Issuing(q, l)
               PROVE  /\ \A u \in RefreshTokens : ~Good(u, l)'
                      /\ \A q \in Requests : ~Issuing(q, l)'
    BY DEF StaysDead, Access!Alive, Good, Issuing
  <2>1. ASSUME NEW r \in Requests, NEW m \in Logins, Access!Login(r, m)
        PROVE  /\ \A u \in RefreshTokens : ~Good(u, l)' /\ \A q \in Requests : ~Issuing(q, l)'
    BY <1>1, <2>1, LoginDoes DEF Good, Issuing, Access!Live
  <2>2. ASSUME NEW r \in Requests, NEW u \in RefreshTokens, Access!IssueToken(r, u)
        PROVE  /\ \A v \in RefreshTokens : ~Good(v, l)' /\ \A q \in Requests : ~Issuing(q, l)'
    BY <1>1, <2>2, IssueDoes DEF Good, Issuing, Access!Live
  <2>3. ASSUME NEW r \in Requests, NEW u \in RefreshTokens, Access!StartRefresh(r, u)
        PROVE  /\ \A v \in RefreshTokens : ~Good(v, l)' /\ \A q \in Requests : ~Issuing(q, l)'
    BY <1>1, <2>3, RefreshDoes DEF Good, Issuing, Access!Live
  <2>4. ASSUME NEW r \in Requests, Access!RotateToken(r)
        PROVE  /\ \A v \in RefreshTokens : ~Good(v, l)' /\ \A q \in Requests : ~Issuing(q, l)'
    BY <1>1, <2>4, RotateDoes DEF Good, Issuing, Access!Live
  <2>5. ASSUME NEW r \in Requests, NEW c \in Codes, Access!StartClaim(r, c)
        PROVE  /\ \A v \in RefreshTokens : ~Good(v, l)' /\ \A q \in Requests : ~Issuing(q, l)'
    BY <1>1, <2>5, StartClaimDoes DEF Good, Issuing, Access!Live
  <2>6. ASSUME NEW r \in Requests, Access!ClaimCode(r)
        PROVE  /\ \A v \in RefreshTokens : ~Good(v, l)' /\ \A q \in Requests : ~Issuing(q, l)'
    BY <1>1, <2>6, ClaimDoes DEF Good, Issuing, Access!Live
  <2>7. ASSUME NEW r \in Requests, Access!Stop(r)
        PROVE  /\ \A v \in RefreshTokens : ~Good(v, l)' /\ \A q \in Requests : ~Issuing(q, l)'
    BY <1>1, <2>7, AccessRequestLeaves DEF AccessInv, Access!Stop, Good, Issuing,
       Access!Live
  <2>8. ASSUME NEW u \in RefreshTokens, Access!Logout(u)
        PROVE  /\ \A v \in RefreshTokens : ~Good(v, l)' /\ \A q \in Requests : ~Issuing(q, l)'
    BY <1>1, <2>8, TokenRevoked DEF AccessInv, Access!Logout, Good, Issuing, Access!Live
  <2>9. ASSUME NEW u \in RefreshTokens, Access!TokenExpires(u)
        PROVE  /\ \A v \in RefreshTokens : ~Good(v, l)' /\ \A q \in Requests : ~Issuing(q, l)'
    <3>1. tokens' = [tokens EXCEPT ![u].due = TRUE] /\ UNCHANGED reqs /\ Access!Live(u) /\ Access!TypeOK
      BY <1>1, <2>9 DEF AccessInv, Access!TokenExpires
    <3>2. /\ tokens'[u].login = tokens[u].login
          /\ \A v \in RefreshTokens \ {u} : tokens'[v] = tokens[v]
      BY <3>1 DEF Access!TypeOK
    <3>3. \A v \in RefreshTokens : ~Good(v, l)'
      BY <3>1, <3>2 DEF Good, Access!Live
    <3> QED BY <3>1, <3>3 DEF Issuing
  <2>10. ASSUME NEW c \in Codes, Access!CreateCode(c) \/ Access!CodeExpires(c)
         PROVE  /\ \A v \in RefreshTokens : ~Good(v, l)' /\ \A q \in Requests : ~Issuing(q, l)'
    BY <1>1, <2>10 DEF Access!CreateCode, Access!CodeExpires, Good, Issuing, Access!Live
  <2> QED BY <1>1, <2>1, <2>2, <2>3, <2>4, <2>5, <2>6, <2>7, <2>8, <2>9, <2>10,
             AccessSteps
<1>2. AccessInv /\ [Next]_vars => [StaysDead]_(Access!vars)
  BY <1>1, AccessGo
<1>3. Access!DeadStaysDead <=> [][StaysDead]_(Access!vars)
  BY DEF Access!DeadStaysDead, StaysDead
<1> QED BY <1>2, <1>3, AccessInvariant, PTL DEF Spec

-----------------------------------------------------------------------------
(* Pushes: the registration of devices, lib.rs. *)

\* A registration under way knows its device, and the row it has found is of the device.
PushAimed == \A r \in Registrations : regs[r].pc = "write" =>
  /\ regs[r].user \in Users /\ regs[r].app \in Apps
  /\ regs[r].row # NoOne => /\ devices[regs[r].row].user = regs[r].user
                           /\ devices[regs[r].row].app = regs[r].app

\* One row for each token, and one for each device that had no overlap: row by row.
OneToken == \A d, e \in DeviceIds :
  devices[d].token = devices[e].token /\ devices[d].token \in PushTokens => d = e
OneDevice == \A d, e \in DeviceIds :
  /\ devices[d].user = devices[e].user /\ devices[d].user \in Users
  /\ devices[d].app = devices[e].app
  /\ <<devices[d].user, devices[d].app>> \notin collided
  => d = e

\* A registration that found no row is the only one for its device, and there is none
\* yet, as long as nothing overlapped.
FirstIsAlone == \A r \in Registrations :
  /\ regs[r].pc = "write" /\ regs[r].row = NoOne
  /\ <<regs[r].user, regs[r].app>> \notin collided
  => /\ \A d \in DeviceIds : ~(devices[d].user = regs[r].user /\ devices[d].app = regs[r].app)
     /\ \A q \in Registrations : /\ regs[q].pc = "write"
                            /\ regs[q].user = regs[r].user /\ regs[q].app = regs[r].app
                            => q = r

\* The inductive invariant.
PushInv == Pushes!TypeOK /\ PushAimed /\ OneToken /\ OneDevice /\ FirstIsAlone

PushRowType == [user : Users \cup {NoOne}, app : Apps \cup {NoOne}, token : PushTokens \cup {NoOne}]
RegType == [pc : {"idle", "write"}, user : Users \cup {NoOne}, app : Apps \cup {NoOne},
            token : PushTokens \cup {NoOne}, row : DeviceIds \cup {NoOne}]

LEMMA PushTypes ==
  /\ Pushes!TypeOK <=> /\ devices \in [DeviceIds -> PushRowType] /\ regs \in [Registrations -> RegType]
                /\ collided \subseteq Users \X Apps
  /\ Pushes!TypeOK' <=> /\ devices' \in [DeviceIds -> PushRowType] /\ regs' \in [Registrations -> RegType]
                 /\ collided' \subseteq Users \X Apps
BY DEF Pushes!TypeOK, PushRowType, RegType

LEMMA PushInvInit == ASSUME Pushes!Init PROVE PushInv
<1>1. Pushes!TypeOK
  BY DEF Pushes!Init, Pushes!TypeOK, Pushes!NoRow, Pushes!Idle
<1>2. \A d \in DeviceIds : devices[d].user = NoOne /\ devices[d].token = NoOne
  BY DEF Pushes!Init, Pushes!NoRow
<1>3. \A r \in Registrations : regs[r].pc = "idle"
  BY DEF Pushes!Init, Pushes!Idle
<1> QED BY <1>1, <1>2, <1>3, PushesAssumption DEF PushInv, PushAimed, OneToken,
           OneDevice, FirstIsAlone

-----------------------------------------------------------------------------
(* What the steps do, point by point. *)

LEMMA PushRequestLeaves ==
  ASSUME Pushes!TypeOK, NEW r \in Registrations, regs' = [regs EXCEPT ![r] = Pushes!Idle]
  PROVE  /\ regs' \in [Registrations -> RegType] /\ regs'[r].pc = "idle"
         /\ \A q \in Registrations \ {r} : regs'[q] = regs[q]
BY DEF Pushes!TypeOK, RegType, Pushes!Idle

LEMMA StartDoes ==
  ASSUME PushInv, NEW r \in Registrations, NEW u \in Users, NEW a \in Apps,
         NEW tok \in PushTokens \cup {NoOne}, Pushes!StartRegistration(r, u, a, tok)
  PROVE  /\ regs[r].pc = "idle" /\ UNCHANGED devices
         /\ regs' \in [Registrations -> RegType]
         /\ \A q \in Registrations \ {r} : regs'[q] = regs[q]
         /\ regs'[r].pc = "write" /\ regs'[r].user = u /\ regs'[r].app = a
         /\ \/ regs'[r].row = NoOne /\ \A d \in DeviceIds : ~(devices[d].user = u /\ devices[d].app = a)
            \/ /\ regs'[r].row \in DeviceIds
               /\ devices[regs'[r].row].user = u /\ devices[regs'[r].row].app = a
         /\ collided' \subseteq Users \X Apps /\ collided \subseteq collided'
         /\ <<u, a>> \notin collided' => \A q \in Registrations :
              ~(regs[q].pc = "write" /\ regs[q].user = u /\ regs[q].app = a)
<1>1. PICK d \in IF Pushes!RowsOf(u, a) = {} THEN {NoOne} ELSE Pushes!RowsOf(u, a) :
        regs' = [regs EXCEPT ![r] = [pc |-> "write", user |-> u, app |-> a, token |-> tok, row |-> d]]
  BY DEF Pushes!StartRegistration
<1>2. d \in DeviceIds \cup {NoOne}
  BY DEF Pushes!RowsOf
<1>3. /\ regs' \in [Registrations -> RegType]
      /\ \A q \in Registrations \ {r} : regs'[q] = regs[q]
      /\ regs'[r].pc = "write" /\ regs'[r].user = u /\ regs'[r].app = a /\ regs'[r].row = d
  BY <1>1, <1>2 DEF PushInv, Pushes!TypeOK, RegType
<1>4. \/ d = NoOne /\ \A e \in DeviceIds : ~(devices[e].user = u /\ devices[e].app = a)
      \/ d \in DeviceIds /\ devices[d].user = u /\ devices[d].app = a
  BY DEF Pushes!RowsOf
<1>5. /\ collided' \subseteq Users \X Apps /\ collided \subseteq collided'
      /\ <<u, a>> \notin collided' => \A q \in Registrations :
           ~(regs[q].pc = "write" /\ regs[q].user = u /\ regs[q].app = a)
  BY DEF PushInv, Pushes!TypeOK, Pushes!StartRegistration
<1>6. regs[r].pc = "idle" /\ UNCHANGED devices
  BY DEF Pushes!StartRegistration
<1> QED BY <1>3, <1>4, <1>5, <1>6

LEMMA WriteDoes ==
  ASSUME PushInv, NEW r \in Registrations, NEW d \in DeviceIds, Pushes!WriteRegistration(r, d)
  PROVE  /\ regs[r].pc = "write" /\ UNCHANGED collided
         /\ regs' \in [Registrations -> RegType] /\ regs'[r].pc = "idle"
         /\ \A q \in Registrations \ {r} : regs'[q] = regs[q]
         /\ devices' \in [DeviceIds -> PushRowType]
         /\ devices'[d].user = regs[r].user /\ devices'[d].app = regs[r].app
         /\ devices'[d].token = regs[r].token
         /\ \A e \in DeviceIds \ {d} :
              /\ devices'[e].user = devices[e].user /\ devices'[e].app = devices[e].app
              /\ devices'[e].token \in {NoOne, devices[e].token}
              /\ regs[r].token # NoOne => devices'[e].token # regs[r].token
         /\ \/ devices[d].user = NoOne
            \/ regs[r].row = d /\ devices[d].user = regs[r].user /\ devices[d].app = regs[r].app
<1>1. Pushes!TypeOK /\ regs[r].pc = "write" /\ UNCHANGED collided /\ regs' = [regs EXCEPT ![r] = Pushes!Idle]
  BY DEF PushInv, Pushes!WriteRegistration
<1> DEFINE new == [user |-> regs[r].user, app |-> regs[r].app, token |-> regs[r].token]
<1>2. devices' = [Pushes!Retired(regs[r].user, regs[r].token) EXCEPT ![d] = new]
  BY DEF Pushes!WriteRegistration
<1>3. devices \in [DeviceIds -> PushRowType] /\ regs[r] \in RegType
  BY <1>1, PushTypes
<1>4. \A e \in DeviceIds : devices[e] \in PushRowType /\ [devices[e] EXCEPT !.token = NoOne] \in PushRowType
  <2> SUFFICES ASSUME NEW e \in DeviceIds
               PROVE  devices[e] \in PushRowType /\ [devices[e] EXCEPT !.token = NoOne] \in PushRowType
    OBVIOUS
  <2>1. devices[e] \in PushRowType
    BY <1>3
  <2> QED BY <2>1 DEF PushRowType
<1>5. Pushes!Retired(regs[r].user, regs[r].token) \in [DeviceIds -> PushRowType]
  BY <1>4 DEF Pushes!Retired
<1>6. new \in PushRowType
  BY <1>3 DEF RegType, PushRowType
<1>7. devices'[d] = new /\ devices' \in [DeviceIds -> PushRowType]
  BY <1>2, <1>5, <1>6
<1>8. ASSUME NEW e \in DeviceIds \ {d}
      PROVE  /\ devices'[e].user = devices[e].user /\ devices'[e].app = devices[e].app
             /\ devices'[e].token \in {NoOne, devices[e].token}
             /\ regs[r].token # NoOne => devices'[e].token # regs[r].token
  <2>1. devices'[e] = IF regs[r].token # NoOne /\ devices[e].token = regs[r].token
                      THEN [devices[e] EXCEPT !.token = NoOne] ELSE devices[e]
    BY <1>2, <1>5 DEF Pushes!Retired
  <2>2. /\ [devices[e] EXCEPT !.token = NoOne].user = devices[e].user
        /\ [devices[e] EXCEPT !.token = NoOne].app = devices[e].app
        /\ [devices[e] EXCEPT !.token = NoOne].token = NoOne
    BY <1>4 DEF PushRowType
  <2> QED BY <2>1, <2>2
<1>9. \/ devices[d].user = NoOne
      \/ regs[r].row = d /\ devices[d].user = regs[r].user /\ devices[d].app = regs[r].app
  BY <1>1, PushesAssumption DEF PushInv, PushAimed, Pushes!WriteRegistration,
     Pushes!Target, Pushes!NoRow
<1>10. /\ devices'[d].user = regs[r].user /\ devices'[d].app = regs[r].app
       /\ devices'[d].token = regs[r].token
  BY <1>7
<1>11. /\ regs' \in [Registrations -> RegType] /\ regs'[r].pc = "idle"
       /\ \A q \in Registrations \ {r} : regs'[q] = regs[q]
  BY <1>1, PushRequestLeaves
<1> HIDE DEF new
<1> QED BY <1>1, <1>7, <1>8, <1>9, <1>10, <1>11

-----------------------------------------------------------------------------
LEMMA StartStep ==
  ASSUME PushInv, NEW r \in Registrations, NEW u \in Users, NEW a \in Apps,
         NEW tok \in PushTokens \cup {NoOne}, Pushes!StartRegistration(r, u, a, tok)
  PROVE  PushInv'
<1>d. /\ regs[r].pc = "idle" /\ UNCHANGED devices
      /\ regs' \in [Registrations -> RegType]
      /\ \A q \in Registrations \ {r} : regs'[q] = regs[q]
      /\ regs'[r].pc = "write" /\ regs'[r].user = u /\ regs'[r].app = a
      /\ \/ regs'[r].row = NoOne /\ \A d \in DeviceIds : ~(devices[d].user = u /\ devices[d].app = a)
         \/ /\ regs'[r].row \in DeviceIds
            /\ devices[regs'[r].row].user = u /\ devices[regs'[r].row].app = a
      /\ collided' \subseteq Users \X Apps /\ collided \subseteq collided'
      /\ <<u, a>> \notin collided' => \A q \in Registrations :
           ~(regs[q].pc = "write" /\ regs[q].user = u /\ regs[q].app = a)
  BY StartDoes
<1>1. Pushes!TypeOK'
  BY <1>d, PushTypes DEF PushInv
<1>2. PushAimed'
  BY <1>d, PushesAssumption DEF PushInv, PushAimed
<1>3. OneToken' /\ OneDevice'
  BY <1>d DEF PushInv, OneToken, OneDevice
<1>4. FirstIsAlone'
  <2> SUFFICES ASSUME NEW p \in Registrations, regs'[p].pc = "write", regs'[p].row = NoOne,
                      <<regs'[p].user, regs'[p].app>> \notin collided'
               PROVE  /\ \A d \in DeviceIds : ~(devices[d].user = regs'[p].user
                                           /\ devices[d].app = regs'[p].app)
                      /\ \A q \in Registrations : /\ regs'[q].pc = "write"
                                             /\ regs'[q].user = regs'[p].user
                                             /\ regs'[q].app = regs'[p].app
                                             => q = p
    BY <1>d DEF FirstIsAlone
  <2>1. CASE p = r
    <3>1. regs'[p].user = u /\ regs'[p].app = a
      BY <1>d, <2>1
    <3>2. \A d \in DeviceIds : ~(devices[d].user = u /\ devices[d].app = a)
      BY <1>d, <2>1, PushesAssumption
    <3>3. \A q \in Registrations : ~(regs[q].pc = "write" /\ regs[q].user = u /\ regs[q].app = a)
      BY <1>d, <3>1
    <3>4. ASSUME NEW q \in Registrations, regs'[q].pc = "write", regs'[q].user = u,
                 regs'[q].app = a
          PROVE  q = p
      BY <1>d, <2>1, <3>3, <3>4
    <3> QED BY <3>1, <3>2, <3>4
  <2>2. CASE p # r
    <3>1. regs'[p] = regs[p] /\ <<regs[p].user, regs[p].app>> \notin collided
      BY <1>d, <2>2
    <3>2. /\ \A d \in DeviceIds : ~(devices[d].user = regs[p].user /\ devices[d].app = regs[p].app)
          /\ \A q \in Registrations : /\ regs[q].pc = "write"
                                 /\ regs[q].user = regs[p].user /\ regs[q].app = regs[p].app
                                 => q = p
      BY <3>1 DEF PushInv, FirstIsAlone
    <3>3. ~(u = regs[p].user /\ a = regs[p].app)
      BY <1>d, <3>1
    <3>4. ASSUME NEW q \in Registrations, regs'[q].pc = "write", regs'[q].user = regs'[p].user,
                 regs'[q].app = regs'[p].app
          PROVE  q = p
      BY <1>d, <3>1, <3>2, <3>3, <3>4
    <3> QED BY <3>1, <3>2, <3>4
  <2> QED BY <2>1, <2>2
<1> QED BY <1>1, <1>2, <1>3, <1>4 DEF PushInv

LEMMA WriteStep ==
  ASSUME PushInv, NEW r \in Registrations, NEW d \in DeviceIds, Pushes!WriteRegistration(r, d)
  PROVE  PushInv'
<1>d. /\ regs[r].pc = "write" /\ UNCHANGED collided
      /\ regs' \in [Registrations -> RegType] /\ regs'[r].pc = "idle"
      /\ \A q \in Registrations \ {r} : regs'[q] = regs[q]
      /\ devices' \in [DeviceIds -> PushRowType]
      /\ devices'[d].user = regs[r].user /\ devices'[d].app = regs[r].app
      /\ devices'[d].token = regs[r].token
      /\ \A e \in DeviceIds \ {d} :
           /\ devices'[e].user = devices[e].user /\ devices'[e].app = devices[e].app
           /\ devices'[e].token \in {NoOne, devices[e].token}
           /\ regs[r].token # NoOne => devices'[e].token # regs[r].token
      /\ \/ devices[d].user = NoOne
         \/ regs[r].row = d /\ devices[d].user = regs[r].user /\ devices[d].app = regs[r].app
  BY WriteDoes
<1>1. Pushes!TypeOK'
  BY <1>d, PushTypes DEF PushInv
<1>0. regs[r].user \in Users /\ regs[r].app \in Apps /\ regs[r].token \in PushTokens \cup {NoOne}
      /\ (regs[r].row # NoOne => devices[regs[r].row].user = regs[r].user
                                /\ devices[regs[r].row].app = regs[r].app)
  BY <1>d DEF PushInv, PushAimed, Pushes!TypeOK
<1>2. PushAimed'
  <2> SUFFICES ASSUME NEW q \in Registrations \ {r}, regs[q].pc = "write"
               PROVE  /\ regs[q].user \in Users /\ regs[q].app \in Apps
                      /\ regs[q].row # NoOne => /\ devices'[regs[q].row].user = regs[q].user
                                               /\ devices'[regs[q].row].app = regs[q].app
    BY <1>d DEF PushAimed
  <2>1. /\ regs[q].user \in Users /\ regs[q].app \in Apps /\ regs[q].row \in DeviceIds \cup {NoOne}
        /\ regs[q].row # NoOne => /\ devices[regs[q].row].user = regs[q].user
                                 /\ devices[regs[q].row].app = regs[q].app
    BY DEF PushInv, PushAimed, Pushes!TypeOK
  <2>2. CASE regs[q].row = d
    BY <1>d, <2>1, <2>2, <1>0, PushesAssumption
  <2>3. CASE regs[q].row # d
    BY <1>d, <2>1, <2>3
  <2> QED BY <2>2, <2>3
<1>3. OneToken'
  <2> SUFFICES ASSUME NEW e \in DeviceIds, NEW f \in DeviceIds, devices'[e].token = devices'[f].token,
                      devices'[e].token \in PushTokens
               PROVE  e = f
    BY DEF OneToken
  <2>1. CASE e # d /\ f # d
    BY <1>d, <2>1, PushesAssumption DEF PushInv, OneToken
  <2>2. CASE e = d \/ f = d
    BY <1>d, <2>2, PushesAssumption
  <2> QED BY <2>1, <2>2
<1>4. OneDevice'
  <2> SUFFICES ASSUME NEW e \in DeviceIds \ {d},
                      devices[e].user = regs[r].user, devices[e].app = regs[r].app,
                      <<regs[r].user, regs[r].app>> \notin collided
               PROVE  FALSE
    BY <1>d DEF PushInv, OneDevice
  <2>1. regs[r].row # NoOne
    BY <1>d DEF PushInv, FirstIsAlone
  <2>2. regs[r].row = d
    BY <2>1 DEF Pushes!WriteRegistration, Pushes!Target
  <2> QED BY <2>1, <2>2, <1>0 DEF PushInv, OneDevice
<1>5. FirstIsAlone'
  <2> SUFFICES ASSUME NEW p \in Registrations \ {r}, regs[p].pc = "write", regs[p].row = NoOne,
                      <<regs[p].user, regs[p].app>> \notin collided
               PROVE  /\ \A e \in DeviceIds : ~(devices'[e].user = regs[p].user
                                           /\ devices'[e].app = regs[p].app)
                      /\ \A q \in Registrations \ {r} :
                           /\ regs[q].pc = "write"
                           /\ regs[q].user = regs[p].user /\ regs[q].app = regs[p].app
                           => q = p
    BY <1>d DEF FirstIsAlone
  <2>1. /\ \A e \in DeviceIds : ~(devices[e].user = regs[p].user /\ devices[e].app = regs[p].app)
        /\ \A q \in Registrations : /\ regs[q].pc = "write"
                               /\ regs[q].user = regs[p].user /\ regs[q].app = regs[p].app
                               => q = p
    BY DEF PushInv, FirstIsAlone
  <2>2. ~(regs[r].user = regs[p].user /\ regs[r].app = regs[p].app)
    BY <1>d, <2>1
  <2>3. \A e \in DeviceIds : ~(devices'[e].user = regs[p].user /\ devices'[e].app = regs[p].app)
    <3> SUFFICES ASSUME NEW e \in DeviceIds
                 PROVE  ~(devices'[e].user = regs[p].user /\ devices'[e].app = regs[p].app)
      OBVIOUS
    <3>1. CASE e = d
      BY <1>d, <2>2, <3>1
    <3>2. CASE e # d
      <4>1. devices'[e].user = devices[e].user /\ devices'[e].app = devices[e].app
        BY <1>d, <3>2
      <4> QED BY <2>1, <4>1
    <3> QED BY <3>1, <3>2
  <2> QED BY <2>1, <2>3
<1> QED BY <1>1, <1>2, <1>3, <1>4, <1>5 DEF PushInv

LEMMA PushStopStep ==
  ASSUME PushInv, NEW r \in Registrations, Pushes!Stop(r)
  PROVE  PushInv'
<1>d. /\ regs' \in [Registrations -> RegType] /\ regs'[r].pc = "idle"
      /\ \A q \in Registrations \ {r} : regs'[q] = regs[q]
      /\ UNCHANGED <<devices, collided>>
  BY PushRequestLeaves DEF PushInv, Pushes!Stop
<1>1. Pushes!TypeOK'
  BY <1>d, PushTypes DEF PushInv
<1>2. PushAimed' /\ OneToken' /\ OneDevice'
  BY <1>d DEF PushInv, PushAimed, OneToken, OneDevice
<1>3. FirstIsAlone'
  BY <1>d DEF PushInv, FirstIsAlone
<1> QED BY <1>1, <1>2, <1>3 DEF PushInv

LEMMA PushInvStep ==
  ASSUME PushInv, [Pushes!Next]_(Pushes!vars)
  PROVE  PushInv'
<1>1. CASE UNCHANGED Pushes!vars
  BY <1>1 DEF Pushes!vars, PushInv, Pushes!TypeOK, PushAimed, OneToken, OneDevice,
     FirstIsAlone
<1> QED BY <1>1, StartStep, WriteStep, PushStopStep DEF Pushes!Next

-----------------------------------------------------------------------------
\* A set whose members are all the same has at most one.
LEMMA AtMostOne ==
  ASSUME NEW S, \A x, y \in S : x = y
  PROVE  Cardinality(S) \in {0, 1}
<1>1. S = {} \/ \E x : S = {x}
  OBVIOUS
<1>2. CASE S = {}
  BY <1>2, FS_EmptySet
<1>3. ASSUME NEW x, S = {x} PROVE Cardinality(S) = 1
  <2>1. Cardinality({x}) = 1
    BY FS_Singleton
  <2> QED BY <1>3, <2>1
<1> QED BY <1>1, <1>2, <1>3

LEMMA PushesCardinality == \A S : Pushes!Cardinality(S) = Cardinality(S)
  BY DEF Cardinality, Pushes!Cardinality

LEMMA PushesGo == [Next]_vars => [Pushes!Next]_(Pushes!vars)
  BY DEF Next, Only, vars, pushesVars, Pushes!vars

LEMMA PushInvariant == Spec => []PushInv
<1>1. Init => PushInv
  BY PushInvInit DEF Init
<1>2. PushInv /\ [Next]_vars => PushInv'
  BY PushesGo, PushInvStep
<1> QED BY <1>1, <1>2, PTL DEF Spec

\* A push token is bound to one row, and a device whose first registrations did not
\* overlap has one, however the registrations race (lib.rs, register_device).
THEOREM OneRowEachCorrect == Spec => []OneRowEach
<1>1. ASSUME PushInv PROVE OneRowEach
  <2>1. Pushes!TokenBoundOnce
    <3> SUFFICES ASSUME NEW tok \in PushTokens
                 PROVE  Cardinality({d \in DeviceIds : devices[d].token = tok}) <= 1
      BY PushesCardinality DEF Pushes!TokenBoundOnce
    <3>1. \A x, y \in {d \in DeviceIds : devices[d].token = tok} : x = y
      BY <1>1 DEF PushInv, OneToken
    <3> QED BY <3>1, AtMostOne
  <2>2. Pushes!TwoRowsNeedOverlap
    <3> SUFFICES ASSUME NEW u \in Users, NEW a \in Apps, <<u, a>> \notin collided
                 PROVE  ~(Cardinality(Pushes!RowsOf(u, a)) > 1)
      BY PushesCardinality DEF Pushes!TwoRowsNeedOverlap
    <3>1. \A x, y \in Pushes!RowsOf(u, a) : x = y
      BY <1>1 DEF PushInv, OneDevice, Pushes!RowsOf
    <3> QED BY <3>1, AtMostOne
  <2> QED BY <2>1, <2>2 DEF OneRowEach, Pushes!OneRowEach
<1> QED BY <1>1, PushInvariant, PTL

-----------------------------------------------------------------------------
(* Limits: rate_limits.rs. *)

\* The requests that were counted in the window and have not decided.
Undecided == {r \in Callers : callers[r] = "current"}

\* Who is admitted or may yet be has been counted: the inductive invariant.
LimitInv ==
  /\ Limits!TypeOK
  /\ admitted + Cardinality(Undecided) <= count
  /\ admitted <= BucketLimit

LEMMA UndecidedFinite ==
  /\ IsFiniteSet(Undecided) /\ Cardinality(Undecided) \in Nat
         /\ IsFiniteSet(Undecided') /\ Cardinality(Undecided') \in Nat
<1>1. IsFiniteSet(Undecided) /\ IsFiniteSet(Undecided')
  BY FS_Subset, LimitsAssumption DEF Undecided
<1> QED BY <1>1, FS_CardinalityType

LEMMA LimitInvInit == ASSUME Limits!Init PROVE LimitInv
<1>1. Undecided = {}
  BY DEF Limits!Init, Undecided
<1>2. Cardinality(Undecided) = 0
  BY <1>1, FS_EmptySet
<1> QED BY <1>2, LimitsAssumption DEF Limits!Init, LimitInv, Limits!TypeOK

\* A request that counts itself is one more of the counted, and of the undecided.
LEMMA CountStep == ASSUME LimitInv, NEW r \in Callers, Limits!CountRequest(r) PROVE LimitInv'
<1>1. Limits!TypeOK /\ callers[r] = "idle"
  BY DEF LimitInv, Limits!CountRequest
<1>2. CASE due /\ count' = Limits!FirstCount /\ admitted' = 0
           /\ callers' = [q \in Callers |-> CASE q = r -> "current"
                                            [] callers[q] = "current" -> "past"
                                            [] OTHER -> callers[q]]
  <2>1. Undecided' = {r} /\ callers' \in [Callers -> {"idle", "current", "past"}]
    BY <1>1, <1>2 DEF Undecided, Limits!TypeOK
  <2>2. Cardinality(Undecided') = 1
    BY <2>1, FS_Singleton
  <2>3. due' \in BOOLEAN
    BY DEF Limits!CountRequest
  <2> QED BY <1>2, <2>1, <2>2, <2>3, LimitsAssumption DEF LimitInv, Limits!TypeOK,
             Limits!FirstCount
<1>3. CASE ~due /\ count < MaxCount /\ count' = count + 1
           /\ callers' = [callers EXCEPT ![r] = "current"] /\ UNCHANGED admitted
  <2>1. Undecided' = Undecided \cup {r} /\ r \notin Undecided
        /\ callers' \in [Callers -> {"idle", "current", "past"}]
    BY <1>1, <1>3 DEF Undecided, Limits!TypeOK
  <2>2. Cardinality(Undecided') = Cardinality(Undecided) + 1
    BY <2>1, UndecidedFinite, FS_AddElement
  <2>3. due' \in BOOLEAN
    BY DEF Limits!CountRequest
  <2> QED BY <1>1, <1>3, <2>1, <2>2, <2>3, UndecidedFinite, LimitsAssumption
             DEF LimitInv, Limits!TypeOK
<1> QED BY <1>2, <1>3 DEF Limits!CountRequest

\* A request that decides is one less of the undecided; admitted, it was one of them.
LEMMA DecideStep == ASSUME LimitInv, NEW r \in Callers, Limits!Decide(r) PROVE LimitInv'
<1>1. Limits!TypeOK /\ callers[r] # "idle" /\ UNCHANGED <<count, due>>
      /\ callers' = [callers EXCEPT ![r] = "idle"]
      /\ admitted' = IF callers[r] = "current" /\ count <= BucketLimit THEN admitted + 1 ELSE admitted
  BY DEF LimitInv, Limits!Decide
<1>2. Undecided' = Undecided \ {r} /\ callers' \in [Callers -> {"idle", "current", "past"}]
  BY <1>1 DEF Undecided, Limits!TypeOK
<1>3. Cardinality(Undecided') = IF r \in Undecided THEN Cardinality(Undecided) - 1
                                ELSE Cardinality(Undecided)
  BY <1>2, UndecidedFinite, FS_RemoveElement
<1>4. r \in Undecided <=> callers[r] = "current"
  BY DEF Undecided
<1>5. admitted' + Cardinality(Undecided') <= count' /\ admitted' <= BucketLimit /\ admitted' \in Nat
  BY <1>1, <1>3, <1>4, UndecidedFinite, LimitsAssumption DEF LimitInv, Limits!TypeOK
<1>6. admitted' <= count'
  BY <1>1, <1>5, UndecidedFinite DEF Limits!TypeOK
<1> QED BY <1>1, <1>2, <1>5, <1>6, LimitsAssumption DEF LimitInv, Limits!TypeOK

LEMMA LimitInvStep == ASSUME LimitInv, [Limits!Next]_(Limits!vars) PROVE LimitInv'
<1>1. CASE UNCHANGED Limits!vars
  BY <1>1 DEF Limits!vars, LimitInv, Limits!TypeOK, Undecided
<1>2. CASE Limits!WindowPasses
  BY <1>2 DEF Limits!WindowPasses, LimitInv, Limits!TypeOK, Undecided
<1> QED BY <1>1, <1>2, CountStep, DecideStep DEF Limits!Next

-----------------------------------------------------------------------------
LEMMA LimitsGo == [Next]_vars => [Limits!Next]_(Limits!vars)
  BY DEF Next, Only, vars, limitsVars, Limits!vars

LEMMA LimitInvariant == Spec => []LimitInv
<1>1. Init => LimitInv
  BY LimitInvInit DEF Init
<1>2. LimitInv /\ [Next]_vars => LimitInv'
  BY LimitsGo, LimitInvStep
<1> QED BY <1>1, <1>2, PTL DEF Spec

\* Of the requests that are counted and decide in one window no more than the limit are
\* admitted, however their counts and reads interleave (rate_limits.rs).
THEOREM WindowAdmitsLimitCorrect == Spec => []WindowAdmitsLimit
<1>1. LimitInv => WindowAdmitsLimit
  BY DEF LimitInv, WindowAdmitsLimit, Limits!WindowAdmitsLimit
<1> QED BY <1>1, LimitInvariant, PTL

=============================================================================
