------------------------------- MODULE UndoProofs -------------------------------
(***************************************************************************)
(* Theorems about the module Undo: an undo is what the provider did, it is *)
(* recorded once, what was recorded stays, and two calls overlap only as   *)
(* often as a worker lost its lease, for any number of requests, passes of *)
(* the cron trigger and faults.                                            *)
(***************************************************************************)
EXTENDS Undo, FiniteSetTheorems, TLAPS

-----------------------------------------------------------------------------
(* The inductive invariant: an account of the calls, and what an answer means. *)

WorkerType == [pc : PCs, ver : Nat, answer : Answers]

\* A worker that holds the claim, or believes it does.
Holds(q) == q.pc \in {"call", "calling", "finish"}
Holder(q) == IF Holds(q) THEN 1 ELSE 0
Holders == {w \in Workers : Holds(worker[w])}

\* The attempt row lets one more worker call: because nobody has claimed it or its answer was
\* not a success, because the lease is over, or because nobody is left who could end the claim.
Free ==
  \/ attempt.state \in {"none", "unknown", "failed"}
  \/ attempt.state = "running" /\ (attempt.old \/ ~Held)
Allowed == IF Free THEN 1 ELSE 0

\* Every holder beyond the first is paid for by a fault.
Account == IsFiniteSet(Holders) /\ Cardinality(Holders) + Allowed <= 1 + faults

\* Who goes on to finalize has the provider's word for it.
Assured(q) ==
  q.pc = "finalize" \/ (q.pc = "finish" /\ q.answer = "succeeded") => provider = "cancelled"

Real ==
  /\ UndoneIsReal
  /\ attempt.state = "succeeded" => provider = "cancelled"
  /\ \A w \in Workers : Assured(worker[w])

Inv == Account /\ Real

LEMMA Types ==
  ASSUME Inv
  PROVE  /\ worker \in [Workers -> WorkerType] /\ TypeOK /\ faults \in Nat
         /\ Allowed \in {0, 1} /\ IsFiniteSet(Holders) /\ Cardinality(Holders) \in Nat
         /\ \A w \in Workers : worker[w] \in WorkerType /\ Assured(worker[w])
<1>1. TypeOK /\ \A w \in Workers : Assured(worker[w])
  BY DEF Inv, Real, UndoneIsReal
<1>2. faults \in Nat
  BY <1>1, BoundAssumption DEF TypeOK
<1>3. IsFiniteSet(Holders) /\ Cardinality(Holders) \in Nat
  BY FS_CardinalityType DEF Inv, Account
<1> QED BY <1>1, <1>2, <1>3 DEF TypeOK, WorkerType, Allowed

LEMMA InvInit == ASSUME Init PROVE Inv
<1>0. misled \in BOOLEAN
  BY Zenon DEF Init
<1>1. UndoneIsReal
  BY <1>0, BoundAssumption
     DEF Init, UndoneIsReal, UndoneIsCancelled, UndoneOnce, TypeOK, AttemptStates, ProviderStates,
         PCs, Answers, Idle
<1>2. Holders = {} /\ faults = 0 /\ Allowed \in {0, 1}
  BY DEF Init, Holders, Holds, Idle, Allowed
<1>3. Account
  BY <1>2, FS_EmptySet DEF Account
<1>4. Real
  BY <1>1 DEF Init, Real, Assured, Idle
<1> QED BY <1>3, <1>4 DEF Inv

-----------------------------------------------------------------------------
(* The moves of a worker. *)

\* One worker moves: the others hold what they held.
LEMMA HoldersMove ==
  ASSUME Inv, NEW w \in Workers, NEW q, worker' = [worker EXCEPT ![w] = q]
  PROVE  /\ IsFiniteSet(Holders') /\ Cardinality(Holders') \in Nat
         /\ Holds(worker[w]) /\ Holds(q) => Cardinality(Holders') = Cardinality(Holders)
         /\ Holds(worker[w]) /\ ~Holds(q) => Cardinality(Holders') = Cardinality(Holders) - 1
         /\ ~Holds(worker[w]) /\ Holds(q) => Cardinality(Holders') = Cardinality(Holders) + 1
         /\ ~Holds(worker[w]) /\ ~Holds(q) => Cardinality(Holders') = Cardinality(Holders)
<1>0. worker'[w] = q /\ \A e \in Workers \ {w} : worker'[e] = worker[e]
  BY Types
<1>1. CASE Holds(worker[w]) <=> Holds(q)
  <2>1. Holders' = Holders
    BY <1>0, <1>1 DEF Holders, Holds
  <2> QED BY <1>1, <2>1, Types
<1>2. CASE Holds(worker[w]) /\ ~Holds(q)
  <2>1. Holders' = Holders \ {w} /\ w \in Holders
    BY <1>0, <1>2 DEF Holders, Holds
  <2>2. /\ IsFiniteSet(Holders') /\ Cardinality(Holders') = Cardinality(Holders) - 1
    BY <2>1, Types, FS_RemoveElement
  <2>3. Cardinality(Holders') \in Nat
    BY <2>2, FS_CardinalityType
  <2> QED BY <1>2, <2>2, <2>3
<1>3. CASE ~Holds(worker[w]) /\ Holds(q)
  <2>1. Holders' = Holders \cup {w} /\ w \notin Holders
    BY <1>0, <1>3 DEF Holders, Holds
  <2>2. /\ IsFiniteSet(Holders') /\ Cardinality(Holders') = Cardinality(Holders) + 1
    BY <2>1, Types, FS_AddElement
  <2>3. Cardinality(Holders') \in Nat
    BY <2>2, FS_CardinalityType
  <2> QED BY <1>3, <2>2, <2>3
<1> QED BY <1>1, <1>2, <1>3

\* What a worker is when it has moved.
LEMMA Goes ==
  ASSUME Inv, NEW w \in Workers, NEW pc \in PCs, Goto(w, pc)
  PROVE  \E q \in WorkerType : /\ worker' = [worker EXCEPT ![w] = q] /\ q.pc = pc
                               /\ q.answer = worker[w].answer
<1>1. PICK q : q = [worker[w] EXCEPT !.pc = pc]
  OBVIOUS
<1>2. q \in WorkerType /\ q.pc = pc /\ q.answer = worker[w].answer
  BY <1>1, Types DEF WorkerType
<1>3. worker' = [worker EXCEPT ![w] = q]
  BY <1>1 DEF Goto
<1> QED BY <1>2, <1>3

LEMMA Leaves ==
  ASSUME Inv, NEW w \in Workers, Leave(w)
  PROVE  \E q \in WorkerType : worker' = [worker EXCEPT ![w] = q] /\ q.pc = "idle"
<1>1. Idle \in WorkerType /\ Idle.pc = "idle"
  BY DEF Idle, WorkerType, PCs, Answers
<1> QED BY <1>1 DEF Leave

LEMMA Answering ==
  ASSUME Inv, NEW w \in Workers, NEW a \in Answers, Answered(w, a)
  PROVE  \E q \in WorkerType : /\ worker' = [worker EXCEPT ![w] = q] /\ q.pc = "finish"
                               /\ q.answer = a
<1>1. PICK q : q = [worker[w] EXCEPT !.pc = "finish", !.answer = a]
  OBVIOUS
<1>2. q \in WorkerType /\ q.pc = "finish" /\ q.answer = a
  BY <1>1, Types DEF WorkerType, PCs
<1>3. worker' = [worker EXCEPT ![w] = q]
  BY <1>1 DEF Answered
<1> QED BY <1>2, <1>3

\* A claim is held by the workers as they are.
LEMMA HeldMoves ==
  ASSUME Inv, NEW w \in Workers, NEW q, worker' = [worker EXCEPT ![w] = q]
  PROVE  /\ Holds(q) => Held'
         /\ Held /\ (Holds(worker[w]) => Holds(q)) => Held'
<1>0. worker'[w] = q /\ \A e \in Workers \ {w} : worker'[e] = worker[e]
  BY Types
<1> QED BY <1>0 DEF Held, Holds

LEMMA AllowedStays ==
  ASSUME Inv
  PROVE  /\ Allowed \in {0, 1} /\ Allowed' \in {0, 1}
         /\ attempt' = attempt /\ (Held => Held') => Allowed' <= Allowed
         /\ attempt'.state = "succeeded" => Allowed' = 0
         /\ attempt'.state = "running" /\ ~attempt'.old /\ Held' => Allowed' = 0
         /\ \A q : Holder(q) \in {0, 1}
  BY DEF Allowed, Free, Holder

\* The provider's word, once given, stands.
WordStands == provider' \in ProviderStates /\ (provider = "cancelled" => provider' = "cancelled")

\* An action is right when the account still balances with what its own worker then holds, and
\* when it goes on, or records a success, only with the provider's word.
LEMMA OneWorker ==
  ASSUME Inv, NEW w \in Workers, NEW q \in WorkerType, worker' = [worker EXCEPT ![w] = q],
         WordStands, UNCHANGED <<external, open>>, misled' \in BOOLEAN,
         faults' \in 0..FaultBound, faults' >= faults,
         attempt' \in [state : AttemptStates, old : BOOLEAN],
         Allowed' + Holder(q) + faults <= Allowed + Holder(worker[w]) + faults',
         attempt'.state = "succeeded" => attempt.state = "succeeded" \/ provider' = "cancelled",
         \/ UNCHANGED rowVars
         \/ /\ reminder = "scheduled" /\ reminder' = "cancelled" /\ version' = version + 1
            /\ provider' = "cancelled",
         Assured(q)'
  PROVE  Inv'
<1>0. worker'[w] = q /\ \A e \in Workers \ {w} : worker'[e] = worker[e]
  BY Types
<1>1. worker' \in [Workers -> WorkerType]
  BY <1>0, Types
<1>2. UndoneIsReal'
  <2>1. /\ reminder \in {"scheduled", "cancelled"} /\ version \in Nat
        /\ version = IF reminder = "cancelled" THEN 5 ELSE 4
        /\ reminder = "cancelled" => provider = "cancelled"
        /\ external \in BOOLEAN /\ open \in BOOLEAN
    BY DEF Inv, Real, UndoneIsReal, UndoneIsCancelled, UndoneOnce, TypeOK
  <2>2. /\ reminder' \in {"scheduled", "cancelled"} /\ version' \in Nat
        /\ version' = IF reminder' = "cancelled" THEN 5 ELSE 4
        /\ reminder' = "cancelled" => provider' = "cancelled"
    BY <2>1 DEF rowVars, WordStands
  <2>3. TypeOK'
    BY <1>1, <2>1, <2>2 DEF TypeOK, WorkerType, WordStands
  <2> QED BY <2>2, <2>3 DEF UndoneIsReal, UndoneIsCancelled, UndoneOnce
<1>3. Account'
  <2> PICK c \in Nat : c = Cardinality(Holders)
    BY Types
  <2> PICK k \in Nat : k = Cardinality(Holders')
    BY HoldersMove
  <2> PICK f \in Nat : f = faults'
    BY BoundAssumption
  <2>1. Allowed' \in {0, 1}
    BY DEF Allowed
  <2>2. /\ IsFiniteSet(Holders')
        /\ Holds(worker[w]) /\ Holds(q) => k = c
        /\ Holds(worker[w]) /\ ~Holds(q) => k = c - 1
        /\ ~Holds(worker[w]) /\ Holds(q) => k = c + 1
        /\ ~Holds(worker[w]) /\ ~Holds(q) => k = c
    BY HoldersMove
  <2>3. c + Allowed <= 1 + faults
    BY DEF Inv, Account
  <2>4. k + Allowed' <= 1 + f
    BY <2>1, <2>2, <2>3, Types DEF Holder
  <2> QED BY <2>2, <2>4 DEF Account
<1>4. Real'
  <2>1. \A e \in Workers \ {w} : Assured(worker[e])'
    BY <1>0, Types DEF Assured, WordStands
  <2>2. Assured(worker[w])'
    BY <1>0 DEF Assured
  <2>3. attempt'.state = "succeeded" => provider' = "cancelled"
    BY DEF Inv, Real, WordStands
  <2> QED BY <1>2, <2>1, <2>2, <2>3 DEF Real
<1> QED BY <1>3, <1>4 DEF Inv

\* A step of a worker that writes the attempt row, or nothing.
LEMMA RowStep ==
  ASSUME Inv, NEW w \in Workers, NEW q \in WorkerType, worker' = [worker EXCEPT ![w] = q],
         UNCHANGED <<provider, external, open, misled, faults, reminder, version>>,
         attempt' \in [state : AttemptStates, old : BOOLEAN],
         Allowed' + Holder(q) <= Allowed + Holder(worker[w]),
         attempt'.state = "succeeded" => attempt.state = "succeeded" \/ provider = "cancelled",
         Assured(q)'
  PROVE  Inv'
<1>1. Allowed' + Holder(q) + faults <= Allowed + Holder(worker[w]) + faults'
  <2>a. ASSUME NEW a \in {0, 1}, NEW b \in {0, 1}, NEW c \in {0, 1}, NEW e \in {0, 1},
               NEW m \in Nat, a + b <= c + e
        PROVE  a + b + m <= c + e + m
    BY <2>a
  <2> QED BY <2>a, AllowedStays, Types
<1>2. WordStands /\ misled' \in BOOLEAN /\ faults' \in 0..FaultBound /\ faults' >= faults
  BY Types DEF TypeOK, WordStands
<1> QED BY <1>1, <1>2, OneWorker DEF rowVars

LEMMA QuietStep ==
  ASSUME Inv, NEW w \in Workers, NEW q \in WorkerType, worker' = [worker EXCEPT ![w] = q],
         UNCHANGED <<attempt, provider, external, open, misled, faults, reminder, version>>,
         Holds(worker[w]) <=> Holds(q), Assured(q)'
  PROVE  Inv'
<1>1. Allowed' <= Allowed
  BY HeldMoves, AllowedStays
<1>2. Holder(q) = Holder(worker[w])
  BY DEF Holder
<1>3. Allowed' + Holder(q) <= Allowed + Holder(worker[w])
  BY <1>1, <1>2, AllowedStays
<1> QED BY <1>3, Types, RowStep DEF TypeOK

LEMMA Names ==
  ASSUME UNCHANGED worldVars, UNCHANGED rowVars
  PROVE  UNCHANGED <<provider, external, open, misled, reminder, version>>
  BY DEF worldVars, rowVars

-----------------------------------------------------------------------------
(* The actions. *)

LEMMA StartStep ==
  ASSUME Inv, NEW w \in Workers, NEW pc \in {"effect", "finalize"}, StartAt(w, pc),
         pc = "finalize" => attempt.state = "succeeded"
  PROVE  Inv'
<1>1. PICK q : q = [Idle EXCEPT !.pc = pc, !.ver = version]
  OBVIOUS
<1>2. q \in WorkerType /\ q.pc = pc
  BY <1>1, Types DEF Idle, WorkerType, PCs, Answers, TypeOK
<1>3. ~Holds(q) /\ ~Holds(worker[w])
  BY <1>2 DEF Holds, StartAt
<1>4. Assured(q)'
  BY <1>2, Names DEF Inv, Real, Assured, StartAt
<1>5. worker' = [worker EXCEPT ![w] = q]
  BY <1>1 DEF StartAt
<1> QED BY <1>2, <1>3, <1>4, <1>5, Names, QuietStep DEF StartAt

LEMMA ReadEffectStep == ASSUME Inv, NEW w \in Workers, ReadEffect(w) PROVE Inv'
<1>1. PICK q \in WorkerType : /\ worker' = [worker EXCEPT ![w] = q] /\ q.pc \in {"idle", "claim"}
  BY Leaves, Goes DEF ReadEffect, PCs
<1>2. ~Holds(q) /\ ~Holds(worker[w]) /\ Assured(q)'
  BY <1>1 DEF Holds, ReadEffect, Assured
<1> QED BY <1>1, <1>2, Names, QuietStep DEF ReadEffect

\* A claim, or a reclaim, spends what the row allowed.
LEMMA Claimed ==
  ASSUME Inv, NEW w \in Workers, SetAttempt("running"), Goto(w, "call"),
         Allowed = 1, ~Holds(worker[w]),
         UNCHANGED <<faults, rowVars, worldVars>>
  PROVE  Inv'
<1>1. PICK q \in WorkerType : worker' = [worker EXCEPT ![w] = q] /\ q.pc = "call"
  BY Goes DEF PCs
<1>2. Holds(q) /\ Assured(q)'
  BY <1>1 DEF Holds, Assured
<1>3. /\ attempt' \in [state : AttemptStates, old : BOOLEAN]
      /\ attempt'.state = "running" /\ ~attempt'.old
  BY DEF SetAttempt, AttemptStates
<1>4. Allowed' = 0
  BY <1>1, <1>2, <1>3, HeldMoves, AllowedStays
<1>5. Holder(q) = 1 /\ Holder(worker[w]) = 0
  BY <1>2 DEF Holder
<1>6. Allowed' + Holder(q) <= Allowed + Holder(worker[w])
  BY <1>4, <1>5
<1> QED BY <1>1, <1>2, <1>3, <1>6, Names, RowStep

LEMMA ClaimStep == ASSUME Inv, NEW w \in Workers, Claim(w) PROVE Inv'
<1>0. ~Holds(worker[w])
  BY DEF Claim, Holds
<1>1. CASE attempt.state = "none"
  BY <1>0, <1>1, Claimed DEF Claim, Allowed, Free
<1>2. CASE attempt.state # "none"
  <2>1. PICK q \in WorkerType : worker' = [worker EXCEPT ![w] = q] /\ q.pc = "existing"
    BY <1>2, Goes DEF Claim, PCs
  <2>2. ~Holds(q) /\ Assured(q)'
    BY <2>1 DEF Holds, Assured
  <2> QED BY <1>0, <1>2, <2>1, <2>2, Names, QuietStep DEF Claim
<1> QED BY <1>1, <1>2

LEMMA ReadExistingStep == ASSUME Inv, NEW w \in Workers, ReadExisting(w) PROVE Inv'
<1>1. PICK q \in WorkerType : /\ worker' = [worker EXCEPT ![w] = q]
                              /\ \/ q.pc = "finalize" /\ attempt.state = "succeeded"
                                 \/ q.pc \in {"idle", "expired", "reclaim"}
  BY Leaves, Goes DEF ReadExisting, PCs
<1>2. ~Holds(q) /\ ~Holds(worker[w])
  BY <1>1 DEF Holds, ReadExisting
<1>3. Assured(q)'
  BY <1>1, Names DEF Inv, Real, Assured, ReadExisting
<1> QED BY <1>1, <1>2, <1>3, Names, QuietStep DEF ReadExisting

LEMMA ReclaimStep == ASSUME Inv, NEW w \in Workers, Reclaim(w) PROVE Inv'
<1>0. ~Holds(worker[w])
  BY DEF Reclaim, Holds
<1>1. CASE SetAttempt("running") /\ Goto(w, "call") /\ Allowed = 1
  BY <1>0, <1>1, Claimed DEF Reclaim
<1>2. CASE Leave(w) /\ UNCHANGED attempt
  <2>1. PICK q \in WorkerType : worker' = [worker EXCEPT ![w] = q] /\ q.pc = "idle"
    BY <1>2, Leaves
  <2>2. ~Holds(q) /\ Assured(q)'
    BY <2>1 DEF Holds, Assured
  <2> QED BY <1>0, <1>2, <2>1, <2>2, Names, QuietStep DEF Reclaim
<1> QED BY <1>1, <1>2 DEF Reclaim, ExpiredStill, Allowed, Free

\* The call: the holder goes on holding, and the provider does not take its word back.
LEMMA CallStep == ASSUME Inv, NEW w \in Workers, Call(w) PROVE Inv'
<1>0. UNCHANGED <<external, open, attempt, faults, reminder, version>> /\ Holds(worker[w])
  BY DEF Call, rowVars, Holds
<1>1. PICK q \in WorkerType : /\ worker' = [worker EXCEPT ![w] = q]
                              /\ q.pc = "calling" \/ (q.pc = "finish" /\ q.answer = "failed")
  BY Goes, Answering DEF Call, PCs, Answers
<1>2. Holds(q) /\ Assured(q)'
  BY <1>1 DEF Holds, Assured
<1>3. WordStands
  BY Types DEF Call, WordStands, TypeOK, ProviderStates
<1>4. Allowed' <= Allowed /\ Holder(q) = 1 /\ Holder(worker[w]) = 1
  BY <1>0, <1>1, <1>2, HeldMoves, AllowedStays DEF Holder
<1>5. faults' \in 0..FaultBound /\ faults' >= faults /\ faults' = faults
  BY <1>0, Types DEF TypeOK
<1>6. Allowed' + Holder(q) + faults <= Allowed + Holder(worker[w]) + faults'
  BY <1>4, <1>5, AllowedStays, Types
<1>7. misled' \in BOOLEAN
  <2>1. misled \in BOOLEAN /\ (misled' = TRUE \/ misled' = misled)
    BY Types DEF Call, TypeOK
  <2> QED BY <2>1, Zenon
<1> QED BY <1>0, <1>1, <1>2, <1>3, <1>5, <1>6, <1>7, Types, OneWorker DEF rowVars, TypeOK

LEMMA AnswerStep == ASSUME Inv, NEW w \in Workers, Answer(w) PROVE Inv'
<1>0. Holds(worker[w]) /\ AnswerOf \in Answers
      /\ (AnswerOf = "succeeded" => provider = "cancelled")
  BY DEF Answer, Holds, AnswerOf, Answers
<1>1. PICK q \in WorkerType : /\ worker' = [worker EXCEPT ![w] = q] /\ q.pc = "finish"
                              /\ q.answer = AnswerOf
  BY <1>0, Answering DEF Answer
<1>2. Holds(q)
  BY <1>1 DEF Holds
<1>3. Assured(q)'
  BY <1>0, <1>1, Names DEF Assured, Answer
<1> QED BY <1>0, <1>1, <1>2, <1>3, Names, QuietStep DEF Answer

\* The answer is recorded if the claim is still there: what the worker held, the row then
\* allows, unless it was a success.
LEMMA FinishStep == ASSUME Inv, NEW w \in Workers, Finish(w) PROVE Inv'
<1>1. PICK q \in WorkerType : /\ worker' = [worker EXCEPT ![w] = q]
                              /\ \/ q.pc = "finalize" /\ worker[w].answer = "succeeded"
                                 \/ q.pc = "idle"
  BY Leaves, Goes DEF Finish, PCs
<1>2. Holds(worker[w]) /\ ~Holds(q) /\ worker[w] \in WorkerType /\ Assured(worker[w])
  BY <1>1, Types DEF Holds, Finish
<1>3. Assured(q)'
  BY <1>1, <1>2, Names DEF Assured, Finish
<1>4. /\ attempt' \in [state : AttemptStates, old : BOOLEAN]
      /\ attempt'.state = "succeeded" => attempt.state = "succeeded" \/ provider = "cancelled"
  <2>1. CASE Finishable
    <3>1. worker[w].answer \in AttemptStates
      BY <1>2 DEF WorkerType, Answers, AttemptStates
    <3>2. attempt' = [state |-> worker[w].answer, old |-> FALSE] /\ worker[w].pc = "finish"
      BY <2>1 DEF Finish, SetAttempt
    <3>3. attempt' \in [state : AttemptStates, old : BOOLEAN]
      BY <3>1, <3>2
    <3>4. attempt'.state = worker[w].answer
      BY <3>2
    <3>5. worker[w].answer = "succeeded" => provider = "cancelled"
      BY <1>2, <3>2 DEF Assured
    <3> QED BY <3>3, <3>4, <3>5
  <2>2. CASE ~Finishable
    BY <2>2, Types DEF Finish, TypeOK
  <2> QED BY <2>1, <2>2
<1>5. Allowed' + Holder(q) <= Allowed + Holder(worker[w])
  <2>1. Holder(q) = 0 /\ Holder(worker[w]) = 1
    BY <1>2 DEF Holder
  <2> QED BY <2>1, AllowedStays
<1> QED BY <1>1, <1>3, <1>4, <1>5, Names, RowStep DEF Finish

LEMMA FinalizeStep == ASSUME Inv, NEW w \in Workers, Finalize(w) PROVE Inv'
<1>0. UNCHANGED <<provider, external, open, misled, attempt, faults>> /\ provider = "cancelled"
      /\ ~Holds(worker[w])
  BY Types DEF Finalize, worldVars, Assured, Holds
<1>1. PICK q \in WorkerType : worker' = [worker EXCEPT ![w] = q] /\ q.pc = "idle"
  BY Leaves DEF Finalize
<1>2. ~Holds(q) /\ Assured(q)'
  BY <1>1 DEF Holds, Assured
<1>3. /\ Allowed' <= Allowed /\ Holder(q) = 0 /\ Holder(worker[w]) = 0
      /\ WordStands /\ faults' \in 0..FaultBound /\ faults' >= faults /\ faults' = faults
  <2>1. Allowed' <= Allowed /\ Holder(q) = 0 /\ Holder(worker[w]) = 0
    BY <1>0, <1>1, <1>2, HeldMoves, AllowedStays DEF Holder
  <2>2. faults \in 0..FaultBound /\ faults \in Nat /\ provider \in ProviderStates
    BY Types DEF TypeOK
  <2> QED BY <1>0, <2>1, <2>2 DEF WordStands
<1>4. Allowed' + Holder(q) + faults <= Allowed + Holder(worker[w]) + faults'
  BY <1>3, AllowedStays, Types
<1>5. \/ UNCHANGED rowVars
      \/ /\ reminder = "scheduled" /\ reminder' = "cancelled" /\ version' = version + 1
         /\ provider' = "cancelled"
  BY <1>0 DEF Finalize, FinalizeWins
<1> QED BY <1>0, <1>1, <1>2, <1>3, <1>4, <1>5, Types, OneWorker DEF TypeOK

\* A lost or refused answer keeps the claim; a crash may leave it to nobody, which its fault
\* pays for.
LEMMA FaultyStep ==
  ASSUME Inv, NEW w \in Workers, AnswerLost(w) \/ AnswerRefused(w) \/ Crash(w)
  PROVE  Inv'
<1>0. /\ UNCHANGED <<provider, external, open, attempt, reminder, version>>
      /\ faults' = faults + 1 /\ faults' \in 0..FaultBound /\ faults' >= faults
  BY Types, BoundAssumption
     DEF AnswerLost, AnswerRefused, Crash, Fault, rowVars, worldVars, TypeOK
<1>1. PICK q \in WorkerType : /\ worker' = [worker EXCEPT ![w] = q]
                              /\ \/ /\ q.pc = "finish" /\ q.answer # "succeeded"
                                    /\ Holds(worker[w])
                                 \/ q.pc = "idle"
  BY Leaves, Answering DEF AnswerLost, AnswerRefused, Crash, Answers, Holds
<1>2. Assured(q)' /\ WordStands
  BY <1>0, <1>1, Types DEF Assured, WordStands, TypeOK
<1>3. Allowed' + Holder(q) <= Allowed + Holder(worker[w]) + 1
  <2>1. CASE q.pc = "idle"
    <3>1. Holder(q) = 0
      BY <2>1 DEF Holder, Holds
    <3> QED BY <3>1, AllowedStays
  <2>2. CASE q.pc = "finish" /\ Holds(worker[w])
    <3>1. Holder(q) = 1 /\ Holder(worker[w]) = 1
      BY <2>2 DEF Holder, Holds
    <3> QED BY <3>1, AllowedStays
  <2> QED BY <1>1, <2>1, <2>2
<1>4. Allowed' + Holder(q) + faults <= Allowed + Holder(worker[w]) + faults'
  BY <1>0, <1>3, AllowedStays, Types
<1>5. misled' \in BOOLEAN
  <2>1. misled \in BOOLEAN /\ (misled' = TRUE \/ misled' = misled)
    BY Types DEF AnswerLost, AnswerRefused, Crash, worldVars, TypeOK
  <2> QED BY <2>1, Zenon
<1> QED BY <1>0, <1>1, <1>2, <1>4, <1>5, Types, OneWorker DEF TypeOK, rowVars

\* Time passes, the provider decides or a deployment changes, and no worker moves.
LEMMA OutsideStep ==
  ASSUME Inv, ClaimAges \/ Stall \/ WindowCloses \/ ProviderDecides \/ Disable \/ Enable
  PROVE  Inv'
<1>0. /\ UNCHANGED <<worker, reminder, version>> /\ external' \in BOOLEAN /\ open' \in BOOLEAN
      /\ misled' \in BOOLEAN
  BY Types DEF TypeOK, ClaimAges, Stall, WindowCloses, ProviderDecides, Disable, Enable, rowVars,
               worldVars
<1>1. WordStands
  BY Types DEF WordStands, TypeOK, ClaimAges, Stall, WindowCloses, ProviderDecides, Disable, Enable,
               worldVars, ProviderStates
<1>2. /\ faults' \in 0..FaultBound /\ faults' \in Nat /\ faults' >= faults
      /\ Stall => faults' = faults + 1
  BY Types, BoundAssumption
     DEF TypeOK, ClaimAges, Stall, WindowCloses, ProviderDecides, Disable, Enable, Fault
<1>3. /\ attempt' \in [state : AttemptStates, old : BOOLEAN]
      /\ attempt'.state = attempt.state
      /\ ~ClaimAges /\ ~Stall => attempt' = attempt
  BY Types DEF TypeOK, ClaimAges, Stall, WindowCloses, ProviderDecides, Disable, Enable
<1>4. Allowed' <= Allowed \/ faults' = faults + 1
  <2>1. Held' = Held
    BY <1>0 DEF Held
  <2>2. CASE ClaimAges
    <3>1. Allowed = 1
      BY <2>2 DEF ClaimAges, Allowed, Free
    <3> QED BY <3>1, AllowedStays
  <2>3. CASE Stall
    BY <1>2, <2>3
  <2>4. CASE ~ClaimAges /\ ~Stall
    BY <1>3, <2>1, <2>4, AllowedStays
  <2> QED BY <2>2, <2>3, <2>4
<1>5. Holders' = Holders
  BY <1>0 DEF Holders
<1>6. Account'
  <2> PICK c \in Nat : c = Cardinality(Holders)
    BY Types
  <2>1. c + Allowed <= 1 + faults /\ faults \in Nat /\ Allowed \in {0, 1} /\ Allowed' \in {0, 1}
    BY Types, AllowedStays DEF Inv, Account
  <2>a. ASSUME NEW i \in {0, 1}, NEW j \in {0, 1}, NEW m \in Nat, NEW n \in Nat,
               c + i <= 1 + m, n >= m, j <= i \/ n = m + 1
        PROVE  c + j <= 1 + n
    BY <2>a
  <2>2. c + Allowed' <= 1 + faults'
    BY <1>2, <1>4, <2>1, <2>a
  <2> QED BY <1>5, <2>2, Types DEF Account
<1>7. Real'
  <2>1. TypeOK'
    BY <1>0, <1>1, <1>2, <1>3, Types DEF TypeOK, WordStands
  <2> QED BY <1>0, <1>1, <1>3, <2>1
       DEF Inv, Real, UndoneIsReal, UndoneIsCancelled, UndoneOnce, WordStands, Assured
<1> QED BY <1>6, <1>7 DEF Inv

LEMMA InvStep == ASSUME Inv, [Next]_vars PROVE Inv'
<1>1. ASSUME NEW w \in Requests, Request(w) PROVE Inv'
  BY <1>1, StartStep DEF Request, Workers
<1>2. ASSUME NEW w \in Crons, ReconcilePending(w) \/ ReconcileSucceeded(w) PROVE Inv'
  BY <1>2, StartStep DEF ReconcilePending, ReconcileSucceeded, Workers
<1>3. ASSUME NEW w \in Workers, Continues(w) PROVE Inv'
  BY <1>3, ReadEffectStep, ClaimStep, ReadExistingStep, ReclaimStep, CallStep, AnswerStep,
     FinishStep, FinalizeStep DEF Continues
<1>4. ASSUME NEW w \in Workers, AnswerLost(w) \/ AnswerRefused(w) \/ Crash(w) PROVE Inv'
  BY <1>4, FaultyStep
<1>5. CASE UNCHANGED vars
  BY <1>5 DEF vars, Inv, Account, Holders, Allowed, Free, Held, Real, UndoneIsReal, TypeOK,
              UndoneIsCancelled, UndoneOnce, Assured
<1> QED BY <1>1, <1>2, <1>3, <1>4, <1>5, OutsideStep DEF Next

LEMMA Invariance == Spec => []Inv
<1>1. Init => Inv
  BY InvInit
<1>2. Inv /\ [Next]_vars => Inv'
  BY InvStep
<1> QED BY <1>1, <1>2, PTL DEF Spec

-----------------------------------------------------------------------------
(* What the runs check, for every value of the constants. *)

\* The user is told that a reminder is undone only when the provider has cancelled it, and the
\* command carries one undo, whichever requests and reconciliations ran into each other.
THEOREM UndoneIsRealCorrect == Spec => []UndoneIsReal
<1>1. Inv => UndoneIsReal
  BY DEF Inv, Real
<1> QED BY <1>1, Invariance, PTL

\* The fence around the call of the provider lets out one call at a time, and one more for
\* every worker that stalled or crashed.
THEOREM OneCallAtATimeCorrect == Spec => []OneCallAtATime
<1>1. Inv => OneCallAtATime
  <2> SUFFICES ASSUME Inv PROVE OneCallAtATime
    OBVIOUS
  <2> DEFINE Calling == {w \in Workers : worker[w].pc = "calling"}
  <2>1. Calling \subseteq Holders
    BY DEF Holders, Holds
  <2>2. IsFiniteSet(Calling) /\ Cardinality(Calling) <= Cardinality(Holders)
    BY <2>1, Types, FS_Subset
  <2>3. Cardinality(Calling) \in Nat
    BY <2>2, FS_CardinalityType
  <2>4. Cardinality(Holders) + Allowed <= 1 + faults
    BY DEF Inv, Account
  <2>5. Cardinality(Calling) <= 1 + faults
    BY <2>2, <2>3, <2>4, Types
  <2> QED BY <2>5 DEF OneCallAtATime
<1> QED BY <1>1, Invariance, PTL

\* Once a cancellation is recorded as carried out, no late answer of a slower call, and no
\* reclaim, writes the attempt row again.
THEOREM SuccessIsKeptCorrect == Spec => SuccessIsKept
<1>1. [Next]_vars => (attempt.state = "succeeded" => attempt' = attempt)
  BY DEF Next, vars, Request, ReconcilePending, ReconcileSucceeded, StartAt, Continues, ReadEffect,
         Claim, ReadExisting, Reclaim, ExpiredStill, Call, Answer, Finish, Finishable, Finalize,
         AnswerLost, AnswerRefused, Crash, ClaimAges, Stall, WindowCloses, ProviderDecides, Disable, Enable
<1> QED BY <1>1, PTL DEF Spec, SuccessIsKept

=================================================================================
