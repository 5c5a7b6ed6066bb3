---------------------------- MODULE OutboxProofs ----------------------------
(***************************************************************************)
(* Theorems about the module Outbox: type correctness, that no command is  *)
(* ever delivered twice, that the state of a command tells what became of  *)
(* its effect, and that no command is left where no drain looks for it.    *)
(***************************************************************************)
EXTENDS Outbox, TLAPS

-----------------------------------------------------------------------------
(* Type correctness. *)

WorkerType ==
  [pc : PCs, c : Commands \cup {NoCommand}, claim : Nat, row : Nat, ver : Nat,
   resp : Responses]

WorkersOK ==
  /\ worker \in [Workers -> WorkerType]
  /\ \A w \in Workers : worker[w].pc # "idle" => worker[w].c \in Commands

LEMMA TypeInit == Init => TypeOK
  BY DEF Init, TypeOK, Idle, CommandStates, Claimable, Terminal, RowStates,
         AttemptStates, EffectStates, ProviderStates, PCs, Responses

\* Updating one worker, in particular moving it or releasing it, keeps the types
\* of the workers.
LEMMA WorkerUpdate ==
  ASSUME WorkersOK, NEW w \in Workers, NEW r \in WorkerType,
         r.pc # "idle" => r.c \in Commands,
         worker' = [worker EXCEPT ![w] = r]
  PROVE  WorkersOK'
  BY DEF WorkersOK

LEMMA LeaveType ==
  ASSUME WorkersOK, NEW w \in Workers, Leave(w)
  PROVE  WorkersOK'
<1>1. Idle \in WorkerType /\ Idle.pc = "idle"
  BY DEF Idle, WorkerType, PCs, Responses
<1> QED BY <1>1, WorkerUpdate DEF Leave

LEMMA GotoType ==
  ASSUME WorkersOK, NEW w \in Workers, NEW p \in PCs,
         worker[w].pc # "idle", Goto(w, p)
  PROVE  WorkersOK'
<1> DEFINE r == [worker[w] EXCEPT !.pc = p]
<1>1. r \in WorkerType /\ r.c \in Commands
  BY DEF WorkersOK, WorkerType
<1>2. worker' = [worker EXCEPT ![w] = r]
  BY DEF Goto
<1> QED BY <1>1, <1>2, WorkerUpdate

\* The updates of the command, the row and the attempt keep their types.
LEMMA SetCommandType ==
  ASSUME TypeOK, NEW c \in Commands, NEW s \in CommandStates, SetCommand(c, s)
  PROVE  cmd' \in [Commands -> [state : CommandStates, version : Nat]]
  BY DEF TypeOK, SetCommand

LEMMA ReleaseRowType ==
  ASSUME TypeOK, NEW c \in Commands, NEW s \in RowStates, NEW due \in BOOLEAN,
         ReleaseRow(c, s, due)
  PROVE  outbox' \in [Commands -> [state : RowStates, claims : Nat,
                                   live : BOOLEAN, due : BOOLEAN]]
  BY DEF TypeOK, ReleaseRow

LEMMA SetAttemptType ==
  ASSUME TypeOK, NEW c \in Commands, NEW s \in AttemptStates, NEW started \in BOOLEAN,
         SetAttempt(c, s, started)
  PROVE  attempt' \in [Commands -> [state : AttemptStates, started : BOOLEAN]]
  BY DEF TypeOK, SetAttempt

LEMMA FailCommandType ==
  ASSUME TypeOK, NEW c \in Commands, NEW n \in Nat, NEW retryable \in BOOLEAN,
         FailCommand(c, n, retryable)
  PROVE  /\ cmd' \in [Commands -> [state : CommandStates, version : Nat]]
         /\ outbox' \in [Commands -> [state : RowStates, claims : Nat,
                                      live : BOOLEAN, due : BOOLEAN]]
         /\ attempt' \in [Commands -> [state : AttemptStates, started : BOOLEAN]]
<1>1. CommandFailureState(n, retryable) \in CommandStates
  BY DEF CommandFailureState, CommandStates, Claimable, Terminal
<1>2. /\ RowFailureState(n, retryable) \in RowStates
      /\ RowFailureState(n, retryable) \in AttemptStates
  BY DEF RowFailureState, RowStates, AttemptStates
<1>3. CASE intent[c] \in EffectIntents
  BY <1>1, <1>2, <1>3, SetCommandType, ReleaseRowType, SetAttemptType DEF FailCommand
<1>4. CASE intent[c] \notin EffectIntents
  BY <1>1, <1>2, <1>4, SetCommandType, ReleaseRowType DEF FailCommand, TypeOK
<1> QED BY <1>3, <1>4

\* What is typed besides the workers and the tables, for the actions that leave
\* the rest alone.
EffectType ==
  /\ effect \in [Commands -> EffectStates]
  /\ prov \in [Commands -> ProviderStates]
  /\ begun \in [Commands -> Nat]
  /\ sends \in [Commands -> Nat]
  /\ denied \subseteq Commands

RequestType ==
  /\ mode \in Modes /\ intent \in [Commands -> Intents]
  /\ deleted \subseteq Commands
  /\ overdue \subseteq Commands
  /\ cancelling \in [Commands -> Nat]

TablesOK ==
  /\ cmd \in [Commands -> [state : CommandStates, version : Nat]]
  /\ outbox \in [Commands -> [state : RowStates, claims : Nat,
                              live : BOOLEAN, due : BOOLEAN]]
  /\ attempt \in [Commands -> [state : AttemptStates, started : BOOLEAN]]

LEMMA TypeParts ==
  TypeOK <=> WorkersOK /\ TablesOK /\ EffectType /\ RequestType /\ faults \in Nat
  BY DEF TypeOK, WorkersOK, WorkerType, TablesOK, EffectType, RequestType

LEMMA TypePartsNext ==
  TypeOK' <=> WorkersOK' /\ TablesOK' /\ EffectType' /\ RequestType' /\ faults' \in Nat
  BY DEF TypeOK, WorkersOK, WorkerType, TablesOK, EffectType, RequestType

\* The types of a worker's fields and of the counters of a command.
LEMMA WorkerFields ==
  ASSUME TypeOK, NEW w \in Workers
  PROVE  /\ worker[w] \in WorkerType
         /\ worker[w].pc # "idle" => worker[w].c \in Commands
         /\ worker[w].row \in Nat /\ worker[w].ver \in Nat
         /\ worker[w].claim \in Nat /\ worker[w].resp \in Responses
  BY DEF TypeOK, WorkerType

LEMMA CommandFields ==
  ASSUME TypeOK, NEW c \in Commands
  PROVE  /\ outbox[c].claims \in Nat /\ outbox[c].state \in RowStates
         /\ cmd[c].version \in Nat /\ cmd[c].state \in CommandStates
         /\ attempt[c].state \in AttemptStates /\ attempt[c].started \in BOOLEAN
  BY DEF TypeOK

\* The steps of a worker up to the executor.
LEMMA TypeClaiming ==
  ASSUME TypeOK, NEW w \in Workers,
         \/ \E c \in Commands : Select(w, c)
         \/ Claim(w) \/ Load(w) \/ SettleDeleted(w) \/ Start(w)
         \/ ExpireClaimed(w) \/ Permit(w)
  PROVE  TypeOK'
<1> DEFINE c == worker[w].c
<1> USE TypeParts, TypePartsNext
<1>0. /\ WorkersOK /\ TablesOK /\ EffectType /\ RequestType /\ faults \in Nat
      /\ worker[w] \in WorkerType
  BY WorkerFields
<1>1. ASSUME NEW d \in Commands, Select(w, d) PROVE TypeOK'
  <2> DEFINE r == [worker[w] EXCEPT !.pc = "page", !.c = d, !.row = outbox[d].claims]
  <2>1. outbox[d].claims \in Nat
    BY CommandFields
  <2>2. r \in WorkerType /\ r.c \in Commands
    BY <1>0, <2>1 DEF WorkerType, PCs
  <2>3. worker' = [worker EXCEPT ![w] = r]
    BY <1>1 DEF Select
  <2> HIDE DEF r
  <2>4. WorkersOK'
    BY <1>0, <2>2, <2>3, WorkerUpdate
  <2> QED BY <1>0, <1>1, <2>4 DEF Select, TablesOK, EffectType, RequestType,
                                  effectVars, requestVars
<1>2. CASE Claim(w)
  <2>1. worker[w].pc = "page" /\ c \in Commands /\ outbox[c].claims \in Nat
    BY <1>2, WorkerFields, CommandFields DEF Claim
  <2>2. WorkersOK'
    <3> DEFINE r == [worker[w] EXCEPT !.pc = "claimed", !.row = worker[w].row + 1,
                                      !.claim = outbox[c].claims + 1]
    <3>0. worker[w].row + 1 \in Nat /\ outbox[c].claims + 1 \in Nat
      BY <2>1, WorkerFields
    <3>1. r \in WorkerType /\ r.c \in Commands
      BY <1>0, <2>1, <3>0 DEF WorkerType, PCs
    <3>2. worker' = [worker EXCEPT ![w] = r] \/ Leave(w)
      BY <1>2 DEF Claim
    <3> HIDE DEF r
    <3> QED BY <1>0, <3>1, <3>2, WorkerUpdate, LeaveType
  <2>3. TablesOK'
    <3> DEFINE r == [state |-> "running", claims |-> outbox[c].claims + 1,
                     live |-> TRUE, due |-> FALSE]
    <3>1. r \in [state : RowStates, claims : Nat, live : BOOLEAN, due : BOOLEAN]
      BY <2>1 DEF RowStates
    <3>2. outbox' = [outbox EXCEPT ![c] = r] \/ UNCHANGED outbox
      BY <1>2 DEF Claim
    <3>3. UNCHANGED <<cmd, attempt>>
      BY <1>2 DEF Claim
    <3> HIDE DEF r
    <3>4. outbox' \in [Commands -> [state : RowStates, claims : Nat, live : BOOLEAN, due : BOOLEAN]]
      BY <1>0, <3>1, <3>2 DEF TablesOK
    <3> QED BY <1>0, <3>3, <3>4 DEF TablesOK
  <2> QED BY <1>0, <1>2, <2>2, <2>3 DEF Claim, EffectType, RequestType,
                                        effectVars, requestVars
<1>3. CASE Load(w)
  <2>1. worker[w].pc = "claimed" /\ c \in Commands /\ cmd[c].version \in Nat
    BY <1>3, WorkerFields, CommandFields DEF Load
  <2>2. WorkersOK'
    <3> DEFINE r == [worker[w] EXCEPT !.ver = cmd[c].version,
                                      !.pc = IF c \in deleted THEN "deleted" ELSE "start"]
    <3>1. r \in WorkerType /\ r.c \in Commands
      BY <1>0, <2>1 DEF WorkerType, PCs
    <3>2. worker' = [worker EXCEPT ![w] = r] \/ Leave(w)
      BY <1>3 DEF Load
    <3> HIDE DEF r
    <3> QED BY <1>0, <3>1, <3>2, WorkerUpdate, LeaveType
  <2>3. TablesOK'
    <3>1. UNCHANGED outbox \/ ReleaseRow(c, "failed", FALSE)
      BY <1>3 DEF Load
    <3> QED BY <1>0, <1>3, <2>1, <3>1, ReleaseRowType DEF Load, TablesOK, RowStates
  <2> QED BY <1>0, <1>3, <2>2, <2>3 DEF Load, EffectType, RequestType,
                                        effectVars, requestVars
<1>4. CASE SettleDeleted(w)
  <2>1. worker[w].pc = "deleted" /\ c \in Commands
    BY <1>4, WorkerFields DEF SettleDeleted
  <2>2. WorkersOK'
    BY <1>0, <1>4, <2>1, GotoType, LeaveType DEF SettleDeleted, PCs
  <2>3. TablesOK'
    <3>1. \/ SetCommand(c, "cancelled") /\ ReleaseRow(c, "failed", FALSE)
          \/ UNCHANGED <<cmd, outbox>>
      BY <1>4 DEF SettleDeleted
    <3> QED BY <1>0, <1>4, <2>1, <3>1, ReleaseRowType, SetCommandType
            DEF SettleDeleted, TablesOK, RowStates, CommandStates, Terminal
  <2> QED BY <1>0, <1>4, <2>2, <2>3 DEF SettleDeleted, EffectType, RequestType,
                                        effectVars, requestVars
<1>5. CASE Start(w)
  <2>1. worker[w].pc = "start" /\ c \in Commands /\ cmd[c].version + 1 \in Nat
    BY <1>5, WorkerFields, CommandFields DEF Start
  <2>2. WorkersOK'
    <3> DEFINE r == [worker[w] EXCEPT !.pc = "permit", !.ver = cmd[c].version + 1]
    <3>1. r \in WorkerType /\ r.c \in Commands
      BY <1>0, <2>1 DEF WorkerType, PCs
    <3>2. worker' = [worker EXCEPT ![w] = r] \/ Goto(w, "expire")
      BY <1>5 DEF Start
    <3> HIDE DEF r
    <3> QED BY <1>0, <2>1, <3>1, <3>2, WorkerUpdate, GotoType DEF PCs
  <2>3. TablesOK'
    <3>1. SetCommand(c, "running") \/ UNCHANGED cmd
      BY <1>5 DEF Start
    <3> QED BY <1>0, <1>5, <2>1, <3>1, SetCommandType DEF Start, TablesOK, CommandStates
  <2> QED BY <1>0, <1>5, <2>2, <2>3 DEF Start, EffectType, RequestType,
                                        effectVars, requestVars
<1>6. CASE ExpireClaimed(w)
  <2>1. worker[w].pc = "expire" /\ c \in Commands
    BY <1>6, WorkerFields DEF ExpireClaimed
  <2>2. WorkersOK'
    BY <1>0, <1>6, LeaveType DEF ExpireClaimed
  <2>3. TablesOK'
    <3>1. \/ SetCommand(c, "expired") /\ ReleaseRow(c, "failed", FALSE)
          \/ UNCHANGED <<cmd, outbox>>
      BY <1>6 DEF ExpireClaimed
    <3> QED BY <1>0, <1>6, <2>1, <3>1, ReleaseRowType, SetCommandType
            DEF ExpireClaimed, TablesOK, RowStates, CommandStates, Terminal
  <2> QED BY <1>0, <1>6, <2>2, <2>3 DEF ExpireClaimed, EffectType, RequestType,
                                        effectVars, requestVars
<1>7. CASE Permit(w)
  <2>1. worker[w].pc = "permit" /\ c \in Commands
    BY <1>7, WorkerFields DEF Permit
  <2>2. WorkersOK'
    <3>1. Goto(w, "search") \/ Goto(w, "execute") \/ Leave(w)
      BY <1>7 DEF Permit
    <3> QED BY <1>0, <2>1, <3>1, GotoType, LeaveType DEF PCs
  <2>3. TablesOK'
    <3>1. SetAttempt(c, "running", FALSE) \/ UNCHANGED attempt
      BY <1>7 DEF Permit
    <3> QED BY <1>0, <1>7, <2>1, <3>1, SetAttemptType DEF Permit, TablesOK, AttemptStates
  <2> QED BY <1>0, <1>7, <2>2, <2>3 DEF Permit, EffectType, RequestType,
                                        effectVars, requestVars
<1> QED BY <1>1, <1>2, <1>3, <1>4, <1>5, <1>6, <1>7

\* A step that moves one worker and leaves the database and the provider alone.
LEMMA TypeMove ==
  ASSUME TypeOK, NEW w \in Workers,
         Leave(w) \/ \E p \in PCs : worker[w].pc # "idle" /\ Goto(w, p),
         UNCHANGED <<cmd, outbox, attempt, effectVars, requestVars>>,
         faults' = faults \/ faults' = faults + 1
  PROVE  TypeOK'
<1>1. WorkersOK'
  BY TypeParts, LeaveType, GotoType
<1> QED BY <1>1, TypeParts, TypePartsNext DEF TablesOK, EffectType, RequestType,
                                              effectVars, requestVars

\* Errors settled outside the executor, and the two ends of an execution.
LEMMA TypeSettling ==
  ASSUME TypeOK, NEW w \in Workers,
         \/ RejectPersisted(w) \/ ProcessingError(w)
         \/ FinishSuccess(w) \/ FinishFailure(w)
  PROVE  TypeOK'
<1> DEFINE c == worker[w].c
<1>1. worker[w].pc # "idle" /\ c \in Commands /\ worker[w].row \in Nat
  BY WorkerFields DEF RejectPersisted, ProcessingError, FinishSuccess, FinishFailure
<1>2. Leave(w) /\ UNCHANGED <<effectVars, requestVars>>
  BY DEF RejectPersisted, ProcessingError, SettleProcessingError, FinishSuccess,
         FinishFailure
<1>3. faults' \in Nat
  <2>1. faults' = faults \/ faults' = faults + 1
    BY DEF RejectPersisted, ProcessingError, FinishSuccess, FinishFailure, Fault
  <2> QED BY <2>1 DEF TypeOK
<1>4. \/ \E retryable \in BOOLEAN : FailCommand(c, worker[w].row, retryable)
      \/ \E s \in RowStates : ReleaseRow(c, s, FALSE) /\ UNCHANGED <<cmd, attempt>>
      \/ /\ SetCommand(c, "succeeded") /\ ReleaseRow(c, "succeeded", FALSE)
         /\ UNCHANGED attempt
      \/ UNCHANGED <<cmd, outbox, attempt>>
  BY DEF RejectPersisted, ProcessingError, SettleProcessingError, FinishSuccess,
         FinishFailure, RowFailureState, RowStates
<1>5. TablesOK'
  <2>1. CASE \E retryable \in BOOLEAN : FailCommand(c, worker[w].row, retryable)
    BY <1>1, <2>1, FailCommandType DEF TablesOK
  <2>2. CASE \E s \in RowStates : ReleaseRow(c, s, FALSE) /\ UNCHANGED <<cmd, attempt>>
    BY <1>1, <2>2, TypeParts, ReleaseRowType DEF TablesOK
  <2>3. CASE /\ SetCommand(c, "succeeded") /\ ReleaseRow(c, "succeeded", FALSE)
             /\ UNCHANGED attempt
    BY <1>1, <2>3, TypeParts, ReleaseRowType, SetCommandType
       DEF TablesOK, RowStates, CommandStates, Terminal
  <2>4. CASE UNCHANGED <<cmd, outbox, attempt>>
    BY <2>4, TypeParts DEF TablesOK
  <2> QED BY <1>4, <2>1, <2>2, <2>3, <2>4
<1> QED BY <1>2, <1>3, <1>5, TypeParts, TypePartsNext, LeaveType
        DEF EffectType, RequestType, effectVars, requestVars

\* The steps of execute().
LEMMA TypeExecuting ==
  ASSUME TypeOK, NEW w \in Workers,
         \/ Search(w) \/ ReadAttempt(w) \/ Status(w) \/ StatusRefused(w)
         \/ RejectDueAt(w) \/ Begin(w)
         \/ RefuseDisabled(w) \/ Send(w) \/ SendReturns(w) \/ SendTimesOut(w)
         \/ Materialise(w) \/ Record(w) \/ ExecutorError(w) \/ Crash(w)
  PROVE  TypeOK'
<1> DEFINE c == worker[w].c
<1>0. /\ WorkersOK /\ TablesOK /\ EffectType /\ RequestType /\ faults \in Nat
      /\ worker[w] \in WorkerType
  BY WorkerFields, TypeParts
<1>1. worker[w].pc # "idle" /\ c \in Commands
  BY WorkerFields DEF Search, ReadAttempt, Status, StatusRefused, RejectDueAt, Begin,
     RefuseDisabled, Send, SendReturns, SendTimesOut, Materialise, Record, ExecutorError, Crash, PCs
<1>2. CASE Search(w) \/ ReadAttempt(w) \/ RejectDueAt(w) \/ RefuseDisabled(w)
           \/ SendTimesOut(w) \/ ExecutorError(w) \/ Crash(w)
  BY <1>1, <1>2, TypeMove
     DEF Search, ReadAttempt, RejectDueAt, RefuseDisabled, SendTimesOut,
         ExecutorError, Crash, Fault, PCs
<1>3. CASE Status(w)
  <2>1. WorkersOK'
    <3> DEFINE r == [worker[w] EXCEPT !.pc = "materialise", !.resp = "succeeded"]
    <3>1. r \in WorkerType /\ r.c \in Commands
      BY <1>0, <1>1 DEF WorkerType, PCs, Responses
    <3>2. worker' = [worker EXCEPT ![w] = r] \/ Goto(w, "fail") \/ Goto(w, "retry")
      BY <1>3 DEF Status
    <3> HIDE DEF r
    <3> QED BY <1>0, <1>1, <3>1, <3>2, WorkerUpdate, GotoType DEF PCs
  <2>2. EffectType'
    <3>1. effect' = [effect EXCEPT ![c] = "failed"] \/ effect' = effect
      BY <1>3 DEF Status
    <3> QED BY <1>0, <1>1, <1>3, <3>1 DEF Status, EffectType, EffectStates
  <2>3. faults' = faults \/ faults' = faults + 1
    BY <1>3 DEF Status, Fault
  <2>4. TablesOK' /\ RequestType'
    BY <1>0, <1>3 DEF Status, TablesOK, RequestType, requestVars
  <2>5. faults' \in Nat
    BY <1>0, <2>3
  <2> QED BY <2>1, <2>2, <2>4, <2>5, TypePartsNext
<1>4. CASE Begin(w)
  <2>1. WorkersOK'
    <3>1. Goto(w, "effect") \/ Goto(w, "succeed") \/ Goto(w, "fail")
      BY <1>4 DEF Begin
    <3> QED BY <1>0, <1>1, <3>1, GotoType DEF PCs
  <2>2. TablesOK'
    <3>1. SetAttempt(c, "running", TRUE) \/ UNCHANGED attempt
      BY <1>4 DEF Begin
    <3> QED BY <1>0, <1>1, <1>4, <3>1, SetAttemptType DEF Begin, TablesOK, AttemptStates
  <2>3. EffectType'
    <3>1. begun' = [begun EXCEPT ![c] = begun[c] + 1] \/ begun' = begun
      BY <1>4 DEF Begin
    <3>2. begun[c] + 1 \in Nat
      BY <1>0, <1>1 DEF EffectType
    <3> QED BY <1>0, <1>1, <1>4, <3>1, <3>2 DEF Begin, EffectType
  <2> QED BY <1>0, <1>4, <2>1, <2>2, <2>3, TypePartsNext DEF Begin, RequestType, requestVars
<1>5. CASE Send(w)
  <2>1. WorkersOK'
    BY <1>0, <1>1, <1>5, GotoType DEF Send, PCs
  <2>2. EffectType'
    <3>1. sends[c] + 1 \in Nat
      BY <1>0, <1>1 DEF EffectType
    <3>2. sends' = [sends EXCEPT ![c] = sends[c] + 1]
      BY <1>5 DEF Send
    <3>3. prov' = [prov EXCEPT ![c] = "inflight"] \/ prov' = prov
      BY <1>5 DEF Send
    <3> QED BY <1>0, <1>1, <1>5, <3>1, <3>2, <3>3 DEF Send, EffectType, ProviderStates
  <2> QED BY <1>0, <1>5, <2>1, <2>2, TypePartsNext
          DEF Send, TablesOK, RequestType, requestVars
<1>6. CASE SendReturns(w)
  <2>1. WorkersOK'
    <3> DEFINE r == [worker[w] EXCEPT !.pc = "materialise", !.resp = ResponseOf(c)]
    <3>1. r \in WorkerType /\ r.c \in Commands
      BY <1>0, <1>1 DEF WorkerType, PCs, Responses, ResponseOf
    <3>2. worker' = [worker EXCEPT ![w] = r] \/ Goto(w, "fail") \/ Goto(w, "retry")
      BY <1>6 DEF SendReturns
    <3> HIDE DEF r
    <3> QED BY <1>0, <1>1, <3>1, <3>2, WorkerUpdate, GotoType DEF PCs
  <2>2. faults' = faults \/ faults' = faults + 1
    BY <1>6 DEF SendReturns, Fault
  <2>3. faults' \in Nat
    BY <1>0, <2>2
  <2> QED BY <1>0, <1>6, <2>1, <2>3, TypePartsNext
          DEF SendReturns, TablesOK, EffectType, RequestType, effectVars, requestVars
<1>7. CASE Materialise(w)
  <2>1. WorkersOK'
    <3>1. Goto(w, "retry") \/ Goto(w, "fail") \/ Goto(w, "record")
      BY <1>7 DEF Materialise
    <3> QED BY <1>0, <1>1, <3>1, GotoType DEF PCs
  <2>2. EffectType'
    <3>1. EffectAfter(c, worker[w].resp) \in EffectStates
      <4>1. effect[c] \in EffectStates
        BY <1>0, <1>1 DEF EffectType
      <4> QED BY <4>1 DEF EffectAfter, EffectStates
    <3>2. effect' = [effect EXCEPT ![c] = EffectAfter(c, worker[w].resp)]
      BY <1>7 DEF Materialise
    <3> QED BY <1>0, <1>1, <1>7, <3>1, <3>2 DEF Materialise, EffectType
  <2> QED BY <1>0, <1>7, <2>1, <2>2, TypePartsNext
          DEF Materialise, TablesOK, RequestType, requestVars
<1>8. CASE Record(w)
  <2>1. WorkersOK'
    BY <1>0, <1>1, <1>8, GotoType DEF Record, PCs
  <2>2. TablesOK'
    BY <1>0, <1>1, <1>8, SetAttemptType DEF Record, TablesOK, AttemptStates
  <2> QED BY <1>0, <1>8, <2>1, <2>2, TypePartsNext
          DEF Record, EffectType, RequestType, effectVars, requestVars
<1>9. CASE StatusRefused(w)
  <2>1. WorkersOK'
    BY <1>0, <1>1, <1>9, GotoType DEF StatusRefused, PCs
  <2>2. EffectType' /\ TablesOK' /\ RequestType'
    BY <1>0, <1>1, <1>9 DEF StatusRefused, EffectType, TablesOK, RequestType, requestVars
  <2>3. faults' \in Nat
    BY <1>0, <1>9 DEF StatusRefused, Fault
  <2> QED BY <2>1, <2>2, <2>3, TypePartsNext
<1> QED BY <1>2, <1>3, <1>4, <1>5, <1>6, <1>7, <1>8, <1>9

\* Recovery, the requests, time and the provider.
LEMMA TypeEnvironment ==
  ASSUME TypeOK, NEW c \in Commands, Environment(c) \/ Interference(c)
  PROVE  TypeOK'
<1>0. /\ WorkersOK /\ TablesOK /\ EffectType /\ RequestType /\ faults \in Nat
      /\ cmd[c].version \in Nat /\ cmd[c].state \in CommandStates
      /\ outbox[c].claims \in Nat /\ outbox[c].state \in RowStates
  BY TypeParts, CommandFields
<1>1. /\ faults' \in Nat
      /\ UNCHANGED worker
  <2>1. faults' = faults \/ faults' = faults + 1
    BY DEF Environment, Interference, Recover, LeaseExpires, BecomesDue, ProviderSettles,
       MarkExpired, CancelRead, CancelApply, DeleteSession, TtlPasses, Stall, RequestLost,
       Fault
  <2>2. UNCHANGED worker
    BY DEF Environment, Interference, Recover, LeaseExpires, BecomesDue, ProviderSettles,
       MarkExpired, CancelRead, CancelApply, DeleteSession, TtlPasses, Stall, RequestLost
  <2> QED BY <1>0, <2>1, <2>2
<1>2. WorkersOK'
  BY <1>0, <1>1 DEF WorkersOK
<1>3. CASE Recover(c)
  <2>1. TablesOK'
    <3>1. CASE FailCommand(c, outbox[c].claims, TRUE)
      BY <1>0, <3>1, FailCommandType DEF TablesOK
    <3>2. CASE ReleaseRow(c, "failed", FALSE) /\ UNCHANGED <<cmd, attempt>>
      BY <1>0, <3>2, ReleaseRowType DEF TablesOK, RowStates
    <3>3. CASE /\ cmd[c].state \in Claimable
               /\ ReleaseRow(c, ResumedRow[cmd[c].state], TRUE) /\ UNCHANGED <<cmd, attempt>>
      <4>1. ResumedRow[cmd[c].state] \in RowStates
        BY <3>3 DEF ResumedRow, Claimable, RowStates
      <4> QED BY <1>0, <3>3, <4>1, ReleaseRowType DEF TablesOK
    <3>4. CASE SetCommand(c, "retryable") /\ ReleaseRow(c, "retrying", TRUE) /\ UNCHANGED attempt
      BY <1>0, <3>4, ReleaseRowType, SetCommandType
         DEF TablesOK, RowStates, CommandStates, Claimable
    <3> QED BY <1>3, <3>1, <3>2, <3>3, <3>4 DEF Recover, RecoveryOf
  <2> QED BY <1>0, <1>1, <1>2, <1>3, <2>1, TypePartsNext
          DEF Recover, EffectType, RequestType, effectVars, requestVars
<1>4. CASE LeaseExpires(c) \/ Stall(c) \/ BecomesDue(c)
  <2>1. TablesOK'
    <3> DEFINE Row == [state : RowStates, claims : Nat, live : BOOLEAN, due : BOOLEAN]
               expired == [outbox[c] EXCEPT !.live = FALSE]
               ready == [outbox[c] EXCEPT !.due = TRUE]
    <3>1. outbox \in [Commands -> Row] /\ expired \in Row /\ ready \in Row
      BY <1>0 DEF TablesOK
    <3>2. /\ \/ outbox' = [outbox EXCEPT ![c] = expired]
             \/ outbox' = [outbox EXCEPT ![c] = ready]
          /\ UNCHANGED <<cmd, attempt>>
      BY <1>4 DEF LeaseExpires, Stall, BecomesDue
    <3> HIDE DEF expired, ready
    <3>3. outbox' \in [Commands -> Row]
      BY <3>1, <3>2
    <3> QED BY <1>0, <3>2, <3>3 DEF TablesOK
  <2> QED BY <1>0, <1>1, <1>2, <1>4, <2>1, TypePartsNext
          DEF LeaseExpires, Stall, BecomesDue, EffectType, RequestType, effectVars, requestVars
<1>5. CASE ProviderSettles(c) \/ RequestLost(c)
  <2>1. EffectType'
    BY <1>0, <1>5 DEF ProviderSettles, RequestLost, EffectType, ProviderStates
  <2> QED BY <1>0, <1>1, <1>2, <1>5, <2>1, TypePartsNext
          DEF ProviderSettles, RequestLost, TablesOK, RequestType, requestVars
<1>6. CASE MarkExpired(c) \/ CancelApply(c)
  <2>1. /\ UNCHANGED attempt
        /\ \/ UNCHANGED cmd \/ SetCommand(c, "expired") \/ SetCommand(c, "cancelled")
        /\ UNCHANGED outbox \/ ReleaseRow(c, "failed", FALSE)
    BY <1>6 DEF MarkExpired, CancelApply, AbandonRow
  <2>2. TablesOK'
    BY <1>0, <2>1, ReleaseRowType, SetCommandType
       DEF TablesOK, RowStates, CommandStates, Terminal
  <2>3. RequestType'
    BY <1>0, <1>6 DEF MarkExpired, CancelApply, RequestType, requestVars
  <2> QED BY <1>0, <1>1, <1>2, <1>6, <2>2, <2>3, TypePartsNext
          DEF MarkExpired, CancelApply, EffectType, effectVars
<1>7. CASE CancelRead(c) \/ TtlPasses(c)
  <2>1. RequestType'
    BY <1>0, <1>7 DEF CancelRead, TtlPasses, RequestType
  <2> QED BY <1>0, <1>1, <1>2, <1>7, <2>1, TypePartsNext
          DEF CancelRead, TtlPasses, TablesOK, EffectType, effectVars
<1>8. CASE DeleteSession(c)
  <2>1. EffectType'
    BY <1>0, <1>8 DEF DeleteSession, EffectType, EffectStates
  <2> QED BY <1>0, <1>1, <1>2, <1>8, <2>1, TypePartsNext
          DEF DeleteSession, TablesOK, RequestType
<1> QED BY <1>3, <1>4, <1>5, <1>6, <1>7, <1>8 DEF Environment, Interference

LEMMA TypeStep == TypeOK /\ [Next]_vars => TypeOK'
<1> SUFFICES ASSUME TypeOK, [Next]_vars PROVE TypeOK'
  OBVIOUS
<1>1. ASSUME NEW w \in Workers, WorkerStep(w) PROVE TypeOK'
  BY <1>1, TypeClaiming, TypeExecuting, TypeSettling DEF WorkerStep
<1>2. ASSUME NEW w \in Workers, WorkerFault(w) PROVE TypeOK'
  BY <1>2, TypeExecuting, TypeSettling DEF WorkerFault
<1>3. ASSUME NEW c \in Commands, Environment(c) \/ Interference(c) PROVE TypeOK'
  BY <1>3, TypeEnvironment
<1>4. CASE UNCHANGED vars
  BY <1>4 DEF vars, TypeOK
<1> QED BY <1>1, <1>2, <1>3, <1>4 DEF Next

\* Every variable keeps its type, whatever the workers, the requests and the
\* provider do.
THEOREM TypeCorrect == Spec => []TypeOK
  BY TypeInit, TypeStep, PTL DEF Spec

-----------------------------------------------------------------------------
(* Commands end once. *)

\* The only change a step makes to the commands is one compare-and-set of one
\* command that has not ended.
CommandStep ==
  \/ UNCHANGED cmd
  \/ \E c \in Commands, s \in CommandStates : cmd[c].state \notin Terminal /\ SetCommand(c, s)

LEMMA FailCommandStep ==
  ASSUME TypeOK, NEW c \in Commands, NEW n \in Nat, NEW retryable \in BOOLEAN,
         FailCommand(c, n, retryable), cmd[c].state \notin Terminal
  PROVE  CommandStep
<1>1. CommandFailureState(n, retryable) \in CommandStates
  BY DEF CommandFailureState, CommandStates, Claimable, Terminal
<1> QED BY <1>1 DEF CommandStep, FailCommand

LEMMA WorkerCommandStep ==
  ASSUME TypeOK, NEW w \in Workers, WorkerStep(w) \/ WorkerFault(w)
  PROVE  CommandStep
<1> DEFINE c == worker[w].c
<1>1. CASE SettleDeleted(w) \/ Start(w) \/ ExpireClaimed(w) \/ FinishSuccess(w)
  <2>1. c \in Commands
    BY <1>1, WorkerFields DEF SettleDeleted, Start, ExpireClaimed, FinishSuccess
  <2>2. \/ UNCHANGED cmd
        \/ /\ cmd[c].state \in Claimable \cup {"running"}
           /\ \E s \in {"cancelled", "running", "expired", "succeeded"} : SetCommand(c, s)
    BY <1>1 DEF SettleDeleted, Start, StartWins, ExpireClaimed, FinishSuccess, FinishWins
  <2> QED BY <2>1, <2>2 DEF CommandStep, CommandStates, Claimable, Terminal
<1>2. CASE FinishFailure(w) \/ RejectPersisted(w) \/ ProcessingError(w)
  <2>1. c \in Commands /\ worker[w].row \in Nat
    BY <1>2, WorkerFields DEF FinishFailure, RejectPersisted, ProcessingError
  <2>2. \/ UNCHANGED cmd
        \/ /\ cmd[c].state \notin Terminal
           /\ \E retryable \in BOOLEAN : FailCommand(c, worker[w].row, retryable)
    BY <1>2 DEF FinishFailure, FinishWins, RejectPersisted, ProcessingError,
                SettleProcessingError, SettlesAs, Terminal
  <2> QED BY <2>1, <2>2, FailCommandStep DEF CommandStep
<1>3. CASE \/ \E d \in Commands : Select(w, d)
           \/ Claim(w) \/ Load(w) \/ Permit(w) \/ Search(w) \/ ReadAttempt(w) \/ Status(w)
           \/ StatusRefused(w) \/ Begin(w) \/ RefuseDisabled(w) \/ Send(w) \/ SendReturns(w)
           \/ Materialise(w) \/ Record(w) \/ RejectDueAt(w) \/ SendTimesOut(w)
           \/ ExecutorError(w) \/ Crash(w)
  <2>1. UNCHANGED cmd
    BY <1>3 DEF Select, Claim, Load, Permit, Search, ReadAttempt, Status, StatusRefused, Begin,
       RefuseDisabled, Send, SendReturns, Materialise, Record, RejectDueAt,
       SendTimesOut, ExecutorError, Crash
  <2> QED BY <2>1 DEF CommandStep
<1> QED BY <1>1, <1>2, <1>3 DEF WorkerStep, WorkerFault

LEMMA EnvironmentCommandStep ==
  ASSUME TypeOK, NEW c \in Commands, Environment(c) \/ Interference(c)
  PROVE  CommandStep
<1>1. CASE Recover(c)
  <2>1. cmd[c].state \in CommandStates /\ outbox[c].claims \in Nat
    BY CommandFields
  <2>2. \/ UNCHANGED cmd
        \/ /\ cmd[c].state \notin Terminal
           /\ FailCommand(c, outbox[c].claims, TRUE) \/ SetCommand(c, "retryable")
    BY <1>1 DEF Recover, RecoveryOf
  <2>3. "retryable" \in CommandStates
    BY DEF CommandStates, Claimable
  <2> QED BY <2>1, <2>2, <2>3, FailCommandStep DEF CommandStep
<1>2. CASE MarkExpired(c) \/ CancelApply(c)
  <2>1. \/ UNCHANGED cmd
        \/ /\ cmd[c].state \in Claimable \cup {"running"}
           /\ SetCommand(c, "expired") \/ SetCommand(c, "cancelled")
    BY <1>2 DEF MarkExpired, CancelApply, Claimable
  <2> QED BY <2>1 DEF CommandStep, CommandStates, Claimable, Terminal
<1>3. CASE \/ LeaseExpires(c) \/ BecomesDue(c) \/ ProviderSettles(c) \/ CancelRead(c)
           \/ DeleteSession(c) \/ TtlPasses(c) \/ Stall(c) \/ RequestLost(c)
  <2>1. UNCHANGED cmd
    BY <1>3 DEF LeaseExpires, BecomesDue, ProviderSettles, CancelRead, DeleteSession,
       TtlPasses, Stall, RequestLost
  <2> QED BY <2>1 DEF CommandStep
<1> QED BY <1>1, <1>2, <1>3 DEF Environment, Interference

LEMMA EndsOnceNext == TypeOK /\ [Next]_vars => [EndsOnceStep]_vars
<1> SUFFICES ASSUME TypeOK, Next PROVE EndsOnceStep
  OBVIOUS
<1>1. CommandStep
  BY WorkerCommandStep, EnvironmentCommandStep DEF Next
<1>2. ASSUME NEW c \in Commands, NEW s \in CommandStates,
             cmd[c].state \notin Terminal, SetCommand(c, s)
      PROVE  EndsOnceStep
  <2>1. cmd \in [Commands -> [state : CommandStates, version : Nat]]
    BY DEF TypeOK
  <2>2. cmd'[c].version = cmd[c].version + 1
    BY <1>2, <2>1 DEF SetCommand
  <2>3. \A d \in Commands : d # c => cmd'[d] = cmd[d]
    BY <1>2, <2>1 DEF SetCommand
  <2> QED BY <1>2, <2>2, <2>3 DEF EndsOnceStep
<1> QED BY <1>1, <1>2 DEF CommandStep, EndsOnceStep

\* What ended stays ended, and versions grow by one, for any number of commands
\* and workers, any retry limit, and any crashes and interleavings.
THEOREM EndsOnceCorrect == Spec => EndsOnce
  BY TypeCorrect, EndsOnceNext, PTL DEF Spec, EndsOnce

-----------------------------------------------------------------------------
(* At most one request to deliver. *)

\* What the steps other than a won claim, the decision to begin, the begin and
\* the send have in common: tokens stay, no row is newly running, a worker does
\* not come to the begin, nothing is begun or sent, and an attempt row changes
\* only so that it still admits no begin that was not the first.
QuietWorker(w) ==
  \/ worker'[w].pc \in {"idle", "page"}
  \/ /\ worker[w].pc \notin {"idle", "page"}
     /\ worker'[w].c = worker[w].c /\ worker'[w].claim = worker[w].claim
     /\ worker'[w].pc \in {"begin", "effect"} => worker'[w].pc = worker[w].pc

QuietRow(c) ==
  /\ outbox'[c].claims = outbox[c].claims
  /\ outbox'[c].state = "running" => outbox[c].state = "running"

QuietAttempt(c) ==
  \/ attempt'[c] = attempt[c]
  \/ /\ attempt'[c].state # "none"
     /\ attempt'[c].started \/ begun[c] = 0
     /\ \/ attempt'[c].state = "succeeded" \/ outbox'[c].state # "running"
        \/ begun[c] = 0

Quiet ==
  /\ UNCHANGED <<mode, intent, begun, sends>>
  /\ \A w \in Workers : QuietWorker(w)
  /\ \A c \in Commands : QuietRow(c) /\ QuietAttempt(c)

LEMMA QuietKeepsSendInv ==
  ASSUME SendInv, TypeOK', Quiet
  PROVE  SendInv'
<1>1. /\ TypeOK /\ LeasesAreDistinct /\ BegunIsRemembered /\ BeginIsFirst /\ OneSender
  BY DEF SendInv
<1>2. \A w \in Workers :
        /\ worker[w].pc # "idle" => worker[w].c \in Commands
        /\ worker'[w].pc # "idle" => worker'[w].c \in Commands
  BY <1>1 DEF TypeOK
<1>3. LeasesAreDistinct'
  BY <1>1, <1>2 DEF Quiet, QuietWorker, QuietRow, QuietAttempt, LeasesAreDistinct
<1>4. BegunIsRemembered'
  BY <1>1 DEF Quiet, QuietWorker, QuietRow, QuietAttempt, BegunIsRemembered
<1>5. BeginIsFirst'
  <2> SUFFICES ASSUME NEW w \in Workers, worker'[w].pc = "begin", External(worker[w].c)',
                      HoldsClaim(w)',
                      attempt'[worker'[w].c].state \in {"running", "retrying", "unknown"}
               PROVE  begun'[worker'[w].c] = 0
    BY DEF BeginIsFirst
  <2>1. /\ worker[w].pc = "begin" /\ worker'[w].c = worker[w].c /\ worker[w].c \in Commands
        /\ External(worker[w].c) /\ HoldsClaim(w) /\ begun' = begun
    BY <1>2 DEF Quiet, QuietWorker, QuietRow, QuietAttempt, External, HoldsClaim
  <2>2. CASE attempt'[worker[w].c] = attempt[worker[w].c]
    BY <1>1, <2>1, <2>2 DEF BeginIsFirst
  <2>3. CASE attempt'[worker[w].c] # attempt[worker[w].c]
    BY <2>1, <2>3 DEF Quiet, QuietWorker, QuietRow, QuietAttempt, HoldsClaim
  <2> QED BY <2>2, <2>3
<1>6. OneSender'
  <2>1. \A c \in Commands : External(c)' <=> External(c)
    BY DEF Quiet, QuietWorker, QuietRow, QuietAttempt, External
  <2> QED BY <1>1, <1>2, <2>1 DEF Quiet, QuietWorker, QuietRow, QuietAttempt, OneSender
<1> QED BY <1>3, <1>4, <1>5, <1>6 DEF SendInv

\* One worker moves; the others stay.
LEMMA QuietMove ==
  ASSUME TypeOK, NEW w \in Workers,
         \/ Leave(w)
         \/ \E p \in PCs \ {"begin", "effect"} :
              worker[w].pc \notin {"idle", "page"} /\ Goto(w, p)
  PROVE  \A u \in Workers : QuietWorker(u)
<1> SUFFICES ASSUME NEW u \in Workers PROVE QuietWorker(u)
  OBVIOUS
<1>1. CASE u # w
  <2>1. worker'[u] = worker[u]
    BY <1>1 DEF TypeOK, Leave, Goto
  <2> QED BY <2>1 DEF QuietWorker
<1>2. CASE u = w /\ Leave(w)
  <2>1. worker'[u].pc = "idle"
    BY <1>2 DEF TypeOK, Leave, Idle
  <2> QED BY <2>1 DEF QuietWorker
<1>3. CASE u = w /\ \E p \in PCs \ {"begin", "effect"} :
                     worker[w].pc \notin {"idle", "page"} /\ Goto(w, p)
  <2> PICK p \in PCs \ {"begin", "effect"} :
             worker[w].pc \notin {"idle", "page"} /\ Goto(w, p)
    BY <1>3
  <2>1. worker'[u] = [worker[w] EXCEPT !.pc = p]
    BY <1>3 DEF TypeOK, Goto
  <2> QED BY <1>3, <2>1, WorkerFields DEF QuietWorker, WorkerType
<1> QED BY <1>1, <1>2, <1>3

LEMMA QuietTables ==
  ASSUME TypeOK, NEW c \in Commands
  PROVE  /\ UNCHANGED outbox => \A d \in Commands : QuietRow(d)
         /\ UNCHANGED attempt => \A d \in Commands : QuietAttempt(d)
         /\ \A s \in RowStates \ {"running"}, due \in BOOLEAN :
              ReleaseRow(c, s, due) => \A d \in Commands : QuietRow(d)
         /\ \A n \in Nat, retryable \in BOOLEAN :
              FailCommand(c, n, retryable) =>
                \A d \in Commands : QuietRow(d) /\ QuietAttempt(d)
<1>1. UNCHANGED outbox => \A d \in Commands : QuietRow(d)
  BY DEF QuietRow
<1>2. UNCHANGED attempt => \A d \in Commands : QuietAttempt(d)
  BY DEF QuietAttempt
<1>3. ASSUME NEW s \in RowStates \ {"running"}, NEW due \in BOOLEAN, ReleaseRow(c, s, due),
             NEW d \in Commands
      PROVE  QuietRow(d) /\ (d = c => outbox'[d].state = s)
  BY <1>3 DEF TypeOK, ReleaseRow, QuietRow
<1>4. ASSUME NEW n \in Nat, NEW retryable \in BOOLEAN, FailCommand(c, n, retryable),
             NEW d \in Commands
      PROVE  QuietRow(d) /\ QuietAttempt(d)
  <2> DEFINE s == RowFailureState(n, retryable)
  <2>1. s \in RowStates \ {"running"} /\ s # "none"
    BY DEF RowFailureState, RowStates
  <2>2. /\ ReleaseRow(c, s, FALSE)
        /\ attempt' = [attempt EXCEPT ![c] = [state |-> s, started |-> TRUE]]
           \/ UNCHANGED attempt
    BY <1>4 DEF FailCommand, SetAttempt
  <2> HIDE DEF s
  <2>3. QuietRow(d) /\ (d = c => outbox'[d].state # "running")
    BY <1>3, <2>1, <2>2
  <2>4. QuietAttempt(d)
    BY <2>1, <2>2, <2>3 DEF TypeOK, QuietAttempt
  <2> QED BY <2>3, <2>4
<1> QED BY <1>1, <1>2, <1>3, <1>4

\* A worker updated in other fields too.
LEMMA QuietUpdate ==
  ASSUME TypeOK, NEW w \in Workers, NEW r, worker' = [worker EXCEPT ![w] = r],
         \/ r.pc = "page"
         \/ /\ r.pc \notin {"begin", "effect"} /\ worker[w].pc \notin {"idle", "page"}
            /\ r.c = worker[w].c /\ r.claim = worker[w].claim
  PROVE  \A u \in Workers : QuietWorker(u)
  BY DEF TypeOK, QuietWorker

\* The steps of a worker that touch neither the attempt row nor the histories.
LEMMA QuietWorkerSteps ==
  ASSUME TypeOK, NEW w \in Workers,
         \/ \E c \in Commands : Select(w, c)
         \/ Claim(w) /\ Leave(w) /\ UNCHANGED outbox
         \/ ReadAttempt(w) /\ ~Goto(w, "begin")
         \/ Begin(w) /\ ~BeginWins(w)
         \/ Load(w) \/ SettleDeleted(w) \/ Start(w) \/ ExpireClaimed(w)
         \/ Search(w) \/ Status(w) \/ StatusRefused(w) \/ RejectDueAt(w) \/ RefuseDisabled(w)
         \/ SendReturns(w) \/ SendTimesOut(w) \/ Materialise(w)
         \/ ExecutorError(w) \/ Crash(w) \/ FinishSuccess(w)
  PROVE  Quiet
<1> DEFINE c == worker[w].c
<1>1. UNCHANGED <<mode, intent, begun, sends, attempt>>
  BY DEF Select, Claim, ReadAttempt, Begin, Load, SettleDeleted, Start, ExpireClaimed,
     Search, Status, StatusRefused, RejectDueAt, RefuseDisabled, SendReturns, SendTimesOut,
     Materialise, ExecutorError, Crash, FinishSuccess, effectVars, requestVars
<1>2. \A d \in Commands : QuietRow(d)
  <2>1. CASE UNCHANGED outbox
    BY <2>1 DEF QuietRow
  <2>2. CASE ReleaseRow(c, "failed", FALSE)
    BY <2>2 DEF TypeOK, ReleaseRow, QuietRow
  <2>3. CASE ReleaseRow(c, "succeeded", FALSE)
    BY <2>3 DEF TypeOK, ReleaseRow, QuietRow
  <2> QED BY <2>1, <2>2, <2>3
          DEF Select, Claim, ReadAttempt, Begin, Load, SettleDeleted, Start, ExpireClaimed,
          Search, Status, StatusRefused, RejectDueAt, RefuseDisabled, SendReturns, SendTimesOut,
          Materialise, ExecutorError, Crash, FinishSuccess
<1>3. \A u \in Workers : QuietWorker(u)
  <2>1. CASE Leave(w)
    BY <2>1, QuietMove
  <2>2. CASE \E p \in PCs \ {"begin", "effect"} :
               worker[w].pc \notin {"idle", "page"} /\ Goto(w, p)
    BY <2>2, QuietMove
  <2>3. ASSUME NEW d \in Commands, Select(w, d) PROVE \A u \in Workers : QuietWorker(u)
    <3> DEFINE r == [worker[w] EXCEPT !.pc = "page", !.c = d, !.row = outbox[d].claims]
    <3>1. worker' = [worker EXCEPT ![w] = r] /\ r.pc = "page"
      BY <2>3, WorkerFields DEF Select, WorkerType
    <3> HIDE DEF r
    <3> QED BY <3>1, QuietUpdate
  <2>4. CASE Load(w)
    <3> DEFINE r == [worker[w] EXCEPT !.ver = cmd[c].version,
                                      !.pc = IF c \in deleted THEN "deleted" ELSE "start"]
    <3>1. \/ worker' = [worker EXCEPT ![w] = r]
          \/ Leave(w)
      BY <2>4 DEF Load, PCs
    <3>2. /\ r.pc \notin {"begin", "effect"} /\ worker[w].pc \notin {"idle", "page"}
          /\ r.c = worker[w].c /\ r.claim = worker[w].claim
      BY <2>4, WorkerFields DEF Load, WorkerType
    <3> HIDE DEF r
    <3> QED BY <2>4, <3>1, <3>2, QuietUpdate, QuietMove DEF Load, PCs
  <2>5. CASE Start(w)
    <3> DEFINE r == [worker[w] EXCEPT !.pc = "permit", !.ver = cmd[c].version + 1]
    <3>1. \/ worker' = [worker EXCEPT ![w] = r]
          \/ Goto(w, "expire")
      BY <2>5 DEF Start, PCs
    <3>2. /\ r.pc \notin {"begin", "effect"} /\ worker[w].pc \notin {"idle", "page"}
          /\ r.c = worker[w].c /\ r.claim = worker[w].claim
      BY <2>5, WorkerFields DEF Start, WorkerType
    <3> HIDE DEF r
    <3> QED BY <2>5, <3>1, <3>2, QuietUpdate, QuietMove DEF Start, PCs
  <2>6. CASE Status(w)
    <3> DEFINE r == [worker[w] EXCEPT !.pc = "materialise", !.resp = "succeeded"]
    <3>1. \/ worker' = [worker EXCEPT ![w] = r]
          \/ Goto(w, "fail") \/ Goto(w, "retry")
      BY <2>6 DEF Status, PCs
    <3>2. /\ r.pc \notin {"begin", "effect"} /\ worker[w].pc \notin {"idle", "page"}
          /\ r.c = worker[w].c /\ r.claim = worker[w].claim
      BY <2>6, WorkerFields DEF Status, WorkerType
    <3> HIDE DEF r
    <3> QED BY <2>6, <3>1, <3>2, QuietUpdate, QuietMove DEF Status, PCs
  <2>7. CASE SendReturns(w)
    <3> DEFINE r == [worker[w] EXCEPT !.pc = "materialise", !.resp = ResponseOf(c)]
    <3>1. \/ worker' = [worker EXCEPT ![w] = r]
          \/ Goto(w, "fail") \/ Goto(w, "retry")
      BY <2>7 DEF SendReturns, PCs
    <3>2. /\ r.pc \notin {"begin", "effect"} /\ worker[w].pc \notin {"idle", "page"}
          /\ r.c = worker[w].c /\ r.claim = worker[w].claim
      BY <2>7, WorkerFields DEF SendReturns, WorkerType
    <3> HIDE DEF r
    <3> QED BY <2>7, <3>1, <3>2, QuietUpdate, QuietMove DEF SendReturns, PCs
  <2> QED BY <2>1, <2>2, <2>3, <2>4, <2>5, <2>6, <2>7
          DEF Claim, ReadAttempt, Begin, SettleDeleted, ExpireClaimed, Search,
          StatusRefused, RejectDueAt, RefuseDisabled, SendTimesOut, Materialise,
          ExecutorError, Crash, FinishSuccess, PCs
<1> QED BY <1>1, <1>2, <1>3, QuietTables DEF Quiet

\* The steps of a worker that write the attempt row, the begin excepted.
LEMMA QuietAttemptSteps ==
  ASSUME TypeOK, BegunIsRemembered, NEW w \in Workers,
         \/ FinishFailure(w) \/ RejectPersisted(w) \/ ProcessingError(w)
         \/ Permit(w) \/ Record(w)
  PROVE  Quiet
<1> DEFINE c == worker[w].c
<1>1. UNCHANGED <<mode, intent, begun, sends>>
  BY DEF FinishFailure, RejectPersisted, ProcessingError, SettleProcessingError, Permit,
     Record, effectVars, requestVars
<1>2. CASE FinishFailure(w) \/ RejectPersisted(w) \/ ProcessingError(w)
  <2>1. Leave(w) /\ c \in Commands /\ worker[w].row \in Nat
    BY <1>2, WorkerFields
       DEF FinishFailure, RejectPersisted, ProcessingError, SettleProcessingError
  <2>2. \/ \E retryable \in BOOLEAN : FailCommand(c, worker[w].row, retryable)
        \/ /\ UNCHANGED attempt
           /\ \/ UNCHANGED outbox
              \/ \E s \in RowStates \ {"running"} : ReleaseRow(c, s, FALSE)
    BY <1>2 DEF FinishFailure, RejectPersisted, ProcessingError, SettleProcessingError,
                RowFailureState, RowStates
  <2>3. \A u \in Workers : QuietWorker(u)
    BY <2>1, QuietMove
  <2>4. \A d \in Commands : QuietRow(d) /\ QuietAttempt(d)
    BY <2>1, <2>2, QuietTables
  <2> QED BY <1>1, <2>3, <2>4 DEF Quiet
<1>3. CASE Permit(w)
  <2>1. UNCHANGED outbox
    BY <1>3 DEF Permit
  <2>2. \A u \in Workers : QuietWorker(u)
    <3>1. \/ Leave(w)
          \/ /\ worker[w].pc \notin {"idle", "page"}
             /\ Goto(w, "search") \/ Goto(w, "execute")
      BY <1>3 DEF Permit
    <3> QED BY <3>1, QuietMove DEF PCs
  <2>3. \A d \in Commands : QuietAttempt(d)
    <3>1. CASE UNCHANGED attempt
      BY <3>1 DEF QuietAttempt
    <3>2. CASE attempt[c].state = "none" /\ SetAttempt(c, "running", FALSE)
      <4> SUFFICES ASSUME NEW d \in Commands PROVE QuietAttempt(d)
        OBVIOUS
      <4>1. d # c => attempt'[d] = attempt[d]
        BY <3>2 DEF SetAttempt, TypeOK
      <4>2. d = c => attempt'[d] = [state |-> "running", started |-> FALSE] /\ begun[d] = 0
        BY <3>2 DEF SetAttempt, TypeOK, BegunIsRemembered
      <4> QED BY <4>1, <4>2 DEF QuietAttempt
    <3> QED BY <1>3, <3>1, <3>2 DEF Permit
  <2> QED BY <1>1, <2>1, <2>2, <2>3 DEF Quiet, QuietRow
<1>4. CASE Record(w)
  <2>1. UNCHANGED outbox /\ SetAttempt(c, "succeeded", TRUE)
    BY <1>4 DEF Record
  <2>2. \A u \in Workers : QuietWorker(u)
    <3>1. worker[w].pc \notin {"idle", "page"} /\ Goto(w, "succeed")
      BY <1>4 DEF Record
    <3> QED BY <3>1, QuietMove DEF PCs
  <2>3. \A d \in Commands : QuietAttempt(d)
    BY <2>1 DEF SetAttempt, TypeOK, QuietAttempt
  <2> QED BY <1>1, <2>1, <2>2, <2>3 DEF Quiet, QuietRow
<1> QED BY <1>2, <1>3, <1>4

LEMMA QuietEnvironment ==
  ASSUME TypeOK, NEW c \in Commands, Environment(c) \/ Interference(c)
  PROVE  Quiet
<1>1. UNCHANGED <<mode, intent, begun, sends, worker>>
  BY DEF Environment, Interference, Recover, LeaseExpires, BecomesDue, ProviderSettles,
     MarkExpired, CancelRead, CancelApply, DeleteSession, TtlPasses, Stall, RequestLost,
     effectVars, requestVars
<1>2. \A u \in Workers : QuietWorker(u)
  BY <1>1 DEF QuietWorker
<1>3. \A d \in Commands : QuietRow(d) /\ QuietAttempt(d)
  <2>1. CASE Recover(c)
    <3>1. /\ cmd[c].state \in Claimable => ResumedRow[cmd[c].state] \in RowStates \ {"running"}
          /\ "failed" \in RowStates \ {"running"} /\ "retrying" \in RowStates \ {"running"}
          /\ outbox[c].claims \in Nat
      BY CommandFields DEF ResumedRow, Claimable, RowStates
    <3>2. \/ FailCommand(c, outbox[c].claims, TRUE)
          \/ /\ UNCHANGED attempt
             /\ \/ ReleaseRow(c, "failed", FALSE)
                \/ ReleaseRow(c, "retrying", TRUE)
                \/ cmd[c].state \in Claimable /\ ReleaseRow(c, ResumedRow[cmd[c].state], TRUE)
      BY <2>1 DEF Recover, RecoveryOf
    <3> QED BY <3>1, <3>2, QuietTables
  <2>2. CASE LeaseExpires(c) \/ Stall(c) \/ BecomesDue(c)
    <3>1. /\ UNCHANGED attempt
          /\ \/ outbox' = [outbox EXCEPT ![c].live = FALSE]
             \/ outbox' = [outbox EXCEPT ![c].due = TRUE]
      BY <2>2 DEF LeaseExpires, Stall, BecomesDue
    <3>2. ASSUME NEW d \in Commands PROVE QuietRow(d)
      <4>1. CASE d # c
        BY <3>1, <4>1 DEF TypeOK, QuietRow
      <4>2. CASE d = c
        <5>1. \/ outbox'[c] = [outbox[c] EXCEPT !.live = FALSE]
              \/ outbox'[c] = [outbox[c] EXCEPT !.due = TRUE]
          BY <3>1 DEF TypeOK
        <5> QED BY <4>2, <5>1 DEF TypeOK, QuietRow
      <4> QED BY <4>1, <4>2
    <3> QED BY <3>1, <3>2, QuietTables
  <2>3. CASE MarkExpired(c) \/ CancelApply(c)
    <3>1. UNCHANGED attempt /\ (UNCHANGED outbox \/ ReleaseRow(c, "failed", FALSE))
      BY <2>3 DEF MarkExpired, CancelApply, AbandonRow
    <3> QED BY <3>1, QuietTables DEF RowStates
  <2>4. CASE ProviderSettles(c) \/ CancelRead(c) \/ DeleteSession(c) \/ TtlPasses(c)
             \/ RequestLost(c)
    <3>1. UNCHANGED <<outbox, attempt>>
      BY <2>4 DEF ProviderSettles, CancelRead, DeleteSession, TtlPasses, RequestLost
    <3> QED BY <3>1 DEF QuietRow, QuietAttempt
  <2> QED BY <2>1, <2>2, <2>3, <2>4 DEF Environment, Interference
<1> QED BY <1>1, <1>2, <1>3 DEF Quiet

\* A won claim makes a token that no other worker has.
LEMMA ClaimKeepsSendInv ==
  ASSUME SendInv, TypeOK', NEW w \in Workers, Claim(w)
  PROVE  SendInv'
<1> DEFINE c == worker[w].c
           r == [worker[w] EXCEPT !.pc = "claimed", !.row = worker[w].row + 1,
                                  !.claim = outbox[c].claims + 1]
<1>0. /\ TypeOK /\ LeasesAreDistinct /\ BegunIsRemembered /\ BeginIsFirst /\ OneSender
  BY DEF SendInv
<1>1. CASE Leave(w) /\ UNCHANGED outbox
  BY <1>0, <1>1, QuietWorkerSteps, QuietKeepsSendInv
<1>2. CASE /\ worker' = [worker EXCEPT ![w] = r]
           /\ outbox' = [outbox EXCEPT ![c] = [state |-> "running", claims |-> @.claims + 1,
                                               live |-> TRUE, due |-> FALSE]]
  <2>1. worker[w].pc = "page" /\ c \in Commands /\ outbox[c].claims \in Nat
    BY <1>0, WorkerFields, CommandFields DEF Claim
  <2>2. UNCHANGED <<mode, intent, attempt, begun, sends>>
    BY DEF Claim, effectVars, requestVars
  <2>3. r.pc = "claimed" /\ r.c = c /\ r.claim = outbox[c].claims + 1
    BY <1>0, WorkerFields DEF WorkerType
  <2> HIDE DEF r
  <2>4. /\ worker'[w].pc = "claimed" /\ worker'[w].c = c
        /\ worker'[w].claim = outbox[c].claims + 1
        /\ \A u \in Workers : u # w => worker'[u] = worker[u]
    BY <1>0, <1>2, <2>3 DEF TypeOK
  <2>5. /\ outbox'[c].claims = outbox[c].claims + 1
        /\ \A d \in Commands : d # c => outbox'[d] = outbox[d]
    BY <1>0, <1>2, <2>1 DEF TypeOK
  <2>6. \A u \in Workers :
          /\ worker[u].claim \in Nat
          /\ worker[u].pc # "idle" => worker[u].c \in Commands
    BY <1>0, WorkerFields
  <2> HIDE DEF c
  <2>7. LeasesAreDistinct'
    BY <1>0, <2>1, <2>4, <2>5, <2>6 DEF LeasesAreDistinct
  <2>8. BegunIsRemembered'
    BY <1>0, <2>2 DEF BegunIsRemembered
  <2>9. BeginIsFirst'
    <3> SUFFICES ASSUME NEW u \in Workers, worker'[u].pc = "begin",
                        External(worker[u].c)', HoldsClaim(u)',
                        attempt'[worker'[u].c].state \in {"running", "retrying", "unknown"}
                 PROVE  begun'[worker'[u].c] = 0
      BY DEF BeginIsFirst
    <3>1. u # w /\ worker'[u] = worker[u] /\ worker[u].c \in Commands
      BY <2>4, <2>6
    <3>2. worker[u].c # c
      BY <1>0, <2>1, <2>5, <2>6, <3>1 DEF LeasesAreDistinct, HoldsClaim
    <3>3. HoldsClaim(u) /\ External(worker[u].c)
      BY <2>2, <2>5, <3>1, <3>2 DEF HoldsClaim, External
    <3> QED BY <1>0, <2>2, <3>1, <3>3 DEF BeginIsFirst
  <2>10. OneSender'
    <3>1. \A d \in Commands : External(d)' <=> External(d)
      BY <2>2 DEF External
    <3> QED BY <1>0, <2>2, <2>4, <2>6, <3>1 DEF OneSender
  <2> QED BY <2>7, <2>8, <2>9, <2>10 DEF SendInv
<1> QED BY <1>1, <1>2 DEF Claim

\* execute() goes on to the begin only past an attempt row that is absent, failed
\* or a mere permit.
LEMMA ReadAttemptKeepsSendInv ==
  ASSUME SendInv, TypeOK', NEW w \in Workers, ReadAttempt(w)
  PROVE  SendInv'
<1> DEFINE c == worker[w].c
<1>0. /\ TypeOK /\ LeasesAreDistinct /\ BegunIsRemembered /\ BeginIsFirst /\ OneSender
  BY DEF SendInv
<1>1. CASE ~Goto(w, "begin")
  BY <1>0, <1>1, QuietWorkerSteps, QuietKeepsSendInv
<1>2. CASE Goto(w, "begin")
  <2>1. worker[w].pc = "execute" /\ c \in Commands
    BY <1>0, WorkerFields DEF ReadAttempt
  <2>2. UNCHANGED <<mode, intent, outbox, attempt, begun, sends>>
    BY DEF ReadAttempt, effectVars, requestVars
  <2>3. /\ worker'[w].pc = "begin" /\ worker'[w].c = c /\ worker'[w].claim = worker[w].claim
        /\ \A u \in Workers : u # w => worker'[u] = worker[u]
    BY <1>0, <1>2, WorkerFields DEF Goto, TypeOK, WorkerType
  <2>4. External(c) => attempt[c].state # "succeeded" /\ ~MustReconcile(c)
    <3>1. \/ MustReconcile(c) /\ mode = "internal"
          \/ attempt[c].state # "succeeded" /\ ~MustReconcile(c)
      <4>1. worker'[w].pc = "begin"
        BY <2>3
      <4>2. \A p \in PCs : Goto(w, p) => worker'[w].pc = p
        BY <1>0, WorkerFields DEF Goto, TypeOK, WorkerType
      <4> QED BY <4>1, <4>2 DEF ReadAttempt, PCs
    <3> QED BY <3>1 DEF External
  <2>5. External(c) /\ attempt[c].state \in {"running", "retrying", "unknown"} => begun[c] = 0
    <3>1. begun[c] \in Nat
      BY <1>0, <2>1 DEF TypeOK
    <3>2. External(c) /\ attempt[c].state \in {"running", "retrying", "unknown"}
          => ~attempt[c].started
      BY <2>4 DEF MustReconcile, PermitOnly
    <3> QED BY <1>0, <2>1, <3>1, <3>2 DEF BegunIsRemembered
  <2>6. \A d \in Commands : External(d)' <=> External(d)
    BY <2>2 DEF External
  <2>7. \A u \in Workers : worker[u].pc # "idle" => worker[u].c \in Commands
    BY <1>0, WorkerFields
  <2> HIDE DEF c
  <2>8. LeasesAreDistinct'
    BY <1>0, <2>1, <2>2, <2>3 DEF LeasesAreDistinct, c
  <2>9. BegunIsRemembered'
    BY <1>0, <2>2 DEF BegunIsRemembered
  <2>10. BeginIsFirst'
    <3> SUFFICES ASSUME NEW u \in Workers, worker'[u].pc = "begin",
                        External(worker[u].c)', HoldsClaim(u)',
                        attempt'[worker'[u].c].state \in {"running", "retrying", "unknown"}
                 PROVE  begun'[worker'[u].c] = 0
      BY DEF BeginIsFirst
    <3>1. CASE u = w
      BY <2>1, <2>2, <2>3, <2>5, <2>6, <3>1
    <3>2. CASE u # w
      BY <1>0, <2>2, <2>3, <2>6, <2>7, <3>2 DEF BeginIsFirst, HoldsClaim
    <3> QED BY <3>1, <3>2
  <2>11. OneSender'
    BY <1>0, <2>1, <2>2, <2>3, <2>6, <2>7 DEF OneSender
  <2> QED BY <2>8, <2>9, <2>10, <2>11 DEF SendInv
<1> QED BY <1>1, <1>2

\* The begin: the lease and the attempt row admit one worker.
LEMMA BeginKeepsSendInv ==
  ASSUME SendInv, TypeOK', NEW w \in Workers, Begin(w)
  PROVE  SendInv'
<1> DEFINE c == worker[w].c
<1>0. /\ TypeOK /\ LeasesAreDistinct /\ BegunIsRemembered /\ BeginIsFirst /\ OneSender
  BY DEF SendInv
<1>1. CASE ~BeginWins(w)
  BY <1>0, <1>1, QuietWorkerSteps, QuietKeepsSendInv
<1>2. CASE BeginWins(w)
  <2>1. /\ worker[w].pc = "begin" /\ c \in Commands
        /\ begun[c] \in Nat /\ sends[c] \in Nat
    BY <1>0, WorkerFields DEF Begin, TypeOK
  <2>2. /\ SetAttempt(c, "running", TRUE) /\ Goto(w, "effect")
        /\ begun' = [begun EXCEPT ![c] = begun[c] + 1]
        /\ UNCHANGED <<mode, intent, outbox, sends>>
    BY <1>2 DEF Begin, requestVars
  <2>3. /\ worker'[w].pc = "effect" /\ worker'[w].c = c /\ worker'[w].claim = worker[w].claim
        /\ \A u \in Workers : u # w => worker'[u] = worker[u]
    BY <1>0, <2>2, WorkerFields DEF Goto, TypeOK, WorkerType
  <2>4. /\ attempt'[c].state = "running" /\ attempt'[c].started
        /\ begun'[c] = begun[c] + 1
        /\ \A d \in Commands : d # c => attempt'[d] = attempt[d] /\ begun'[d] = begun[d]
    BY <1>0, <2>1, <2>2 DEF SetAttempt, TypeOK
  <2>5. HoldsClaim(w) /\ attempt[c].state \in {"running", "retrying", "unknown"}
    BY <1>2 DEF BeginWins, ActiveClaim
  <2>6. External(c) => begun[c] = 0 /\ sends[c] = 0
    BY <1>0, <2>1, <2>5 DEF BeginIsFirst, OneSender
  <2>7. \A d \in Commands : External(d)' <=> External(d)
    BY <2>2 DEF External
  <2>8. \A u \in Workers : worker[u].pc # "idle" => worker[u].c \in Commands
    BY <1>0, WorkerFields
  <2> HIDE DEF c
  <2>9. LeasesAreDistinct'
    BY <1>0, <2>1, <2>2, <2>3 DEF LeasesAreDistinct, c
  <2>10. BegunIsRemembered'
    BY <1>0, <2>4 DEF BegunIsRemembered
  <2>11. BeginIsFirst'
    <3> SUFFICES ASSUME NEW u \in Workers, worker'[u].pc = "begin",
                        External(worker[u].c)', HoldsClaim(u)',
                        attempt'[worker'[u].c].state \in {"running", "retrying", "unknown"}
                 PROVE  begun'[worker'[u].c] = 0
      BY DEF BeginIsFirst
    <3>1. u # w /\ worker'[u] = worker[u] /\ worker[u].c \in Commands
      BY <2>3, <2>8
    <3>2. HoldsClaim(u) /\ External(worker[u].c)
      BY <2>2, <2>7, <3>1 DEF HoldsClaim
    <3>3. worker[u].c # c
      BY <1>0, <2>1, <2>5, <3>1, <3>2 DEF LeasesAreDistinct, HoldsClaim, c
    <3> QED BY <1>0, <2>4, <3>1, <3>2, <3>3 DEF BeginIsFirst
  <2>12. OneSender'
    <3>1. \A d \in Commands :
            /\ sends'[d] <= begun'[d]
            /\ IF External(d)' THEN begun'[d] <= 1 ELSE sends'[d] = 0
      <4> SUFFICES ASSUME NEW d \in Commands
                   PROVE  /\ sends'[d] <= begun'[d]
                          /\ IF External(d)' THEN begun'[d] <= 1 ELSE sends'[d] = 0
        OBVIOUS
      <4>1. CASE d = c
        BY <1>0, <2>1, <2>2, <2>4, <2>6, <2>7, <4>1 DEF OneSender, c
      <4>2. CASE d # c
        BY <1>0, <2>2, <2>4, <2>7, <4>2 DEF OneSender
      <4> QED BY <4>1, <4>2
    <3>2. \A u \in Workers :
            worker'[u].pc = "effect" /\ External(worker[u].c)' =>
              /\ begun'[worker'[u].c] = 1 /\ sends'[worker'[u].c] = 0
              /\ \A v \in Workers :
                   worker'[v].pc = "effect" /\ worker'[v].c = worker'[u].c => v = u
      <4> SUFFICES ASSUME NEW u \in Workers, worker'[u].pc = "effect", External(worker[u].c)'
                   PROVE  /\ begun'[worker'[u].c] = 1 /\ sends'[worker'[u].c] = 0
                          /\ \A v \in Workers :
                               worker'[v].pc = "effect" /\ worker'[v].c = worker'[u].c => v = u
        OBVIOUS
      <4>1. CASE u = w
        <5>1. External(c) /\ c \in Commands
          BY <2>1, <2>3, <2>7, <4>1 DEF c
        <5>2. \A v \in Workers : v # w /\ worker[v].pc = "effect" => worker[v].c # c
          BY <1>0, <2>6, <5>1 DEF OneSender
        <5> QED BY <2>2, <2>3, <2>4, <2>6, <4>1, <5>1, <5>2
      <4>2. CASE u # w
        <5>1. worker'[u] = worker[u] /\ worker[u].c \in Commands /\ External(worker[u].c)
          BY <2>3, <2>7, <2>8, <4>2
        <5>2. worker[u].c # c
          BY <1>0, <2>6, <5>1 DEF OneSender
        <5> QED BY <1>0, <2>2, <2>3, <2>4, <4>2, <5>1, <5>2 DEF OneSender
      <4> QED BY <4>1, <4>2
    <3> QED BY <3>1, <3>2 DEF OneSender
  <2> QED BY <2>9, <2>10, <2>11, <2>12 DEF SendInv
<1> QED BY <1>1, <1>2

\* The request is made by the worker that has begun the effect.
LEMMA SendKeepsSendInv ==
  ASSUME SendInv, TypeOK', NEW w \in Workers, Send(w)
  PROVE  SendInv'
<1> DEFINE c == worker[w].c
<1>0. /\ TypeOK /\ LeasesAreDistinct /\ BegunIsRemembered /\ BeginIsFirst /\ OneSender
  BY DEF SendInv
<1>1. /\ worker[w].pc = "effect" /\ c \in Commands /\ External(c)
      /\ begun[c] = 1 /\ sends[c] = 0
  BY <1>0, WorkerFields DEF Send, OneSender
<1>2. /\ Goto(w, "sending") /\ sends' = [sends EXCEPT ![c] = sends[c] + 1]
      /\ UNCHANGED <<mode, intent, outbox, attempt, begun>>
  BY DEF Send, requestVars
<1>3. /\ worker'[w].pc = "sending" /\ worker'[w].c = c /\ worker'[w].claim = worker[w].claim
      /\ \A u \in Workers : u # w => worker'[u] = worker[u]
  BY <1>0, <1>2, WorkerFields DEF Goto, TypeOK, WorkerType
<1>4. sends'[c] = 1 /\ \A d \in Commands : d # c => sends'[d] = sends[d]
  BY <1>0, <1>1, <1>2 DEF TypeOK
<1>5. \A d \in Commands : External(d)' <=> External(d)
  BY <1>2 DEF External
<1>6. \A u \in Workers : worker[u].pc # "idle" => worker[u].c \in Commands
  BY <1>0, WorkerFields
<1>7. LeasesAreDistinct'
  BY <1>0, <1>1, <1>2, <1>3 DEF LeasesAreDistinct
<1>8. BegunIsRemembered'
  BY <1>0, <1>2 DEF BegunIsRemembered
<1>9. BeginIsFirst'
  BY <1>0, <1>2, <1>3, <1>5, <1>6 DEF BeginIsFirst, HoldsClaim
<1>10. OneSender'
  <2>1. \A d \in Commands :
          /\ sends'[d] <= begun'[d]
          /\ IF External(d)' THEN begun'[d] <= 1 ELSE sends'[d] = 0
    BY <1>0, <1>1, <1>2, <1>4, <1>5 DEF OneSender
  <2>2. ASSUME NEW u \in Workers, worker'[u].pc = "effect", External(worker[u].c)'
        PROVE  /\ begun'[worker'[u].c] = 1 /\ sends'[worker'[u].c] = 0
               /\ \A v \in Workers :
                    worker'[v].pc = "effect" /\ worker'[v].c = worker'[u].c => v = u
    <3>1. u # w /\ worker'[u] = worker[u] /\ worker[u].c \in Commands
      BY <1>3, <1>6, <2>2
    <3>2. External(worker[u].c) /\ worker[u].c # c
      BY <1>0, <1>1, <1>5, <2>2, <3>1 DEF OneSender
    <3> QED BY <1>0, <1>2, <1>3, <1>4, <2>2, <3>1, <3>2 DEF OneSender
  <2> QED BY <2>1, <2>2 DEF OneSender
<1> QED BY <1>7, <1>8, <1>9, <1>10 DEF SendInv

LEMMA SendInvInit == Init => SendInv
<1> SUFFICES ASSUME Init PROVE SendInv
  OBVIOUS
<1>1. TypeOK
  BY TypeInit
<1>2. /\ \A w \in Workers : worker[w].pc = "idle"
      /\ \A c \in Commands : /\ begun[c] = 0 /\ sends[c] = 0
                             /\ ~attempt[c].started
  BY DEF Init, Idle
<1>3. LeasesAreDistinct /\ BegunIsRemembered /\ BeginIsFirst /\ OneSender
  BY <1>2 DEF LeasesAreDistinct, BegunIsRemembered, BeginIsFirst, OneSender
<1> QED BY <1>1, <1>3 DEF SendInv

LEMMA SendInvStep == SendInv /\ [Next]_vars => SendInv'
<1> SUFFICES ASSUME SendInv, [Next]_vars PROVE SendInv'
  OBVIOUS
<1>1. TypeOK /\ BegunIsRemembered /\ TypeOK'
  BY TypeStep DEF SendInv
<1>2. ASSUME NEW w \in Workers, WorkerStep(w) PROVE SendInv'
  BY <1>1, <1>2, QuietWorkerSteps, QuietAttemptSteps, QuietKeepsSendInv,
     ClaimKeepsSendInv, ReadAttemptKeepsSendInv, BeginKeepsSendInv, SendKeepsSendInv
     DEF WorkerStep
<1>3. ASSUME NEW w \in Workers, WorkerFault(w) PROVE SendInv'
  BY <1>1, <1>3, QuietWorkerSteps, QuietAttemptSteps, QuietKeepsSendInv DEF WorkerFault
<1>4. ASSUME NEW c \in Commands, Environment(c) \/ Interference(c) PROVE SendInv'
  BY <1>1, <1>4, QuietEnvironment, QuietKeepsSendInv
<1>5. CASE UNCHANGED vars
  <2>1. Quiet
    BY <1>5 DEF vars, Quiet, QuietWorker, QuietRow, QuietAttempt
  <2> QED BY <1>1, <2>1, QuietKeepsSendInv
<1> QED BY <1>2, <1>3, <1>4, <1>5 DEF Next

\* The inductive invariant behind AtMostOneSend holds for every number of
\* commands and drains, every retry limit and every provider mode.
THEOREM SendInvCorrect == Spec => []SendInv
  BY SendInvInit, SendInvStep, PTL DEF Spec

LEMMA SendInvImplies == SendInv => AtMostOneSend
<1> SUFFICES ASSUME SendInv, NEW c \in Commands PROVE sends[c] <= 1
  BY DEF AtMostOneSend
<1>1. sends[c] \in Nat /\ begun[c] \in Nat
  BY DEF SendInv, TypeOK
<1> QED BY <1>1 DEF SendInv, OneSender

\* No command is ever delivered to the provider twice: not by concurrent drains,
\* not after a crash, a stall past the lease, a lost answer or a retry.
THEOREM AtMostOneSendCorrect == Spec => []AtMostOneSend
  BY SendInvCorrect, SendInvImplies, PTL

-----------------------------------------------------------------------------
(* The state of a command tells what became of its effect. *)

\* The worker is on the generation of the command it started, under its claim.
Current(w) == cmd[worker[w].c].state = "running" /\ AtVersion(w) /\ HoldsClaim(w)

\* The provider has refused, or was not asked and nobody is about to.
NeverDelivered(c) ==
  \/ prov[c] = "rejected"
  \/ prov[c] = "none" /\ \A u \in Workers : worker[u].c = c => worker[u].pc # "effect"

\* What a failure of an external command stands on: the provider's word, or the refusal
\* of its status endpoint to give it.
MayFail(c) == NeverDelivered(c) \/ c \in denied

\* Nobody has read a version that is still to come.
VersionsKnown == \A w \in Workers :
  worker[w].pc \notin {"idle", "page", "claimed"} => worker[w].ver <= cmd[worker[w].c].version

\* What the tables say of a command.
RowTrue(c) ==
  /\ effect[c] # "none" \/ prov[c] # "none" => begun[c] > 0
  /\ prov[c] # "none" => External(c) /\ sends[c] > 0
  /\ External(c) /\ intent[c] = "create_reminder" /\ effect[c] # "none" => prov[c] = "delivered"
  /\ mode = "disabled" => effect[c] \in {"none", "draft"}
  /\ attempt[c].state = "succeeded" => effect[c] # "none" /\ (External(c) => prov[c] = "delivered")
  /\ attempt[c].state = "failed" => cmd[c].state = "failed"
  /\ cmd[c].state \in {"cancelled", "expired"} => begun[c] = 0
  /\ cmd[c].state = "succeeded" /\ intent[c] \in EffectIntents => attempt[c].state = "succeeded"
  /\ cmd[c].state = "failed" /\ External(c) /\ ~PolicyMayChange => MayFail(c)

\* What a worker relies on at its stage: what it has seen does not change any more ...
StageTrue(w) ==
  LET c == worker[w].c
      pc == worker[w].pc IN
  /\ pc = "search" => intent[c] \notin EffectIntents
  /\ pc \in {"execute", "status", "begin", "effect", "sending", "materialise", "record"} =>
       intent[c] \in EffectIntents
  /\ pc \in {"effect", "sending", "materialise", "record"} => begun[c] > 0
  /\ pc \in {"sending", "materialise"} => External(c)
  /\ pc = "materialise" =>
        /\ worker[w].resp # "none"
        /\ worker[w].resp = "succeeded" => prov[c] = "delivered"
        /\ worker[w].resp = "failed" => prov[c] = "rejected"
        /\ intent[c] = "create_reminder" => worker[w].resp = "succeeded"
  /\ pc = "record" => effect[c] # "none" /\ (External(c) => prov[c] = "delivered")

\* ... or does not as long as its compare-and-set can still win.
CurrentTrue(w) ==
  LET c == worker[w].c
      pc == worker[w].pc IN
  Current(w) =>
    /\ pc = "begin" /\ External(c) => begun[c] = 0
    /\ pc = "fail" /\ External(c) => MayFail(c)
    /\ pc = "succeed" /\ intent[c] \in EffectIntents => attempt[c].state = "succeeded"

\* The inductive invariant.
VerdictInv ==
  /\ SendInv /\ VersionsKnown
  /\ \A c \in Commands : RowTrue(c)
  /\ \A w \in Workers : StageTrue(w) /\ CurrentTrue(w)

-----------------------------------------------------------------------------
(* What any step may do to the tables of a command and to a worker. *)

At(w, c, pc) == worker[w].c = c /\ worker[w].pc = pc

CmdMove(c) ==
  \/ cmd'[c] = cmd[c]
  \/ /\ cmd'[c].version = cmd[c].version + 1 /\ cmd[c].state \notin Terminal
     /\ UNCHANGED <<begun, prov>>
     /\ \/ cmd'[c].state \in {"running", "retryable", "unknown"}
        \/ /\ cmd'[c].state \in {"cancelled", "expired"}
           /\ attempt[c].state \in {"none", "failed"} \/ ~attempt[c].started
        \/ /\ cmd'[c].state = "succeeded"
           /\ \E w \in Workers : At(w, c, "succeed") /\ Current(w)
        \/ /\ cmd'[c].state = "failed"
           /\ PolicyMayChange \/ \E w \in Workers : At(w, c, "fail") /\ Current(w)

RowMove(c) == QuietRow(c) \/ outbox'[c].claims = outbox[c].claims + 1

AttemptMove(c) ==
  \/ attempt'[c] = attempt[c]
  \/ attempt'[c].state = "running" /\ attempt[c].state # "succeeded"
  \/ attempt'[c].state = "succeeded" /\ \E w \in Workers : At(w, c, "record")
  \/ /\ attempt'[c].state \in {"retrying", "unknown", "failed"} /\ cmd'[c] # cmd[c]
     /\ cmd'[c].state \in {"retryable", "unknown", "failed"}
     /\ attempt'[c].state = "failed" => cmd'[c].state = "failed"

EffectMove(c) ==
  \/ effect'[c] = effect[c]
  \/ effect[c] = "scheduled" /\ effect'[c] = "cancelled"
  \/ External(c) /\ effect[c] # "none" /\ effect'[c] = "failed"
  \/ \E w \in Workers :
       /\ effect'[c] = EffectAfter(c, worker[w].resp)
       /\ At(w, c, "materialise") \/ (At(w, c, "effect") /\ ~External(c) /\ ~Refused(c))

ProviderMove(c) ==
  \/ prov'[c] = prov[c]
  \/ /\ prov[c] = "none" /\ External(c) /\ sends'[c] = sends[c] + 1
     /\ \E w \in Workers : At(w, c, "effect") /\ worker'[w].pc = "sending"
  \/ prov[c] = "inflight" /\ prov'[c] \in {"accepted", "none"}
  \/ prov[c] = "accepted" /\ prov'[c] \in {"delivered", "rejected"}

BegunMove(c) ==
  \/ begun'[c] = begun[c]
  \/ /\ begun'[c] = begun[c] + 1
     /\ \E w \in Workers : At(w, c, "begin") /\ Current(w) /\ worker'[w].pc = "effect"

SendsMove(c) == sends'[c] \in {sends[c], sends[c] + 1}

DeniedMove(c) == c \in denied => c \in denied'

TableMove(c) ==
  /\ CmdMove(c) /\ RowMove(c) /\ AttemptMove(c) /\ EffectMove(c)
  /\ ProviderMove(c) /\ BegunMove(c) /\ SendsMove(c) /\ DeniedMove(c)

\* A step of a worker that keeps its command, claim and version.
Hop(w) ==
  LET c == worker[w].c
      pc == worker[w].pc
      next == worker'[w].pc IN
  \/ next \in {"start", "expire", "retry", "status"} /\ pc # "claimed"
     /\ (next = "status" => intent[c] \in EffectIntents)
  \/ pc = "permit" /\ next = "search" /\ intent[c] \notin EffectIntents
  \/ pc = "permit" /\ next = "execute" /\ intent[c] \in EffectIntents
  \/ pc = "search" /\ next = "succeed"
  \/ pc \in {"execute", "begin"} /\ next = "succeed" /\ attempt[c].state = "succeeded"
  \/ pc = "execute" /\ next = "record" /\ intent[c] = "create_reminder" /\ effect[c] # "none"
  \/ pc = "execute" /\ next = "begin"
     /\ (External(c) => attempt[c].state # "succeeded" /\ ~MustReconcile(c))
  \/ pc = "status" /\ next = "materialise" /\ worker'[w].resp = "succeeded"
     /\ External(c) /\ prov[c] = "delivered"
  \/ pc \in {"status", "sending"} /\ next = "fail" /\ prov[c] = "rejected"
  \/ pc = "status" /\ next = "fail" /\ c \in denied'
  \/ pc = "begin" /\ next = "effect" /\ Current(w) /\ begun'[c] > 0
  \/ pc \in {"begin", "effect"} /\ next = "fail"
  \/ pc = "effect" /\ next = "sending" /\ External(c)
  \/ pc = "effect" /\ next = "record" /\ ~External(c) /\ effect'[c] # "none"
  \/ pc = "sending" /\ next = "materialise" /\ worker'[w].resp = ResponseOf(c)
     /\ (ResponseOf(c) = "succeeded" \/ intent[c] = "send_message")
  \/ pc = "materialise" /\ next = "fail" /\ worker[w].resp = "failed"
  \/ pc = "materialise" /\ next = "record" /\ worker[w].resp \notin {"pending", "failed"}
     /\ effect'[c] # "none"
  \/ pc = "record" /\ next = "succeed" /\ attempt'[c].state = "succeeded"

WorkerMove(w) ==
  \/ worker'[w] = worker[w]
  \/ worker'[w].pc \in {"idle", "page", "claimed"}
  \/ /\ worker'[w].c = worker[w].c /\ worker[w].pc \notin {"idle", "page"}
     /\ \/ /\ worker[w].pc = "claimed" /\ worker'[w].pc \in {"deleted", "start"}
           /\ worker'[w].ver = cmd[worker[w].c].version
        \/ /\ worker[w].pc = "start" /\ worker'[w].pc = "permit"
           /\ worker'[w].ver = cmd'[worker[w].c].version
        \/ /\ worker[w].pc # "claimed" /\ worker'[w].ver = worker[w].ver
           /\ worker'[w].claim = worker[w].claim /\ Hop(w)

Moves ==
  /\ UNCHANGED <<mode, intent>>
  /\ \A c \in Commands : TableMove(c)
  /\ \A w \in Workers : WorkerMove(w)

-----------------------------------------------------------------------------
(* From the moves to the invariant. *)

\* One worker at most is on a command with a claim that counts.
LEMMA OneCurrent ==
  ASSUME VerdictInv, NEW u \in Workers, NEW w \in Workers, worker[u].c = worker[w].c,
         worker[u].pc \notin {"idle", "page"}, worker[w].pc \notin {"idle", "page"},
         Current(u), Current(w)
  PROVE  u = w
BY DEF VerdictInv, SendInv, LeasesAreDistinct, Current, HoldsClaim

\* A worker that is on its generation after a step was so before, and its command has not
\* moved: versions and claims only grow.
LEMMA CurrentStays ==
  ASSUME VerdictInv, TypeOK', Moves, NEW w \in Workers,
         worker[w].pc \notin {"idle", "page", "claimed"}, worker'[w].c = worker[w].c,
         worker'[w].ver = worker[w].ver, worker'[w].claim = worker[w].claim, Current(w)'
  PROVE  Current(w) /\ cmd'[worker[w].c] = cmd[worker[w].c]
<1> DEFINE c == worker[w].c
<1>1. TypeOK /\ LeasesAreDistinct /\ VersionsKnown
  BY DEF VerdictInv, SendInv
<1>2. c \in Commands /\ worker[w].ver \in Nat /\ worker[w].claim \in Nat
  BY <1>1, WorkerFields
<1>3. cmd[c].version \in Nat /\ outbox[c].claims \in Nat
  BY <1>1, <1>2, CommandFields
<1>4. worker[w].ver <= cmd[c].version /\ worker[w].claim <= outbox[c].claims
  BY <1>1 DEF VersionsKnown, LeasesAreDistinct
<1>5. /\ cmd'[c].version = worker[w].ver /\ outbox'[c].state = "running"
      /\ outbox'[c].claims = worker[w].claim /\ cmd'[c].state = "running"
  BY DEF Current, AtVersion, HoldsClaim
<1>6. CmdMove(c) /\ RowMove(c)
  BY <1>2 DEF Moves, TableMove
<1>7. cmd'[c] = cmd[c]
  BY <1>3, <1>4, <1>5, <1>6 DEF CmdMove
<1>8. outbox[c].state = "running" /\ outbox[c].claims = worker[w].claim
  BY <1>2, <1>3, <1>4, <1>5, <1>6 DEF RowMove, QuietRow
<1> QED BY <1>5, <1>7, <1>8 DEF Current, AtVersion, HoldsClaim

\* Facts about the effect and the provider that last.
LEMMA FactsStay ==
  ASSUME VerdictInv, TypeOK', Moves, NEW c \in Commands
  PROVE  /\ External(c)' <=> External(c)
         /\ begun[c] \in Nat /\ begun'[c] \in Nat /\ begun'[c] >= begun[c]
         /\ prov[c] = "delivered" => prov'[c] = "delivered"
         /\ prov[c] = "rejected" => prov'[c] = "rejected"
         /\ effect[c] # "none" => effect'[c] # "none"
<1>1. TypeOK /\ TableMove(c) /\ UNCHANGED <<mode, intent>>
  BY DEF VerdictInv, SendInv, Moves
<1>2. External(c)' <=> External(c)
  BY <1>1 DEF External
<1>3. begun[c] \in Nat /\ begun'[c] \in Nat /\ begun'[c] >= begun[c]
  BY <1>1 DEF TypeOK, TableMove, BegunMove
<1>4. /\ prov[c] = "delivered" => prov'[c] = "delivered"
      /\ prov[c] = "rejected" => prov'[c] = "rejected"
  BY <1>1 DEF TableMove, ProviderMove
<1>5. effect[c] # "none" => effect'[c] # "none"
  BY <1>1 DEF TableMove, EffectMove, EffectAfter
<1> QED BY <1>2, <1>3, <1>4, <1>5

\* Once a command has ended, or while nobody else's begin can win, nobody begins.
LEMMA NoNewBegin ==
  ASSUME VerdictInv, TypeOK', Moves, NEW c \in Commands,
         \A u \in Workers : ~(At(u, c, "begin") /\ Current(u) /\ worker'[u].pc = "effect")
  PROVE  /\ begun'[c] = begun[c]
         /\ NeverDelivered(c) => NeverDelivered(c)'
         /\ MayFail(c) => MayFail(c)'
         /\ \A u \in Workers : At(u, c, "effect")' => At(u, c, "effect") /\ worker'[u] = worker[u]
<1>1. TypeOK /\ TableMove(c)
  BY DEF VerdictInv, SendInv, Moves
<1>2. begun'[c] = begun[c]
  BY <1>1 DEF TableMove, BegunMove
<1>3. ASSUME NEW u \in Workers, At(u, c, "effect")'
      PROVE  At(u, c, "effect") /\ worker'[u] = worker[u]
  <2>1. WorkerMove(u)
    BY DEF Moves
  <2> QED BY <1>3, <2>1 DEF WorkerMove, Hop, At
<1>4. ASSUME NeverDelivered(c) PROVE NeverDelivered(c)'
  <2>1. CASE prov[c] = "rejected"
    BY <2>1, FactsStay DEF NeverDelivered
  <2>2. CASE prov[c] = "none" /\ \A u \in Workers : worker[u].c = c => worker[u].pc # "effect"
    <3>1. prov'[c] = "none"
      BY <1>1, <2>2 DEF TableMove, ProviderMove, At
    <3>2. \A u \in Workers : worker'[u].c = c => worker'[u].pc # "effect"
      BY <1>3, <2>2 DEF At
    <3> QED BY <3>1, <3>2 DEF NeverDelivered
  <2> QED BY <1>4, <2>1, <2>2 DEF NeverDelivered
<1>5. MayFail(c) => MayFail(c)'
  BY <1>1, <1>4 DEF MayFail, TableMove, DeniedMove
<1> QED BY <1>2, <1>3, <1>4, <1>5

LEMMA RowTrueStays ==
  ASSUME VerdictInv, TypeOK', Moves, NEW c \in Commands
  PROVE  RowTrue(c)'
<1>1. /\ TypeOK /\ RowTrue(c) /\ UNCHANGED <<mode, intent>> /\ BegunIsRemembered
      /\ \A w \in Workers : StageTrue(w) /\ CurrentTrue(w)
  BY DEF VerdictInv, SendInv, Moves
<1>2. /\ CmdMove(c) /\ AttemptMove(c) /\ EffectMove(c) /\ ProviderMove(c)
      /\ BegunMove(c) /\ SendsMove(c)
  BY DEF Moves, TableMove
<1>3. /\ External(c)' <=> External(c)
      /\ begun[c] \in Nat /\ begun'[c] \in Nat /\ begun'[c] >= begun[c]
      /\ prov[c] = "delivered" => prov'[c] = "delivered"
      /\ effect[c] # "none" => effect'[c] # "none"
  BY FactsStay
<1>4. effect'[c] # "none" \/ prov'[c] # "none" => begun'[c] > 0
  <2>1. effect'[c] # "none" => begun'[c] > 0
    <3>1. effect'[c] # "none" =>
            \/ effect[c] # "none"
            \/ \E w \in Workers : At(w, c, "materialise") \/ At(w, c, "effect")
      BY <1>2 DEF EffectMove
    <3> QED BY <1>1, <1>3, <3>1 DEF RowTrue, StageTrue, At
  <2>2. prov'[c] # "none" => begun'[c] > 0
    <3>1. prov'[c] # "none" => prov[c] # "none" \/ \E w \in Workers : At(w, c, "effect")
      BY <1>2 DEF ProviderMove
    <3> QED BY <1>1, <1>3, <3>1 DEF RowTrue, StageTrue, At
  <2> QED BY <2>1, <2>2
<1>5. prov'[c] # "none" => External(c)' /\ sends'[c] > 0
  <2>1. sends[c] \in Nat
    BY <1>1 DEF TypeOK
  <2> QED BY <1>1, <1>2, <1>3, <2>1 DEF RowTrue, ProviderMove, SendsMove
<1>6. External(c)' /\ intent'[c] = "create_reminder" /\ effect'[c] # "none"
      => prov'[c] = "delivered"
  <2>1. External(c) /\ effect'[c] # "none" =>
          effect[c] # "none" \/ \E w \in Workers : At(w, c, "materialise")
    BY <1>2 DEF EffectMove
  <2> QED BY <1>1, <1>3, <2>1 DEF RowTrue, StageTrue, At
<1>7. mode' = "disabled" => effect'[c] \in {"none", "draft"}
  <2> SUFFICES ASSUME mode = "disabled" PROVE effect'[c] \in {"none", "draft"}
    BY <1>1
  <2>1. effect[c] \in {"none", "draft"} /\ ~External(c)
    BY <1>1 DEF RowTrue, External
  <2>2. CASE effect'[c] = effect[c]
    BY <2>1, <2>2
  <2>3. ASSUME NEW w \in Workers, effect'[c] = EffectAfter(c, worker[w].resp),
               At(w, c, "effect") /\ ~Refused(c)
        PROVE  effect'[c] \in {"none", "draft"}
    <3>1. intent[c] = "create_draft"
      BY <1>1, <2>3 DEF StageTrue, At, Refused, EffectIntents
    <3> QED BY <2>1, <2>3, <3>1 DEF EffectAfter
  <2> QED BY <1>1, <1>2, <2>1, <2>2, <2>3 DEF EffectMove, StageTrue, At
<1>8. attempt'[c].state = "succeeded" =>
        effect'[c] # "none" /\ (External(c)' => prov'[c] = "delivered")
  <2>1. attempt'[c].state = "succeeded" =>
          attempt[c].state = "succeeded" \/ \E w \in Workers : At(w, c, "record")
    BY <1>2 DEF AttemptMove
  <2> QED BY <1>1, <1>3, <2>1 DEF RowTrue, StageTrue, At
<1>9. attempt'[c].state = "failed" => cmd'[c].state = "failed"
  BY <1>1, <1>2 DEF AttemptMove, CmdMove, RowTrue, Terminal
<1>10. cmd'[c].state \in {"cancelled", "expired"} => begun'[c] = 0
  <2>1. CASE cmd'[c] = cmd[c]
    BY <1>1, <1>2, <2>1 DEF RowTrue, BegunMove, Current, At
  <2>2. CASE cmd'[c] # cmd[c] /\ cmd'[c].state \in {"cancelled", "expired"}
    <3>1. /\ cmd[c].state \notin Terminal /\ begun' = begun
          /\ attempt[c].state \in {"none", "failed"} \/ ~attempt[c].started
      BY <1>2, <2>2 DEF CmdMove
    <3>2. attempt[c].state # "failed"
      BY <1>1, <3>1 DEF RowTrue, Terminal
    <3> QED BY <1>1, <1>3, <3>1, <3>2 DEF BegunIsRemembered
  <2> QED BY <2>1, <2>2
<1>11. cmd'[c].state = "succeeded" /\ intent'[c] \in EffectIntents => attempt'[c].state = "succeeded"
  <2> SUFFICES ASSUME cmd'[c].state = "succeeded", intent[c] \in EffectIntents
               PROVE  attempt'[c].state = "succeeded"
    BY <1>1
  <2>1. attempt[c].state = "succeeded"
    BY <1>1, <1>2 DEF CmdMove, RowTrue, CurrentTrue, At
  <2> QED BY <1>2, <2>1 DEF AttemptMove
<1>12. cmd'[c].state = "failed" /\ External(c)' /\ ~PolicyMayChange => MayFail(c)'
  <2> SUFFICES ASSUME cmd'[c].state = "failed", External(c), ~PolicyMayChange
               PROVE  MayFail(c)'
    BY <1>3
  <2>1. MayFail(c)
    BY <1>1, <1>2 DEF CmdMove, RowTrue, CurrentTrue, At
  <2>2. \A u \in Workers : ~(At(u, c, "begin") /\ Current(u) /\ worker'[u].pc = "effect")
    BY <1>1, <1>2, OneCurrent DEF CmdMove, At, Current
  <2> QED BY <2>1, <2>2, NoNewBegin
<1> QED BY <1>4, <1>5, <1>6, <1>7, <1>8, <1>9, <1>10, <1>11, <1>12 DEF RowTrue

LEMMA VersionsStay ==
  ASSUME VerdictInv, TypeOK', Moves
  PROVE  VersionsKnown'
<1> SUFFICES ASSUME NEW w \in Workers, worker'[w].pc \notin {"idle", "page", "claimed"}
             PROVE  worker'[w].ver <= cmd'[worker'[w].c].version
  BY DEF VersionsKnown
<1> DEFINE c == worker[w].c
<1>1. TypeOK /\ VersionsKnown
  BY DEF VerdictInv, SendInv
<1>2. WorkerMove(w) /\ worker'[w].c = c /\ worker[w].pc # "idle"
  BY DEF Moves, WorkerMove
<1>3. c \in Commands /\ worker[w].ver \in Nat
  BY <1>1, <1>2, WorkerFields
<1>4. cmd[c].version \in Nat /\ cmd'[c].version \in Nat /\ CmdMove(c)
  BY <1>1, <1>3, CommandFields DEF TypeOK, Moves, TableMove
<1>5. cmd'[c].version >= cmd[c].version
  BY <1>4 DEF CmdMove
<1>6. worker[w].pc # "claimed" /\ worker[w].pc # "page" => worker[w].ver <= cmd[c].version
  BY <1>1, <1>2 DEF VersionsKnown
<1> QED BY <1>2, <1>3, <1>4, <1>5, <1>6 DEF WorkerMove

\* The worker stays where it is.
LEMMA StageStays ==
  ASSUME VerdictInv, TypeOK', Moves, NEW w \in Workers, worker'[w] = worker[w],
         worker[w].pc # "idle"
  PROVE  StageTrue(w)' /\ CurrentTrue(w)'
<1> DEFINE c == worker[w].c
<1>1. /\ TypeOK /\ StageTrue(w) /\ CurrentTrue(w) /\ UNCHANGED <<mode, intent>>
  BY DEF VerdictInv, SendInv, Moves
<1>2. c \in Commands
  BY <1>1, WorkerFields
<1>3. /\ External(c)' <=> External(c)
      /\ begun[c] \in Nat /\ begun'[c] \in Nat /\ begun'[c] >= begun[c]
      /\ prov[c] = "delivered" => prov'[c] = "delivered"
      /\ prov[c] = "rejected" => prov'[c] = "rejected"
      /\ effect[c] # "none" => effect'[c] # "none"
  BY <1>2, FactsStay
<1>4. StageTrue(w)'
  BY <1>1, <1>3 DEF StageTrue, External
<1>5. ASSUME Current(w)', worker[w].pc \in {"begin", "fail", "succeed"}
      PROVE  /\ Current(w) /\ cmd'[c] = cmd[c] /\ begun'[c] = begun[c]
             /\ MayFail(c) => MayFail(c)'
  <2>1. Current(w) /\ cmd'[c] = cmd[c]
    BY <1>5, CurrentStays
  <2>2. \A u \in Workers : ~(At(u, c, "begin") /\ Current(u) /\ worker'[u].pc = "effect")
    BY <1>5, <2>1, OneCurrent DEF At
  <2> QED BY <1>2, <2>1, <2>2, NoNewBegin
<1>6. attempt[c].state = "succeeded" /\ cmd'[c] = cmd[c] => attempt'[c].state = "succeeded"
  BY <1>2 DEF Moves, TableMove, AttemptMove
<1>7. CurrentTrue(w)'
  BY <1>1, <1>3, <1>5, <1>6 DEF CurrentTrue
<1> QED BY <1>4, <1>7

LEMMA StageHops ==
  ASSUME VerdictInv, TypeOK', Moves, NEW w \in Workers, Hop(w),
         worker[w].pc \notin {"idle", "page", "claimed"},
         worker'[w].c = worker[w].c, worker'[w].ver = worker[w].ver,
         worker'[w].claim = worker[w].claim
  PROVE  StageTrue(w)' /\ CurrentTrue(w)'
<1> DEFINE c == worker[w].c
<1>1. /\ TypeOK /\ StageTrue(w) /\ CurrentTrue(w) /\ UNCHANGED <<mode, intent>>
      /\ BegunIsRemembered /\ OneSender /\ (\A u \in Workers : StageTrue(u))
  BY DEF VerdictInv, SendInv, Moves
<1>2. c \in Commands
  BY <1>1, WorkerFields
<1>r. RowTrue(c) /\ worker[w].resp \in Responses /\ prov[c] \in ProviderStates /\ sends[c] \in Nat
  BY <1>1, <1>2, WorkerFields DEF VerdictInv, TypeOK
<1>3. /\ External(c)' <=> External(c)
      /\ begun[c] \in Nat /\ begun'[c] \in Nat /\ begun'[c] >= begun[c]
      /\ prov[c] = "delivered" => prov'[c] = "delivered"
      /\ prov[c] = "rejected" => prov'[c] = "rejected"
      /\ effect[c] # "none" => effect'[c] # "none"
  BY <1>2, FactsStay
<1>4. StageTrue(w)'
  <2>1. \/ worker'[w].pc \in {"start", "expire", "retry"}
        \/ worker'[w].pc \in {"succeed", "fail"}
        \/ worker'[w].pc \in {"search", "execute", "status", "begin"}
        \/ worker'[w].pc \in {"effect", "sending", "materialise", "record"}
    BY DEF Hop
  <2>2. CASE worker'[w].pc \in {"start", "expire", "retry", "succeed", "fail"}
    BY <2>2 DEF StageTrue
  <2>3. CASE worker'[w].pc \in {"search", "execute", "status", "begin"}
    BY <1>1, <2>3 DEF StageTrue, Hop
  <2>4. CASE worker'[w].pc = "effect"
    BY <1>1, <2>4 DEF StageTrue, Hop
  <2>5. CASE worker'[w].pc = "sending"
    BY <1>1, <1>3, <2>5 DEF StageTrue, Hop
  <2>6. CASE worker'[w].pc = "materialise"
    <3>1. worker[w].pc \in {"status", "sending"}
      BY <2>6 DEF Hop
    <3>2. intent[c] \in EffectIntents
      BY <1>1, <3>1 DEF StageTrue
    <3>3. begun[c] > 0 /\ External(c)
      BY <1>1, <1>r, <2>6, <3>1 DEF StageTrue, Hop, RowTrue
    <3>4. /\ worker'[w].resp # "none"
          /\ worker'[w].resp = "succeeded" => prov[c] = "delivered"
          /\ worker'[w].resp = "failed" => prov[c] = "rejected"
          /\ intent[c] = "create_reminder" => worker'[w].resp = "succeeded"
      BY <2>6, <3>1 DEF Hop, ResponseOf
    <3> QED BY <1>1, <1>3, <2>6, <3>2, <3>3, <3>4 DEF StageTrue
  <2>7. CASE worker'[w].pc = "record"
    <3>1. worker[w].pc \in {"execute", "effect", "materialise"}
      BY <2>7 DEF Hop
    <3>2. intent[c] \in EffectIntents
      BY <1>1, <3>1 DEF StageTrue
    <3>3. begun[c] > 0 /\ effect'[c] # "none"
      BY <1>1, <1>3, <1>r, <2>7, <3>1 DEF StageTrue, Hop, RowTrue
    <3>4. External(c) => prov[c] = "delivered"
      BY <1>1, <1>r, <2>7, <3>1 DEF StageTrue, Hop, RowTrue, Responses
    <3> QED BY <1>1, <1>3, <2>7, <3>2, <3>3, <3>4 DEF StageTrue
  <2> QED BY <2>1, <2>2, <2>3, <2>4, <2>5, <2>6, <2>7
<1>5. CurrentTrue(w)'
  <2> SUFFICES ASSUME Current(w)' PROVE CurrentTrue(w)'
    BY DEF CurrentTrue
  <2>1. Current(w) /\ cmd'[c] = cmd[c] /\ cmd[c].state = "running"
    BY CurrentStays DEF Current
  <2>a. attempt[c].state = "succeeded" => attempt'[c].state = "succeeded"
    BY <1>2, <2>1 DEF Moves, TableMove, AttemptMove
  <2>2. ASSUME worker'[w].pc # "effect"
        PROVE  begun'[c] = begun[c] /\ (NeverDelivered(c) => NeverDelivered(c)')
    <3>1. \A u \in Workers : ~(At(u, c, "begin") /\ Current(u) /\ worker'[u].pc = "effect")
      BY <2>1, <2>2, OneCurrent DEF At
    <3> QED BY <1>2, <3>1, NoNewBegin
  <2>3. CASE worker'[w].pc = "begin"
    <3>1. External(c) => attempt[c].state # "succeeded" /\ ~MustReconcile(c)
      BY <2>3 DEF Hop
    <3>2. attempt[c].state # "failed" /\ attempt[c].state \in AttemptStates
      BY <1>1, <1>2, <1>r, <2>1, CommandFields DEF RowTrue
    <3>3. External(c) => ~attempt[c].started
      BY <1>1, <1>2, <3>1, <3>2 DEF MustReconcile, PermitOnly, AttemptStates, BegunIsRemembered
    <3> QED BY <1>1, <1>2, <1>3, <2>2, <2>3, <3>3 DEF CurrentTrue, BegunIsRemembered
  <2>4. CASE worker'[w].pc = "succeed"
    BY <1>1, <2>a, <2>4 DEF CurrentTrue, Hop, StageTrue
  <2>5. CASE worker'[w].pc = "fail"
    <3> SUFFICES ASSUME External(c), ~(c \in denied') PROVE NeverDelivered(c)'
      BY <1>3, <2>5 DEF CurrentTrue, MayFail
    <3>1. worker[w].pc \in {"status", "sending", "begin", "effect", "materialise"}
      BY <2>5 DEF Hop
    <3>2. CASE worker[w].pc \in {"status", "sending", "materialise"}
      <4>1. prov[c] = "rejected"
        BY <1>1, <2>5, <3>2 DEF Hop, StageTrue
      <4> QED BY <2>2, <2>5, <4>1 DEF NeverDelivered
    <3>3. CASE worker[w].pc = "begin"
      <4>1. begun[c] = 0
        BY <1>1, <2>1, <3>3 DEF CurrentTrue
      <4>2. prov[c] = "none" /\ \A u \in Workers : worker[u].c = c => worker[u].pc # "effect"
        BY <1>1, <1>r, <4>1 DEF RowTrue, StageTrue
      <4> QED BY <2>2, <2>5, <4>2 DEF NeverDelivered
    <3>4. CASE worker[w].pc = "effect"
      <4>1. /\ sends[c] = 0
            /\ \A u \in Workers : worker[u].pc = "effect" /\ worker[u].c = c => u = w
        BY <1>1, <3>4 DEF OneSender
      <4>2. prov[c] = "none"
        BY <1>r, <4>1 DEF RowTrue
      <4>3. prov'[c] = "none"
        BY <1>2, <2>5, <4>1, <4>2 DEF Moves, TableMove, ProviderMove, At
      <4>4. \A u \in Workers : ~(At(u, c, "begin") /\ Current(u) /\ worker'[u].pc = "effect")
        BY <2>1, <3>4, OneCurrent DEF At
      <4>5. \A u \in Workers : At(u, c, "effect")' => At(u, c, "effect") /\ worker'[u] = worker[u]
        BY <1>2, <4>4, NoNewBegin
      <4>6. \A u \in Workers : worker'[u].c = c => worker'[u].pc # "effect"
        BY <2>5, <4>1, <4>5 DEF At
      <4> QED BY <4>3, <4>6 DEF NeverDelivered
    <3> QED BY <3>1, <3>2, <3>3, <3>4
  <2> QED BY <2>3, <2>4, <2>5 DEF CurrentTrue
<1> QED BY <1>4, <1>5

LEMMA VerdictInvMoves ==
  ASSUME VerdictInv, SendInv', Moves
  PROVE  VerdictInv'
<1>1. TypeOK /\ TypeOK'
  BY DEF VerdictInv, SendInv
<1>2. ASSUME NEW w \in Workers PROVE StageTrue(w)' /\ CurrentTrue(w)'
  <2>1. WorkerMove(w)
    BY DEF Moves
  <2>2. CASE worker'[w].pc \in {"idle", "page", "claimed", "deleted", "start", "permit"}
    BY <2>2 DEF StageTrue, CurrentTrue
  <2>3. CASE worker'[w] = worker[w] /\ worker[w].pc # "idle"
    BY <1>1, <2>3, StageStays
  <2>4. CASE /\ worker'[w].c = worker[w].c /\ worker[w].pc \notin {"idle", "page", "claimed"}
             /\ worker'[w].ver = worker[w].ver /\ worker'[w].claim = worker[w].claim /\ Hop(w)
    BY <1>1, <2>4, StageHops
  <2> QED BY <2>1, <2>2, <2>3, <2>4 DEF WorkerMove
<1> QED BY <1>1, <1>2, VersionsStay, RowTrueStays DEF VerdictInv

-----------------------------------------------------------------------------
(* Every step makes such moves. *)

Others(w) == \A u \in Workers \ {w} : worker'[u] = worker[u]

\* What is left alone moves in every way it may.
LEMMA Stays ==
  /\ UNCHANGED cmd => \A c \in Commands : CmdMove(c)
  /\ UNCHANGED outbox => \A c \in Commands : RowMove(c)
  /\ UNCHANGED attempt => \A c \in Commands : AttemptMove(c)
  /\ UNCHANGED effect => \A c \in Commands : EffectMove(c)
  /\ UNCHANGED prov => \A c \in Commands : ProviderMove(c)
  /\ UNCHANGED begun => \A c \in Commands : BegunMove(c)
  /\ UNCHANGED sends => \A c \in Commands : SendsMove(c)
  /\ UNCHANGED denied => \A c \in Commands : DeniedMove(c)
  /\ UNCHANGED worker => \A w \in Workers : WorkerMove(w)
BY DEF CmdMove, RowMove, QuietRow, AttemptMove, EffectMove, ProviderMove, BegunMove, SendsMove,
       DeniedMove, WorkerMove

LEMMA OneMoves ==
  ASSUME NEW w \in Workers, Others(w), WorkerMove(w)
  PROVE  \A u \in Workers : WorkerMove(u)
BY DEF Others, WorkerMove

LEMMA Updates ==
  ASSUME TypeOK, NEW w \in Workers, NEW r, worker' = [worker EXCEPT ![w] = r]
  PROVE  Others(w) /\ worker'[w] = r
BY DEF TypeOK, Others

LEMMA Goes ==
  ASSUME TypeOK, NEW w \in Workers, NEW p \in PCs, Goto(w, p)
  PROVE  /\ Others(w) /\ worker'[w].pc = p /\ worker'[w].c = worker[w].c
         /\ worker'[w].ver = worker[w].ver /\ worker'[w].claim = worker[w].claim
         /\ worker'[w].resp = worker[w].resp
BY DEF TypeOK, Goto, Others

LEMMA Leaves ==
  ASSUME TypeOK, NEW w \in Workers, Leave(w)
  PROVE  \A u \in Workers : WorkerMove(u)
<1>1. Others(w) /\ worker'[w].pc = "idle"
  BY DEF TypeOK, Leave, Others, Idle
<1> QED BY <1>1, OneMoves DEF WorkerMove

\* The updates, command by command.
LEMMA CommandSet ==
  ASSUME TypeOK, NEW c \in Commands, NEW s, SetCommand(c, s)
  PROVE  /\ cmd'[c].state = s /\ cmd'[c].version = cmd[c].version + 1
         /\ \A d \in Commands \ {c} : cmd'[d] = cmd[d]
BY DEF TypeOK, SetCommand

LEMMA RowReleased ==
  ASSUME TypeOK, NEW c \in Commands, NEW s, NEW due, s # "running", ReleaseRow(c, s, due)
  PROVE  \A d \in Commands : RowMove(d)
BY DEF TypeOK, ReleaseRow, RowMove, QuietRow

LEMMA AttemptSet ==
  ASSUME TypeOK, NEW c \in Commands, NEW s, NEW b, SetAttempt(c, s, b)
  PROVE  /\ attempt'[c].state = s
         /\ \A d \in Commands \ {c} : attempt'[d] = attempt[d]
BY DEF TypeOK, SetAttempt

\* A failure, retried or not, moves the command, its row and its attempt together.
LEMMA CommandFailed ==
  ASSUME TypeOK, NEW c \in Commands, NEW n \in Nat, NEW retryable \in BOOLEAN,
         FailCommand(c, n, retryable), cmd[c].state \notin Terminal,
         UNCHANGED <<begun, prov>>,
         ~retryable =>
           PolicyMayChange \/ \E w \in Workers : At(w, c, "fail") /\ Current(w)
  PROVE  \A d \in Commands : CmdMove(d) /\ RowMove(d) /\ AttemptMove(d)
<1> DEFINE s == CommandFailureState(n, retryable)
           t == RowFailureState(n, retryable)
<1>1. /\ s \in {"retryable", "unknown", "failed"} /\ t \in {"retrying", "unknown", "failed"}
      /\ t = "failed" <=> s = "failed"
      /\ s = "failed" => ~retryable
  BY DEF CommandFailureState, RowFailureState
<1>2. /\ SetCommand(c, s) /\ ReleaseRow(c, t, FALSE)
      /\ SetAttempt(c, t, TRUE) \/ UNCHANGED attempt
  BY DEF FailCommand
<1> HIDE DEF s, t
<1>3. /\ cmd'[c].state = s /\ cmd'[c].version = cmd[c].version + 1
      /\ \A d \in Commands \ {c} : cmd'[d] = cmd[d]
  BY <1>2, CommandSet
<1>4. cmd'[c] # cmd[c]
  BY <1>3, CommandFields
<1>5. \A d \in Commands : RowMove(d)
  BY <1>1, <1>2, RowReleased
<1>6. \/ /\ attempt'[c].state = t
         /\ \A d \in Commands \ {c} : attempt'[d] = attempt[d]
      \/ \A d \in Commands : attempt'[d] = attempt[d]
  BY <1>2, AttemptSet
<1>7. \A d \in Commands : CmdMove(d)
  BY <1>1, <1>3 DEF CmdMove
<1>8. \A d \in Commands : AttemptMove(d)
  BY <1>1, <1>3, <1>4, <1>6 DEF AttemptMove
<1> QED BY <1>5, <1>7, <1>8

\* The steps around the executor.
LEMMA ClaimingMoves ==
  ASSUME VerdictInv, NEW w \in Workers,
         \/ \E c \in Commands : Select(w, c)
         \/ Claim(w) \/ Load(w) \/ SettleDeleted(w) \/ Start(w) \/ ExpireClaimed(w) \/ Permit(w)
  PROVE  Moves
<1> DEFINE c == worker[w].c
<1>0. TypeOK /\ "idle" \in PCs /\ "start" \in PCs /\ "expire" \in PCs /\ "search" \in PCs /\ "execute" \in PCs
  BY DEF VerdictInv, SendInv, PCs
<1>c. worker[w].pc # "idle" => c \in Commands
  BY <1>0, WorkerFields
<1>1. ASSUME NEW d \in Commands, Select(w, d) PROVE Moves
  <2>1. Others(w) /\ worker'[w].pc = "page"
    BY <1>0, <1>1 DEF TypeOK, Select, Others
  <2>2. \A u \in Workers : WorkerMove(u)
    <3>1. WorkerMove(w)
      BY <2>1 DEF WorkerMove
    <3> QED BY <2>1, <3>1, OneMoves
  <2> QED BY <1>1, <2>2, Stays DEF Select, Moves, TableMove, effectVars, requestVars
<1>2. CASE Claim(w)
  <2>1. \A d \in Commands : RowMove(d)
    <3>1. CASE UNCHANGED outbox
      BY <3>1, Stays
    <3>2. CASE outbox' = [outbox EXCEPT ![c] = [state |-> "running", claims |-> @.claims + 1,
                                                live |-> TRUE, due |-> FALSE]]
      <4>1. \A d \in Commands \ {c} : outbox'[d] = outbox[d]
        BY <1>0, <3>2 DEF TypeOK
      <4>2. c \in Commands => outbox'[c].claims = outbox[c].claims + 1
        BY <1>0, <3>2 DEF TypeOK
      <4> QED BY <4>1, <4>2 DEF RowMove, QuietRow
    <3> QED BY <1>2, <3>1, <3>2 DEF Claim
  <2>2. \A u \in Workers : WorkerMove(u)
    <3>1. CASE Leave(w)
      BY <1>0, <3>1, Leaves
    <3>2. CASE ~Leave(w)
      <4> DEFINE r == [worker[w] EXCEPT !.pc = "claimed", !.row = worker[w].row + 1,
                                        !.claim = outbox[c].claims + 1]
      <4>0. worker' = [worker EXCEPT ![w] = r] /\ r.pc = "claimed"
        BY <1>0, <1>2, <3>2, WorkerFields DEF Claim, WorkerType
      <4>1. Others(w) /\ worker'[w].pc = "claimed"
        BY <1>0, <4>0, Updates
      <4> QED BY <4>1, OneMoves DEF WorkerMove
    <3> QED BY <3>1, <3>2
  <2> QED BY <1>2, <2>1, <2>2, Stays DEF Claim, Moves, TableMove, effectVars, requestVars
<1>3. CASE Load(w)
  <2>1. \A d \in Commands : RowMove(d)
    BY <1>0, <1>c, <1>3, RowReleased, Stays DEF Load
  <2>2. \A u \in Workers : WorkerMove(u)
    <3>1. CASE Leave(w)
      BY <1>0, <3>1, Leaves
    <3>2. CASE ~Leave(w)
      <4>1. /\ Others(w) /\ worker'[w].pc \in {"deleted", "start"} /\ worker[w].pc = "claimed"
            /\ worker'[w].c = c /\ worker'[w].ver = cmd[c].version
        <5> DEFINE p == IF c \in deleted THEN "deleted" ELSE "start"
                   r == [worker[w] EXCEPT !.ver = cmd[c].version, !.pc = p]
        <5>1. worker' = [worker EXCEPT ![w] = r] /\ worker[w].pc = "claimed"
          BY <1>3, <3>2 DEF Load
        <5>2. r.pc \in {"deleted", "start"} /\ r.c = c /\ r.ver = cmd[c].version
          BY <1>0, WorkerFields DEF WorkerType
        <5> QED BY <1>0, <5>1, <5>2, Updates
      <4>2. WorkerMove(w)
        BY <4>1 DEF WorkerMove
      <4> QED BY <4>1, <4>2, OneMoves
    <3> QED BY <3>1, <3>2
  <2> QED BY <1>3, <2>1, <2>2, Stays DEF Load, Moves, TableMove, effectVars, requestVars
<1>4. CASE SettleDeleted(w) \/ ExpireClaimed(w)
  <2>1. \/ /\ cmd[c].state \in Claimable /\ ~MayHaveStarted(c) /\ Leave(w)
           /\ SetCommand(c, "cancelled") \/ SetCommand(c, "expired")
           /\ ReleaseRow(c, "failed", FALSE)
        \/ UNCHANGED <<cmd, outbox>> /\ (Leave(w) \/ (worker[w].pc = "deleted" /\ Goto(w, "start")))
    BY <1>4 DEF SettleDeleted, ExpireClaimed
  <2>2. \A d \in Commands : RowMove(d)
    BY <1>0, <1>c, <1>4, <2>1, RowReleased, Stays DEF SettleDeleted, ExpireClaimed
  <2>3. \A u \in Workers : WorkerMove(u)
    <3>1. CASE Leave(w)
      BY <1>0, <3>1, Leaves
    <3>2. CASE worker[w].pc = "deleted" /\ Goto(w, "start")
      <4>1. WorkerMove(w) /\ Others(w)
        BY <1>0, <3>2, Goes DEF WorkerMove, Hop
      <4> QED BY <4>1, OneMoves
    <3> QED BY <2>1, <3>1, <3>2
  <2>4. \A d \in Commands : CmdMove(d)
    <3>1. CASE UNCHANGED cmd
      BY <3>1, Stays
    <3>2. CASE /\ cmd[c].state \in Claimable /\ ~MayHaveStarted(c)
               /\ SetCommand(c, "cancelled") \/ SetCommand(c, "expired")
      <4>1. c \in Commands /\ UNCHANGED <<begun, prov>>
        BY <1>c, <1>4 DEF SettleDeleted, ExpireClaimed, effectVars
      <4>2. attempt[c].state \in {"none", "failed"} \/ ~attempt[c].started
        BY <1>0, <3>2, <4>1, CommandFields DEF MayHaveStarted, AttemptStates
      <4>3. /\ cmd'[c].state \in {"cancelled", "expired"} /\ cmd'[c].version = cmd[c].version + 1
            /\ \A d \in Commands \ {c} : cmd'[d] = cmd[d]
        BY <1>0, <3>2, <4>1, CommandSet
      <4> QED BY <3>2, <4>1, <4>2, <4>3 DEF CmdMove, Claimable, Terminal
    <3> QED BY <2>1, <3>1, <3>2
  <2> QED BY <1>4, <2>2, <2>3, <2>4, Stays
          DEF SettleDeleted, ExpireClaimed, Moves, TableMove, effectVars, requestVars
<1>5. CASE Start(w)
  <2>1. CASE StartWins(w) /\ SetCommand(c, "running")
    <3>1. c \in Commands /\ UNCHANGED <<begun, prov>> /\ worker[w].pc = "start"
      BY <1>c, <1>5 DEF Start, effectVars
    <3>2. /\ cmd'[c].state = "running" /\ cmd'[c].version = cmd[c].version + 1
          /\ \A d \in Commands \ {c} : cmd'[d] = cmd[d]
      BY <1>0, <2>1, <3>1, CommandSet
    <3>3. \A d \in Commands : CmdMove(d)
      BY <2>1, <3>1, <3>2 DEF CmdMove, StartWins, Claimable, Terminal
    <3>4. /\ Others(w) /\ worker'[w].pc = "permit" /\ worker'[w].c = c
          /\ worker'[w].ver = cmd[c].version + 1
      <4> DEFINE r == [worker[w] EXCEPT !.pc = "permit", !.ver = cmd[c].version + 1]
      <4>1. worker' = [worker EXCEPT ![w] = r]
        BY <1>5, <2>1 DEF Start
      <4>2. r.pc = "permit" /\ r.c = c /\ r.ver = cmd[c].version + 1
        BY <1>0, WorkerFields DEF WorkerType
      <4> QED BY <1>0, <4>1, <4>2, Updates
    <3>5. \A u \in Workers : WorkerMove(u)
      BY <3>1, <3>2, <3>4, OneMoves DEF WorkerMove
    <3> QED BY <1>5, <3>3, <3>5, Stays DEF Start, Moves, TableMove, effectVars, requestVars
  <2>2. CASE ~StartWins(w)
    <3>1. Goto(w, "expire") /\ worker[w].pc = "start" /\ UNCHANGED cmd
      BY <1>5, <2>2 DEF Start
    <3>2. Others(w) /\ WorkerMove(w)
      BY <1>0, <3>1, Goes DEF WorkerMove, Hop
    <3>3. \A u \in Workers : WorkerMove(u)
      BY <3>2, OneMoves
    <3> QED BY <1>5, <3>1, <3>3, Stays DEF Start, Moves, TableMove, effectVars, requestVars
  <2> QED BY <1>5, <2>1, <2>2 DEF Start
<1>6. CASE Permit(w)
  <2>1. /\ worker[w].pc = "permit" /\ c \in Commands
        /\ \/ Leave(w) /\ UNCHANGED attempt
           \/ intent[c] \notin EffectIntents /\ Goto(w, "search") /\ UNCHANGED attempt
           \/ /\ intent[c] \in EffectIntents /\ Goto(w, "execute")
              /\ \/ UNCHANGED attempt
                 \/ attempt[c].state = "none" /\ SetAttempt(c, "running", FALSE)
    BY <1>c, <1>6 DEF Permit
  <2>2. \A d \in Commands : AttemptMove(d)
    BY <1>0, <2>1, AttemptSet, Stays DEF AttemptMove
  <2>3. \A u \in Workers : WorkerMove(u)
    <3>1. CASE Leave(w)
      BY <1>0, <3>1, Leaves
    <3>2. CASE ~Leave(w)
      <4>1. WorkerMove(w) /\ Others(w)
        BY <1>0, <2>1, <3>2, Goes DEF WorkerMove, Hop
      <4> QED BY <4>1, OneMoves
    <3> QED BY <3>1, <3>2
  <2> QED BY <1>6, <2>2, <2>3, Stays DEF Permit, Moves, TableMove, effectVars, requestVars
<1> QED BY <1>1, <1>2, <1>3, <1>4, <1>5, <1>6

\* A lease, a stall and a due time touch only the flags of a row.
LEMMA RowTimes ==
  ASSUME TypeOK, NEW c \in Commands,
         \/ outbox' = [outbox EXCEPT ![c].live = FALSE]
         \/ outbox' = [outbox EXCEPT ![c].due = TRUE]
  PROVE  \A d \in Commands : /\ outbox'[d].state = outbox[d].state
                             /\ outbox'[d].claims = outbox[d].claims
<1>0. /\ outbox \in [Commands -> [state : RowStates, claims : Nat,
                                  live : BOOLEAN, due : BOOLEAN]]
      /\ outbox[c] \in [state : RowStates, claims : Nat, live : BOOLEAN, due : BOOLEAN]
  BY DEF TypeOK
<1>1. CASE outbox' = [outbox EXCEPT ![c].live = FALSE]
  <2> DEFINE r == [outbox[c] EXCEPT !.live = FALSE]
  <2>1. outbox' = [outbox EXCEPT ![c] = r]
    BY <1>1
  <2>2. r.state = outbox[c].state /\ r.claims = outbox[c].claims
    BY <1>0
  <2> HIDE DEF r
  <2> QED BY <1>0, <2>1, <2>2
<1>2. CASE outbox' = [outbox EXCEPT ![c].due = TRUE]
  <2> DEFINE r == [outbox[c] EXCEPT !.due = TRUE]
  <2>1. outbox' = [outbox EXCEPT ![c] = r]
    BY <1>2
  <2>2. r.state = outbox[c].state /\ r.claims = outbox[c].claims
    BY <1>0
  <2> HIDE DEF r
  <2> QED BY <1>0, <2>1, <2>2
<1> QED BY <1>1, <1>2

\* The steps of the executor.
LEMMA ExecutingMoves ==
  ASSUME VerdictInv, NEW w \in Workers,
         \/ Search(w) \/ ReadAttempt(w) \/ Status(w) \/ Begin(w) \/ RefuseDisabled(w) \/ Send(w)
         \/ SendReturns(w) \/ Materialise(w) \/ Record(w)
         \/ StatusRefused(w) \/ RejectDueAt(w) \/ SendTimesOut(w) \/ ExecutorError(w)
  PROVE  Moves
<1> DEFINE c == worker[w].c
           Hops == \E p \in PCs : Goto(w, p) /\ worker[w].pc \notin {"idle", "page", "claimed"}
<1>0. TypeOK /\ StageTrue(w)
  BY DEF VerdictInv, SendInv
<1>c. worker[w].pc # "idle" => c \in Commands
  BY <1>0, WorkerFields
<1>p. /\ "start" \in PCs /\ "retry" \in PCs /\ "fail" \in PCs /\ "succeed" \in PCs /\ "record" \in PCs
      /\ "status" \in PCs /\ "begin" \in PCs /\ "effect" \in PCs /\ "sending" \in PCs
      /\ "materialise" \in PCs
  BY DEF PCs
<1>1. CASE Search(w)
  <2>1. \A u \in Workers : WorkerMove(u)
    <3>1. Others(w) /\ WorkerMove(w)
      BY <1>0, <1>1, <1>p, Goes DEF Search, WorkerMove, Hop
    <3> QED BY <3>1, OneMoves
  <2> QED BY <1>1, <2>1, Stays DEF Search, Moves, TableMove, effectVars, requestVars
<1>2. CASE ReadAttempt(w)
  <2>0. worker[w].pc = "execute" /\ intent[c] \in EffectIntents
    BY <1>0, <1>2 DEF ReadAttempt, StageTrue
  <2>1. \/ attempt[c].state = "succeeded" /\ Goto(w, "succeed")
        \/ intent[c] = "create_reminder" /\ effect[c] # "none" /\ Goto(w, "record")
        \/ Goto(w, "status")
        \/ Goto(w, "retry")
        \/ /\ Goto(w, "begin")
           /\ External(c) => attempt[c].state # "succeeded" /\ ~MustReconcile(c)
    BY <1>2 DEF ReadAttempt, External
  <2>2. WorkerMove(w) /\ Others(w)
    BY <1>0, <1>p, <2>0, <2>1, Goes DEF WorkerMove, Hop
  <2>3. \A u \in Workers : WorkerMove(u)
    BY <2>2, OneMoves
  <2> QED BY <1>2, <2>3, Stays DEF ReadAttempt, Moves, TableMove, effectVars, requestVars
<1>3. CASE Status(w)
  <2>0. worker[w].pc = "status" /\ c \in Commands
    BY <1>c, <1>3 DEF Status
  <2>1. \A u \in Workers : WorkerMove(u)
    <3>1. CASE \E p \in {"retry", "fail"} : Goto(w, p)
      <4>1. Goto(w, "retry") \/ (Goto(w, "fail") /\ prov[c] = "rejected")
        <5>1. ASSUME Goto(w, "fail") PROVE prov[c] = "rejected"
          <6>1. worker'[w].pc = "fail"
            BY <1>0, <1>p, <5>1, Goes
          <6>2. ~Goto(w, "retry")
            BY <1>0, <1>p, <6>1, Goes
          <6>3. worker' # [worker EXCEPT ![w] = [@ EXCEPT !.pc = "materialise", !.resp = "succeeded"]]
            <7> DEFINE r == [worker[w] EXCEPT !.pc = "materialise", !.resp = "succeeded"]
            <7>1. r.pc = "materialise"
              BY <1>0, WorkerFields DEF WorkerType
            <7> QED BY <1>0, <6>1, <7>1, Updates
          <6> QED BY <1>3, <6>2, <6>3 DEF Status
        <5> QED BY <3>1, <5>1
      <4>2. WorkerMove(w) /\ Others(w)
        BY <1>0, <1>p, <2>0, <4>1, Goes DEF WorkerMove, Hop
      <4> QED BY <4>2, OneMoves
    <3>2. CASE ~\E p \in {"retry", "fail"} : Goto(w, p)
      <4> DEFINE r == [worker[w] EXCEPT !.pc = "materialise", !.resp = "succeeded"]
      <4>1. worker' = [worker EXCEPT ![w] = r] /\ External(c) /\ prov[c] = "delivered"
        BY <1>3, <3>2 DEF Status
      <4>2. /\ r.pc = "materialise" /\ r.c = c /\ r.ver = worker[w].ver /\ r.claim = worker[w].claim
            /\ r.resp = "succeeded"
        BY <1>0, WorkerFields DEF WorkerType
      <4>3. WorkerMove(w) /\ Others(w)
        BY <1>0, <2>0, <4>1, <4>2, Updates DEF WorkerMove, Hop
      <4> QED BY <4>3, OneMoves
    <3> QED BY <3>1, <3>2
  <2>2. \A d \in Commands : EffectMove(d)
    <3>1. \/ UNCHANGED effect
          \/ /\ effect[c] # "none" /\ External(c) /\ effect' = [effect EXCEPT ![c] = "failed"]
      BY <1>3 DEF Status
    <3> QED BY <1>0, <2>0, <3>1, Stays DEF TypeOK, EffectMove
  <2> QED BY <1>3, <2>1, <2>2, Stays DEF Status, Moves, TableMove, requestVars
<1>4. CASE Begin(w)
  <2>0. worker[w].pc = "begin" /\ c \in Commands
    BY <1>c, <1>4 DEF Begin
  <2>1. CASE BeginWins(w)
    <3>1. /\ SetAttempt(c, "running", TRUE) /\ begun' = [begun EXCEPT ![c] = @ + 1]
          /\ Goto(w, "effect") /\ Current(w) /\ attempt[c].state # "succeeded"
      BY <1>4, <2>1 DEF Begin, BeginWins, Current, ActiveClaim
    <3>2. /\ Others(w) /\ worker'[w].pc = "effect" /\ worker'[w].c = c
          /\ worker'[w].ver = worker[w].ver /\ worker'[w].claim = worker[w].claim
      BY <1>0, <1>p, <3>1, Goes
    <3>3. /\ begun'[c] = begun[c] + 1 /\ begun[c] \in Nat
          /\ \A d \in Commands \ {c} : begun'[d] = begun[d]
      BY <1>0, <2>0, <3>1 DEF TypeOK
    <3>4. \A d \in Commands : BegunMove(d)
      BY <2>0, <3>1, <3>2, <3>3 DEF BegunMove, At
    <3>5. \A d \in Commands : AttemptMove(d)
      <4>1. /\ attempt'[c].state = "running"
            /\ \A d \in Commands \ {c} : attempt'[d] = attempt[d]
        BY <1>0, <2>0, <3>1, AttemptSet
      <4>2. AttemptMove(c)
        BY <3>1, <4>1 DEF AttemptMove
      <4>3. ASSUME NEW d \in Commands \ {c} PROVE AttemptMove(d)
        BY <4>1, <4>3 DEF AttemptMove
      <4> QED BY <4>2, <4>3
    <3>6. WorkerMove(w)
      BY <2>0, <3>1, <3>2, <3>3 DEF WorkerMove, Hop
    <3> QED BY <1>4, <3>2, <3>4, <3>5, <3>6, OneMoves, Stays DEF Begin, Moves, TableMove, requestVars
  <2>2. CASE ~BeginWins(w)
    <3>1. /\ UNCHANGED <<attempt, begun>>
          /\ (attempt[c].state = "succeeded" /\ Goto(w, "succeed")) \/ Goto(w, "fail")
      BY <1>4, <2>2 DEF Begin
    <3>2. WorkerMove(w) /\ Others(w)
      BY <1>0, <1>p, <2>0, <3>1, Goes DEF WorkerMove, Hop
    <3> QED BY <1>4, <3>1, <3>2, OneMoves, Stays DEF Begin, Moves, TableMove, requestVars
  <2> QED BY <2>1, <2>2
<1>5. CASE RefuseDisabled(w) \/ RejectDueAt(w)
  <2>1. Goto(w, "fail") /\ worker[w].pc \in {"begin", "effect"}
    BY <1>5 DEF RefuseDisabled, RejectDueAt
  <2>2. WorkerMove(w) /\ Others(w)
    BY <1>0, <1>p, <2>1, Goes DEF WorkerMove, Hop
  <2> QED BY <1>5, <2>2, OneMoves, Stays
          DEF RefuseDisabled, RejectDueAt, Moves, TableMove, effectVars, requestVars
<1>6. CASE Send(w)
  <2>0. worker[w].pc = "effect" /\ c \in Commands /\ External(c) /\ Goto(w, "sending")
    BY <1>c, <1>6 DEF Send
  <2>1. /\ Others(w) /\ worker'[w].pc = "sending" /\ worker'[w].c = c
        /\ worker'[w].ver = worker[w].ver /\ worker'[w].claim = worker[w].claim
    BY <1>0, <1>p, <2>0, Goes
  <2>2. WorkerMove(w)
    BY <2>0, <2>1 DEF WorkerMove, Hop
  <2>3. /\ sends'[c] = sends[c] + 1 /\ \A d \in Commands \ {c} : sends'[d] = sends[d]
        /\ \A d \in Commands \ {c} : prov'[d] = prov[d]
        /\ prov'[c] = IF prov[c] = "none" THEN "inflight" ELSE prov[c]
    BY <1>0, <1>6, <2>0 DEF Send, TypeOK
  <2>4. \A d \in Commands : ProviderMove(d) /\ SendsMove(d)
    BY <2>0, <2>1, <2>3 DEF ProviderMove, SendsMove, At
  <2> QED BY <1>6, <2>1, <2>2, <2>4, OneMoves, Stays DEF Send, Moves, TableMove, requestVars
<1>7. CASE SendReturns(w)
  <2>0. worker[w].pc = "sending"
    BY <1>7 DEF SendReturns
  <2>1. WorkerMove(w) /\ Others(w)
    <3>1. CASE \E p \in {"retry", "fail"} : Goto(w, p)
      <4>1. Goto(w, "retry") \/ (Goto(w, "fail") /\ prov[c] = "rejected")
        <5>1. Goto(w, "fail") \/ Goto(w, "retry")
          BY <3>1
        <5>2. ASSUME Goto(w, "fail") PROVE prov[c] = "rejected"
          <6>1. worker'[w].pc = "fail"
            BY <1>0, <1>p, <5>2, Goes
          <6>2. ~Goto(w, "retry")
            BY <1>0, <1>p, <6>1, Goes
          <6>3. worker' # [worker EXCEPT ![w] = [@ EXCEPT !.pc = "materialise", !.resp = ResponseOf(c)]]
            <7> DEFINE r == [worker[w] EXCEPT !.pc = "materialise", !.resp = ResponseOf(c)]
            <7>1. r.pc = "materialise"
              BY <1>0, WorkerFields DEF WorkerType
            <7> QED BY <1>0, <6>1, <7>1, Updates
          <6> QED BY <1>7, <6>2, <6>3 DEF SendReturns, ResponseOf
        <5> QED BY <5>1, <5>2
      <4> QED BY <1>0, <1>p, <2>0, <4>1, Goes DEF WorkerMove, Hop
    <3>2. CASE ~\E p \in {"retry", "fail"} : Goto(w, p)
      <4> DEFINE a == ResponseOf(c)
                 r == [worker[w] EXCEPT !.pc = "materialise", !.resp = a]
      <4>1. worker' = [worker EXCEPT ![w] = r] /\ (a = "succeeded" \/ intent[c] = "send_message")
        BY <1>7, <3>2 DEF SendReturns
      <4>2. /\ r.pc = "materialise" /\ r.c = c /\ r.ver = worker[w].ver /\ r.claim = worker[w].claim
            /\ r.resp = ResponseOf(c)
        BY <1>0, WorkerFields DEF WorkerType
      <4> QED BY <1>0, <2>0, <4>1, <4>2, Updates DEF WorkerMove, Hop
    <3> QED BY <3>1, <3>2
  <2> QED BY <1>7, <2>1, OneMoves, Stays DEF SendReturns, Moves, TableMove, effectVars, requestVars
<1>8. CASE Materialise(w)
  <2>0. /\ c \in Commands
        /\ \/ worker[w].pc = "materialise"
           \/ worker[w].pc = "effect" /\ ~External(c) /\ ~Refused(c)
    BY <1>c, <1>8 DEF Materialise
  <2>1. effect'[c] = EffectAfter(c, worker[w].resp) /\ \A d \in Commands \ {c} : effect'[d] = effect[d]
    BY <1>0, <1>8, <2>0 DEF Materialise, TypeOK
  <2>2. \A d \in Commands : EffectMove(d)
    BY <2>0, <2>1 DEF EffectMove, At
  <2>3. effect'[c] # "none"
    BY <2>1 DEF EffectAfter
  <2>4. \/ Goto(w, "retry")
        \/ worker[w].resp = "failed" /\ Goto(w, "fail")
        \/ worker[w].resp \notin {"pending", "failed"} /\ Goto(w, "record")
    BY <1>8 DEF Materialise
  <2>5. WorkerMove(w) /\ Others(w)
    BY <1>0, <1>p, <2>0, <2>3, <2>4, Goes DEF WorkerMove, Hop
  <2> QED BY <1>8, <2>2, <2>5, OneMoves, Stays DEF Materialise, Moves, TableMove, requestVars
<1>9. CASE Record(w)
  <2>0. /\ worker[w].pc = "record" /\ c \in Commands
        /\ SetAttempt(c, "succeeded", TRUE) /\ Goto(w, "succeed")
    BY <1>c, <1>9 DEF Record
  <2>1. \A d \in Commands : AttemptMove(d)
    BY <1>0, <2>0, AttemptSet DEF AttemptMove, At
  <2>2. WorkerMove(w) /\ Others(w)
    BY <1>0, <1>p, <2>0, Goes, AttemptSet DEF WorkerMove, Hop
  <2> QED BY <1>9, <2>1, <2>2, OneMoves, Stays DEF Record, Moves, TableMove, effectVars, requestVars
<1>10. CASE SendTimesOut(w) \/ ExecutorError(w)
  <2>1. Goto(w, "retry") /\ worker[w].pc \notin {"idle", "page", "claimed"}
    BY <1>10 DEF SendTimesOut, ExecutorError
  <2>2. WorkerMove(w) /\ Others(w)
    BY <1>0, <1>p, <2>1, Goes DEF WorkerMove, Hop
  <2> QED BY <1>10, <2>2, OneMoves, Stays
          DEF SendTimesOut, ExecutorError, Moves, TableMove, effectVars, requestVars
<1>11. CASE StatusRefused(w)
  <2>1. worker[w].pc = "status" /\ Goto(w, "fail") /\ denied' = denied \cup {c}
    BY <1>11 DEF StatusRefused
  <2>2. WorkerMove(w) /\ Others(w)
    BY <1>0, <1>p, <2>1, Goes DEF WorkerMove, Hop
  <2>3. \A d \in Commands : DeniedMove(d)
    BY <2>1 DEF DeniedMove
  <2> QED BY <1>11, <2>2, <2>3, OneMoves, Stays
          DEF StatusRefused, Moves, TableMove, requestVars
<1> QED BY <1>1, <1>2, <1>3, <1>4, <1>5, <1>6, <1>7, <1>8, <1>9, <1>10, <1>11

\* The ends of a claim.
LEMMA SettlingMoves ==
  ASSUME VerdictInv, NEW w \in Workers,
         FinishSuccess(w) \/ FinishFailure(w) \/ Crash(w) \/ RejectPersisted(w) \/ ProcessingError(w)
  PROVE  Moves
<1> DEFINE c == worker[w].c
<1>0. TypeOK /\ Leave(w) /\ worker[w].pc # "idle"
  BY DEF VerdictInv, SendInv, FinishSuccess, FinishFailure, Crash, RejectPersisted, ProcessingError,
         SettleProcessingError
<1>1. c \in Commands /\ worker[w].row \in Nat /\ \A u \in Workers : WorkerMove(u)
  BY <1>0, WorkerFields, Leaves
<1>2. CASE Crash(w)
  BY <1>1, <1>2, Stays DEF Crash, Moves, TableMove, effectVars, requestVars
<1>3. CASE FinishSuccess(w)
  <2>1. CASE UNCHANGED <<cmd, outbox>>
    BY <1>1, <1>3, <2>1, Stays DEF FinishSuccess, Moves, TableMove, effectVars, requestVars
  <2>2. CASE FinishWins(w) /\ SetCommand(c, "succeeded") /\ ReleaseRow(c, "succeeded", FALSE)
    <3>1. At(w, c, "succeed") /\ Current(w) /\ cmd[c].state = "running" /\ UNCHANGED <<begun, prov>>
      BY <1>3, <2>2 DEF FinishSuccess, FinishWins, Current, ActiveClaim, At, effectVars
    <3>2. \A d \in Commands : CmdMove(d)
      BY <1>0, <1>1, <2>2, <3>1, CommandSet DEF CmdMove, Terminal
    <3>3. \A d \in Commands : RowMove(d)
      BY <1>0, <1>1, <2>2, RowReleased
    <3> QED BY <1>1, <1>3, <3>2, <3>3, Stays DEF FinishSuccess, Moves, TableMove, effectVars, requestVars
  <2> QED BY <1>3, <2>1, <2>2 DEF FinishSuccess
<1>4. CASE FinishFailure(w)
  <2>1. CASE UNCHANGED <<cmd, outbox, attempt>>
    BY <1>1, <1>4, <2>1, Stays DEF FinishFailure, Moves, TableMove, effectVars, requestVars
  <2>2. CASE FinishWins(w) /\ FailCommand(c, worker[w].row, worker[w].pc = "retry")
    <3>1. Current(w) /\ cmd[c].state \notin Terminal /\ UNCHANGED <<begun, prov>>
      BY <1>4, <2>2 DEF FinishFailure, FinishWins, Current, ActiveClaim, effectVars, Terminal
    <3>2. worker[w].pc # "retry" => At(w, c, "fail")
      BY <1>4 DEF FinishFailure, At
    <3> DEFINE b == worker[w].pc = "retry"
    <3>3. b \in BOOLEAN /\ FailCommand(c, worker[w].row, b) /\ (~b => At(w, c, "fail"))
      BY <2>2, <3>2
    <3> HIDE DEF b
    <3>4. \A d \in Commands : CmdMove(d) /\ RowMove(d) /\ AttemptMove(d)
      BY <1>0, <1>1, <3>1, <3>3, CommandFailed
    <3> QED BY <1>1, <1>4, <3>4, Stays DEF FinishFailure, Moves, TableMove, effectVars, requestVars
  <2> QED BY <1>4, <2>1, <2>2 DEF FinishFailure
<1>5. CASE RejectPersisted(w) \/ ProcessingError(w)
  <2>1. PICK b \in BOOLEAN : SettleProcessingError(w, b) /\ (~b => PolicyMayChange)
    BY <1>5 DEF RejectPersisted, ProcessingError
  <2>u. UNCHANGED <<effectVars, requestVars>>
    BY <2>1 DEF SettleProcessingError
  <2>2. CASE UNCHANGED <<cmd, outbox, attempt>>
    BY <1>1, <2>u, <2>2, Stays DEF Moves, TableMove, effectVars, requestVars
  <2>3. CASE SettlesAs(c) = "finish" /\ FailCommand(c, worker[w].row, b)
    <3>1. cmd[c].state \notin Terminal /\ UNCHANGED <<begun, prov>>
      BY <2>u, <2>3 DEF SettlesAs, effectVars
    <3>2. \A d \in Commands : CmdMove(d) /\ RowMove(d) /\ AttemptMove(d)
      BY <1>0, <1>1, <2>1, <2>3, <3>1, CommandFailed
    <3> QED BY <1>1, <2>u, <3>2, Stays DEF Moves, TableMove, effectVars, requestVars
  <2>4. CASE /\ ReleaseRow(c, RowFailureState(worker[w].row, b), FALSE)
             /\ UNCHANGED <<cmd, attempt>>
    <3> DEFINE s == RowFailureState(worker[w].row, b)
    <3>1. s # "running" /\ ReleaseRow(c, s, FALSE)
      BY <2>4 DEF RowFailureState
    <3> HIDE DEF s
    <3>2. \A d \in Commands : RowMove(d)
      BY <1>0, <1>1, <3>1, RowReleased
    <3> QED BY <1>1, <2>u, <2>4, <3>2, Stays DEF Moves, TableMove, effectVars, requestVars
  <2> QED BY <2>1, <2>2, <2>3, <2>4 DEF SettleProcessingError
<1> QED BY <1>2, <1>3, <1>4, <1>5

\* What happens to a command without its worker.
LEMMA EnvironmentMoves ==
  ASSUME VerdictInv, NEW c \in Commands, Environment(c) \/ Interference(c)
  PROVE  Moves
<1>0. TypeOK /\ RowTrue(c)
  BY DEF VerdictInv, SendInv
<1>1. cmd[c].state \in CommandStates /\ outbox[c].claims \in Nat /\ attempt[c].state \in AttemptStates
  BY <1>0, CommandFields
<1>w. UNCHANGED <<worker, mode, intent, begun, sends>>
  BY DEF Environment, Interference, Recover, LeaseExpires, BecomesDue, ProviderSettles, MarkExpired,
         CancelRead, CancelApply, DeleteSession, TtlPasses, Stall, RequestLost, effectVars, requestVars
<1>2. CASE Recover(c)
  <2>0. UNCHANGED effectVars
    BY <1>2 DEF Recover
  <2>1. CASE FailCommand(c, outbox[c].claims, TRUE) /\ RecoveryOf(c) = "exhausted"
    <3>1. cmd[c].state \notin Terminal
      BY <2>1 DEF RecoveryOf
    <3>2. \A d \in Commands : CmdMove(d) /\ RowMove(d) /\ AttemptMove(d)
      BY <1>0, <1>1, <2>0, <2>1, <3>1, CommandFailed DEF effectVars
    <3> QED BY <1>w, <2>0, <3>2, Stays DEF Moves, TableMove, effectVars
  <2>2. CASE RecoveryOf(c) \in {"orphan", "resume"}
    <3> DEFINE s == IF RecoveryOf(c) = "orphan" THEN "failed" ELSE ResumedRow[cmd[c].state]
    <3>1. /\ UNCHANGED <<cmd, attempt>> /\ \E due \in BOOLEAN : ReleaseRow(c, s, due)
      BY <1>2, <2>2 DEF Recover
    <3>2. s # "running"
      BY <2>2 DEF RecoveryOf, ResumedRow, Claimable
    <3> HIDE DEF s
    <3>3. \A d \in Commands : RowMove(d)
      BY <1>0, <3>1, <3>2, RowReleased
    <3> QED BY <1>w, <2>0, <3>1, <3>3, Stays DEF Moves, TableMove, effectVars
  <2>3. CASE /\ RecoveryOf(c) = "retry" /\ SetCommand(c, "retryable")
             /\ ReleaseRow(c, "retrying", TRUE) /\ UNCHANGED attempt
    <3>1. cmd[c].state \notin Terminal
      BY <2>3 DEF RecoveryOf
    <3>2. \A d \in Commands : CmdMove(d)
      BY <1>0, <2>0, <2>3, <3>1, CommandSet DEF CmdMove, effectVars
    <3>3. \A d \in Commands : RowMove(d)
      BY <1>0, <2>3, RowReleased
    <3> QED BY <1>w, <2>0, <2>3, <3>2, <3>3, Stays DEF Moves, TableMove, effectVars
  <2> QED BY <1>2, <2>1, <2>2, <2>3 DEF Recover, RecoveryOf
<1>3. CASE MarkExpired(c) \/ CancelApply(c)
  <2>0. UNCHANGED <<attempt, effectVars>>
    BY <1>3 DEF MarkExpired, CancelApply
  <2>1. CASE UNCHANGED <<cmd, outbox>>
    BY <1>w, <2>0, <2>1, Stays DEF Moves, TableMove, effectVars
  <2>2. CASE ~UNCHANGED <<cmd, outbox>>
    <3>1. /\ SetCommand(c, "expired") \/ SetCommand(c, "cancelled")
          /\ AbandonRow(c) /\ cmd[c].state \notin Terminal
          /\ attempt[c].state \in {"none", "failed"} \/ ~attempt[c].started
      BY <1>1, <1>3, <2>2 DEF MarkExpired, CancelApply, Claimable, Terminal, MayHaveStarted,
         RecoverableAttempt, AttemptStates
    <3>2. \A d \in Commands : CmdMove(d)
      BY <1>0, <2>0, <3>1, CommandSet DEF CmdMove, effectVars
    <3>3. \A d \in Commands : RowMove(d)
      BY <1>0, <3>1, RowReleased, Stays DEF AbandonRow
    <3> QED BY <1>w, <2>0, <3>2, <3>3, Stays DEF Moves, TableMove, effectVars
  <2> QED BY <2>1, <2>2
<1>4. CASE CancelRead(c) \/ TtlPasses(c)
  BY <1>w, <1>4, Stays DEF CancelRead, TtlPasses, Moves, TableMove, effectVars
<1>5. CASE DeleteSession(c)
  <2>1. \A d \in Commands : EffectMove(d)
    BY <1>0, <1>5 DEF DeleteSession, EffectMove, TypeOK
  <2> QED BY <1>w, <1>5, <2>1, Stays DEF DeleteSession, Moves, TableMove
<1>6. CASE LeaseExpires(c) \/ Stall(c) \/ BecomesDue(c)
  <2>1. \A d \in Commands : RowMove(d)
    <3>1. \/ outbox' = [outbox EXCEPT ![c].live = FALSE]
          \/ outbox' = [outbox EXCEPT ![c].due = TRUE]
      BY <1>6 DEF LeaseExpires, Stall, BecomesDue
    <3>2. \A d \in Commands : /\ outbox'[d].state = outbox[d].state
                             /\ outbox'[d].claims = outbox[d].claims
      BY <1>0, <3>1, RowTimes
    <3> QED BY <3>2 DEF RowMove, QuietRow
  <2> QED BY <1>w, <1>6, <2>1, Stays
          DEF LeaseExpires, Stall, BecomesDue, Moves, TableMove, effectVars, requestVars
<1>7. CASE ProviderSettles(c) \/ RequestLost(c)
  <2>1. \A d \in Commands : ProviderMove(d)
    BY <1>0, <1>7 DEF ProviderSettles, RequestLost, TypeOK, ProviderMove
  <2> QED BY <1>w, <1>7, <2>1, Stays
          DEF ProviderSettles, RequestLost, Moves, TableMove, requestVars
<1> QED BY <1>2, <1>3, <1>4, <1>5, <1>6, <1>7 DEF Environment, Interference

LEMMA VerdictInvStep == VerdictInv /\ [Next]_vars => VerdictInv'
<1> SUFFICES ASSUME VerdictInv, [Next]_vars PROVE VerdictInv'
  OBVIOUS
<1>1. SendInv'
  BY SendInvStep DEF VerdictInv
<1>2. ASSUME NEW w \in Workers, WorkerStep(w) \/ WorkerFault(w) PROVE Moves
  BY <1>2, ClaimingMoves, ExecutingMoves, SettlingMoves DEF WorkerStep, WorkerFault
<1>3. ASSUME UNCHANGED vars PROVE Moves
  BY <1>3, Stays DEF vars, Moves, TableMove
<1>4. Moves
  BY <1>2, <1>3, EnvironmentMoves DEF Next
<1> QED BY <1>1, <1>4, VerdictInvMoves

LEMMA VerdictInvInit == Init => VerdictInv
<1> SUFFICES ASSUME Init PROVE VerdictInv
  OBVIOUS
<1>1. SendInv
  BY SendInvInit
<1>2. \A w \in Workers : worker[w].pc = "idle"
  BY DEF Init, Idle
<1>3. VersionsKnown /\ \A w \in Workers : StageTrue(w) /\ CurrentTrue(w)
  BY <1>2 DEF VersionsKnown, StageTrue, CurrentTrue
<1>4. ASSUME NEW c \in Commands PROVE RowTrue(c)
  BY DEF Init, RowTrue
<1> QED BY <1>1, <1>3, <1>4 DEF VerdictInv

LEMMA VerdictInvCorrect == Spec => []VerdictInv
  BY VerdictInvInit, VerdictInvStep, PTL DEF Spec

\* A cancelled or expired command has no effect, a success is one, and a disabled
\* configuration makes none, whatever policies are deployed.
THEOREM EffectMatchesVerdict ==
  Spec => [](AbandonedHasNoEffect /\ SuccessIsReal /\ DisabledHasNoEffect)
<1>1. ASSUME VerdictInv PROVE AbandonedHasNoEffect
  <2>1. \A c \in Commands : RowTrue(c) /\ sends[c] <= begun[c] /\ sends[c] \in Nat
    BY <1>1 DEF VerdictInv, SendInv, OneSender, TypeOK
  <2> QED BY <2>1 DEF AbandonedHasNoEffect, RowTrue
<1>2. ASSUME VerdictInv PROVE SuccessIsReal
  BY <1>2 DEF VerdictInv, SuccessIsReal, RowTrue
<1>3. ASSUME VerdictInv PROVE DisabledHasNoEffect
  BY <1>3 DEF VerdictInv, DisabledHasNoEffect, RowTrue, External
<1> QED BY <1>1, <1>2, <1>3, VerdictInvCorrect, PTL

\* The state of a command never contradicts what has become of its effect, save that the
\* status endpoint may refuse to say what that is, as long as no deployment changes the
\* policy of a command an external provider may hold.
THEOREM VerdictIsTrueCorrect ==
  ASSUME PolicyMayChange => "external" \notin Modes
  PROVE  Spec => []VerdictIsTrue
<1>1. ASSUME VerdictInv PROVE DeliveredIsNotFailed
  <2> SUFFICES ASSUME NEW c \in Commands, cmd[c].state = "failed", prov[c] = "delivered"
               PROVE  c \in denied
    BY DEF DeliveredIsNotFailed
  <2>1. External(c)
    BY <1>1 DEF VerdictInv, RowTrue
  <2>2. mode \in Modes /\ mode = "external"
    BY <1>1, <2>1 DEF VerdictInv, SendInv, TypeOK, External
  <2> QED BY <1>1, <2>1, <2>2 DEF VerdictInv, RowTrue, MayFail, NeverDelivered
<1> QED BY <1>1, VerdictInvCorrect, EffectMatchesVerdict, PTL DEF VerdictIsTrue

-----------------------------------------------------------------------------
(* No command is left behind. *)

\* A step moves a command and its row together.
PairMove(c) ==
  \/ cmd'[c].state = cmd[c].state /\ outbox'[c].state \in {outbox[c].state, "running"}
  \/ cmd'[c].state \in Terminal
  \/ cmd'[c].state = "running" /\ outbox'[c].state = "running"
  \/ cmd'[c].state \in Claimable /\ outbox'[c].state = ResumedRow[cmd'[c].state]

LEMMA PairsStay ==
  ASSUME NEW c \in Commands
  PROVE  /\ UNCHANGED <<cmd, outbox>> => \A d \in Commands : PairMove(d)
         /\ \A n \in Nat, b \in BOOLEAN :
              TypeOK /\ FailCommand(c, n, b) => \A d \in Commands : PairMove(d)
         /\ \A s \in CommandStates, t \in RowStates, due \in BOOLEAN :
              /\ TypeOK /\ SetCommand(c, s) /\ ReleaseRow(c, t, due)
              /\ s \in Terminal \/ (s = "retryable" /\ t = "retrying")
              => \A d \in Commands : PairMove(d)
         /\ \A t \in RowStates, due \in BOOLEAN :
              /\ TypeOK /\ UNCHANGED cmd /\ ReleaseRow(c, t, due)
              /\ \/ cmd[c].state \in Terminal
                 \/ cmd[c].state \in Claimable /\ t = ResumedRow[cmd[c].state]
              => \A d \in Commands : PairMove(d)
<1>1. UNCHANGED <<cmd, outbox>> => \A d \in Commands : PairMove(d)
  BY DEF PairMove
<1>2. ASSUME TypeOK, NEW s, NEW t, NEW due, ReleaseRow(c, t, due),
             SetCommand(c, s) \/ (UNCHANGED cmd /\ s = cmd[c].state),
             \/ s \in Terminal
             \/ s \in Claimable /\ t = ResumedRow[s]
      PROVE  \A d \in Commands : PairMove(d)
  <2>1. /\ outbox'[c].state = t /\ \A d \in Commands \ {c} : outbox'[d] = outbox[d]
    BY <1>2 DEF TypeOK, ReleaseRow
  <2>2. cmd'[c].state = s /\ \A d \in Commands \ {c} : cmd'[d] = cmd[d]
    BY <1>2, CommandSet
  <2> QED BY <1>2, <2>1, <2>2 DEF PairMove
<1>3. ASSUME TypeOK, NEW n \in Nat, NEW b \in BOOLEAN, FailCommand(c, n, b)
      PROVE  \A d \in Commands : PairMove(d)
  <2> DEFINE s == CommandFailureState(n, b)
             t == RowFailureState(n, b)
  <2>1. SetCommand(c, s) /\ ReleaseRow(c, t, FALSE)
    BY <1>3 DEF FailCommand
  <2>2. s \in Terminal \/ (s \in Claimable /\ t = ResumedRow[s])
    BY DEF CommandFailureState, RowFailureState, Terminal, Claimable, ResumedRow
  <2> HIDE DEF s, t
  <2> QED BY <1>2, <1>3, <2>1, <2>2
<1>4. "retrying" = ResumedRow["retryable"] /\ "retryable" \in Claimable
  BY DEF ResumedRow, Claimable
<1> QED BY <1>1, <1>2, <1>3, <1>4

LEMMA WorkerPairs ==
  ASSUME TypeOK, NEW w \in Workers, WorkerStep(w) \/ WorkerFault(w)
  PROVE  \A d \in Commands : PairMove(d)
<1> DEFINE c == worker[w].c
<1>c. /\ worker[w].pc # "idle" => c \in Commands /\ worker[w].row \in Nat
      /\ "failed" \in RowStates /\ "succeeded" \in RowStates /\ "retrying" \in RowStates
      /\ Terminal \subseteq CommandStates
  BY WorkerFields DEF RowStates, CommandStates, Terminal
<1>1. CASE Claim(w)
  <2>1. UNCHANGED cmd /\ \A d \in Commands : outbox'[d].state \in {outbox[d].state, "running"}
    BY <1>1 DEF Claim, TypeOK
  <2> QED BY <2>1 DEF PairMove
<1>2. CASE Load(w)
  <2>1. c \in Commands /\ UNCHANGED cmd
        /\ \/ UNCHANGED outbox
           \/ cmd[c].state \in Terminal /\ ReleaseRow(c, "failed", FALSE)
    BY <1>2, <1>c DEF Load
  <2> QED BY <1>c, <2>1, PairsStay
<1>3. CASE SettleDeleted(w) \/ ExpireClaimed(w) \/ FinishSuccess(w)
  <2>1. /\ c \in Commands
        /\ \/ UNCHANGED <<cmd, outbox>>
           \/ \E s \in Terminal, t \in {"failed", "succeeded"} :
                SetCommand(c, s) /\ ReleaseRow(c, t, FALSE)
    BY <1>3, <1>c DEF SettleDeleted, ExpireClaimed, FinishSuccess, Terminal
  <2> QED BY <1>c, <2>1, PairsStay
<1>4. CASE Start(w)
  <2>1. /\ c \in Commands /\ UNCHANGED outbox
        /\ UNCHANGED cmd \/ (SetCommand(c, "running") /\ outbox[c].state = "running")
    BY <1>4, <1>c DEF Start, StartWins, ActiveClaim, HoldsClaim
  <2>2. CASE UNCHANGED cmd
    BY <2>1, <2>2 DEF PairMove
  <2>3. CASE SetCommand(c, "running")
    <3>1. cmd'[c].state = "running" /\ \A d \in Commands \ {c} : cmd'[d] = cmd[d]
      BY <2>1, <2>3, CommandSet
    <3> QED BY <2>1, <3>1 DEF PairMove
  <2> QED BY <2>1, <2>2, <2>3
<1>5. CASE FinishFailure(w)
  <2>1. /\ c \in Commands /\ worker[w].row \in Nat
        /\ \/ UNCHANGED <<cmd, outbox>>
           \/ \E b \in BOOLEAN : FailCommand(c, worker[w].row, b)
    BY <1>5, <1>c DEF FinishFailure
  <2> QED BY <2>1, PairsStay
<1>6. CASE RejectPersisted(w) \/ ProcessingError(w)
  <2>1. PICK b \in BOOLEAN : SettleProcessingError(w, b) /\ worker[w].pc # "idle"
    BY <1>6 DEF RejectPersisted, ProcessingError
  <2>2. RowFailureState(worker[w].row, b) \in RowStates
    BY DEF RowFailureState, RowStates
  <2>3. \/ UNCHANGED <<cmd, outbox>>
        \/ FailCommand(c, worker[w].row, b)
        \/ /\ cmd[c].state \in Terminal /\ UNCHANGED cmd
           /\ ReleaseRow(c, RowFailureState(worker[w].row, b), FALSE)
    BY <2>1 DEF SettleProcessingError, SettlesAs
  <2> QED BY <1>c, <2>1, <2>2, <2>3, PairsStay
<1>7. CASE \/ \E d \in Commands : Select(w, d)
           \/ Permit(w) \/ Search(w) \/ ReadAttempt(w) \/ Status(w) \/ StatusRefused(w)
           \/ Begin(w) \/ RefuseDisabled(w) \/ Send(w) \/ SendReturns(w)
           \/ Materialise(w) \/ Record(w) \/ RejectDueAt(w) \/ SendTimesOut(w)
           \/ ExecutorError(w) \/ Crash(w)
  <2>1. UNCHANGED <<cmd, outbox>>
    BY <1>7 DEF Select, Permit, Search, ReadAttempt, Status, StatusRefused, Begin,
       RefuseDisabled, Send,
       SendReturns, Materialise, Record, RejectDueAt, SendTimesOut, ExecutorError, Crash
  <2> QED BY <2>1 DEF PairMove
<1> QED BY <1>1, <1>2, <1>3, <1>4, <1>5, <1>6, <1>7 DEF WorkerStep, WorkerFault

LEMMA EnvironmentPairs ==
  ASSUME TypeOK, NEW c \in Commands, Environment(c) \/ Interference(c)
  PROVE  \A d \in Commands : PairMove(d)
<1>c. /\ cmd[c].state \in CommandStates /\ outbox[c].claims \in Nat
      /\ "failed" \in RowStates /\ "retrying" \in RowStates
      /\ Terminal \subseteq CommandStates /\ "retryable" \in CommandStates
  BY CommandFields DEF RowStates, CommandStates, Terminal, Claimable
<1>1. CASE Recover(c)
  <2>1. CASE RecoveryOf(c) = "orphan" /\ ReleaseRow(c, "failed", FALSE) /\ UNCHANGED cmd
    <3>1. cmd[c].state \in Terminal
      BY <2>1 DEF RecoveryOf
    <3> QED BY <1>c, <2>1, <3>1, PairsStay
  <2>2. CASE RecoveryOf(c) = "resume" /\ ReleaseRow(c, ResumedRow[cmd[c].state], TRUE) /\ UNCHANGED cmd
    <3>1. cmd[c].state \in Claimable /\ ResumedRow[cmd[c].state] \in RowStates
      BY <2>2 DEF RecoveryOf, ResumedRow, RowStates, Claimable
    <3> QED BY <2>2, <3>1, PairsStay
  <2>3. CASE FailCommand(c, outbox[c].claims, TRUE)
    BY <1>c, <2>3, PairsStay
  <2>4. CASE SetCommand(c, "retryable") /\ ReleaseRow(c, "retrying", TRUE)
    BY <1>c, <2>4, PairsStay
  <2> QED BY <1>1, <2>1, <2>2, <2>3, <2>4 DEF Recover
<1>2. CASE MarkExpired(c) \/ CancelApply(c)
  <2>1. CASE UNCHANGED <<cmd, outbox>>
    BY <2>1, PairsStay
  <2>2. CASE ~UNCHANGED <<cmd, outbox>>
    <3>1. \E s \in Terminal : SetCommand(c, s) /\ AbandonRow(c)
      BY <1>2, <2>2 DEF MarkExpired, CancelApply, Terminal
    <3>2. PICK s \in Terminal : SetCommand(c, s)
      BY <3>1
    <3>3. cmd'[c].state = s /\ \A d \in Commands \ {c} : cmd'[d] = cmd[d]
      BY <3>2, CommandSet
    <3>4. \A d \in Commands \ {c} : outbox'[d] = outbox[d]
      BY <3>1 DEF TypeOK, AbandonRow, ReleaseRow
    <3> QED BY <3>3, <3>4 DEF PairMove
  <2> QED BY <2>1, <2>2
<1>3. CASE LeaseExpires(c) \/ Stall(c) \/ BecomesDue(c)
  <2>1. /\ UNCHANGED cmd
        /\ \/ outbox' = [outbox EXCEPT ![c].live = FALSE]
           \/ outbox' = [outbox EXCEPT ![c].due = TRUE]
    BY <1>3 DEF LeaseExpires, Stall, BecomesDue
  <2>2. \A d \in Commands : outbox'[d].state = outbox[d].state
    BY <2>1, RowTimes
  <2> QED BY <2>1, <2>2 DEF PairMove
<1>4. CASE \/ ProviderSettles(c) \/ CancelRead(c) \/ DeleteSession(c) \/ TtlPasses(c)
           \/ RequestLost(c)
  <2>1. UNCHANGED <<cmd, outbox>>
    BY <1>4 DEF ProviderSettles, CancelRead, DeleteSession, TtlPasses, RequestLost
  <2> QED BY <2>1 DEF PairMove
<1> QED BY <1>1, <1>2, <1>3, <1>4 DEF Environment, Interference

LEMMA NoStrandedStep == TypeOK /\ NoStrandedCommand /\ [Next]_vars => NoStrandedCommand'
<1> SUFFICES ASSUME TypeOK, NoStrandedCommand, [Next]_vars PROVE NoStrandedCommand'
  OBVIOUS
<1>1. \A d \in Commands : PairMove(d)
  <2>1. CASE UNCHANGED vars
    BY <2>1 DEF vars, PairMove
  <2> QED BY <2>1, WorkerPairs, EnvironmentPairs DEF Next
<1> QED BY <1>1 DEF NoStrandedCommand, PairMove, Claimable, Terminal

\* A command that has not ended is claimed, or has a row the selector will find.
THEOREM NoStrandedCommandCorrect == Spec => []NoStrandedCommand
<1>1. Init => NoStrandedCommand
  BY DEF Init, NoStrandedCommand, ResumedRow, Claimable
<1> QED BY <1>1, TypeCorrect, NoStrandedStep, PTL DEF Spec

=============================================================================
