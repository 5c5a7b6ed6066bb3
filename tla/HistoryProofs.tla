----------------------------- MODULE HistoryProofs -----------------------------
(***************************************************************************)
(* Theorems about the parts of MCServices that keep what users and agents  *)
(* have said: the memories, the asks and the retrievals; about the feed    *)
(* that phones follow; and, with those of ServicesProofs, the types of     *)
(* all.                                                                    *)
(***************************************************************************)
EXTENDS ServicesProofs, Sequences

-----------------------------------------------------------------------------
(* Notes: memories.rs. *)

NoteRowType == [status : {"none", "active", "deleted"}, body : Bodies \cup {NoOne}, due : BOOLEAN]
NoteReqType == [pc : {"idle", "insert", "read", "delete"},
            key : MemoryKeys \cup {NoOne}, body : Bodies \cup {NoOne}]

\* The rows and the requests; the feed follows them and decides nothing.
RowsOK ==
  /\ memories \in [MemoryKeys -> NoteRowType]
  /\ writers \in [Writers -> NoteReqType]
  /\ noted \subseteq MemoryKeys \X Bodies

\* A request under way knows its key, and one that creates what it is to remember.
NoteAimed == \A r \in Writers :
  /\ writers[r].pc # "idle" => writers[r].key \in MemoryKeys
  /\ writers[r].pc \in {"insert", "read"} => writers[r].body \in Bodies

\* A key that was never taken stands for nothing.
NoneIsEmpty == \A m \in MemoryKeys : memories[m].status = "none" => memories[m].body = NoOne

\* The inductive invariant.
NoteInv == RowsOK /\ NoteAimed /\ NoneIsEmpty /\ Notes!ToldIsTheMemory

LEMMA NoteInvInit == ASSUME Notes!Init PROVE NoteInv
BY DEF Notes!Init, NoteInv, RowsOK, NoteRowType, NoteReqType, NoteAimed, NoneIsEmpty,
   Notes!ToldIsTheMemory, Notes!NoMemory, Notes!Idle

-----------------------------------------------------------------------------
(* What the steps do, point by point. *)

LEMMA NoteRequestLeaves ==
  ASSUME RowsOK, NEW r \in Writers, Notes!Leave(r)
  PROVE  /\ writers' \in [Writers -> NoteReqType] /\ writers'[r].pc = "idle"
         /\ \A q \in Writers \ {r} : writers'[q] = writers[q]
BY DEF RowsOK, Notes!Leave, Notes!Idle, NoteReqType

LEMMA NoteRequestGoes ==
  ASSUME RowsOK, NEW r \in Writers, Notes!Goto(r, "read")
  PROVE  /\ writers' \in [Writers -> NoteReqType] /\ writers'[r].pc = "read"
         /\ writers'[r].key = writers[r].key /\ writers'[r].body = writers[r].body
         /\ \A q \in Writers \ {r} : writers'[q] = writers[q]
BY DEF RowsOK, Notes!Goto, NoteReqType

\* A deletion changes the status of what is active, and nothing else.
LEMMA DeletedRows ==
  ASSUME RowsOK, NEW ms \in SUBSET MemoryKeys,
         \A m \in ms : memories[m].status = "active", memories' = Notes!Deleted(ms)
  PROVE  /\ memories' \in [MemoryKeys -> NoteRowType]
         /\ \A m \in MemoryKeys : /\ memories'[m].body = memories[m].body
                                  /\ memories'[m].status = "none" => memories[m].status = "none"
                                  /\ memories[m].status # "active" => memories'[m] = memories[m]
<1> DEFINE Row(m) == [memories[m] EXCEPT !.status = "deleted"]
<1>1. ASSUME NEW m \in MemoryKeys
      PROVE  Row(m) \in NoteRowType /\ Row(m).body = memories[m].body /\ Row(m).status = "deleted"
  <2>1. memories[m] \in NoteRowType
    BY DEF RowsOK
  <2> QED BY <2>1 DEF NoteRowType
<1>2. \A m \in MemoryKeys : memories'[m] = IF m \in ms THEN Row(m) ELSE memories[m]
  BY DEF Notes!Deleted
<1>3. memories' = [m \in MemoryKeys |-> IF m \in ms THEN Row(m) ELSE memories[m]]
  BY DEF Notes!Deleted
<1> HIDE DEF Row
<1>4. memories' \in [MemoryKeys -> NoteRowType]
  BY <1>1, <1>3 DEF RowsOK
<1> QED BY <1>1, <1>2, <1>4

\* An insertion takes a key that was never taken.
LEMMA InsertDoes ==
  ASSUME NoteInv, NEW r \in Writers, Notes!InsertMemory(r)
  PROVE  LET m == writers[r].key IN
         /\ writers[r].pc = "insert" /\ Notes!Goto(r, "read") /\ UNCHANGED noted
         /\ m \in MemoryKeys /\ writers[r].body \in Bodies
         /\ memories' \in [MemoryKeys -> NoteRowType]
         /\ \A n \in MemoryKeys \ {m} : memories'[n] = memories[n]
         /\ \/ UNCHANGED memories
            \/ memories[m].status = "none" /\ memories'[m].status # "none"
<1>1. /\ writers[r].pc = "insert" /\ Notes!Goto(r, "read") /\ UNCHANGED noted
      /\ writers[r].key \in MemoryKeys /\ writers[r].body \in Bodies /\ RowsOK
  BY DEF NoteInv, NoteAimed, Notes!InsertMemory
<1> PICK m \in MemoryKeys : m = writers[r].key
  BY <1>1
<1>2. CASE UNCHANGED memories
  BY <1>1, <1>2 DEF RowsOK
<1>3. CASE /\ memories[m].status = "none"
           /\ memories' = [memories EXCEPT ![m] = [Notes!NoMemory EXCEPT !.status = "active",
                                                                   !.body = writers[r].body]]
  <2>1. [Notes!NoMemory EXCEPT !.status = "active", !.body = writers[r].body] \in NoteRowType
    BY <1>1 DEF Notes!NoMemory, NoteRowType
  <2>2. [Notes!NoMemory EXCEPT !.status = "active", !.body = writers[r].body].status = "active"
    BY DEF Notes!NoMemory
  <2> QED BY <1>1, <1>3, <2>1, <2>2 DEF RowsOK
<1> QED BY <1>2, <1>3 DEF Notes!InsertMemory, Notes!Free

LEMMA DeleteDoes ==
  ASSUME NoteInv, NEW r \in Writers, Notes!DeleteMemory(r)
  PROVE  /\ \E ms \in SUBSET MemoryKeys :
              (\A m \in ms : memories[m].status = "active") /\ memories' = Notes!Deleted(ms)
         /\ Notes!Leave(r) /\ UNCHANGED noted
BY DEF Notes!DeleteMemory, Notes!Deletable, Notes!Readable

LEMMA SweepDoes ==
  ASSUME NoteInv, Notes!SweepMemories
  PROVE  /\ \E ms \in SUBSET MemoryKeys :
              (\A m \in ms : memories[m].status = "active") /\ memories' = Notes!Deleted(ms)
         /\ UNCHANGED <<writers, noted>>
BY DEF Notes!SweepMemories

LEMMA ExpiryDoes ==
  ASSUME RowsOK, NEW m \in MemoryKeys, Notes!MemoryExpires(m)
  PROVE  /\ memories' \in [MemoryKeys -> NoteRowType] /\ memories[m].status = "active"
         /\ memories'[m].status = "active" /\ memories'[m].body = memories[m].body
         /\ \A n \in MemoryKeys \ {m} : memories'[n] = memories[n]
         /\ UNCHANGED <<writers, noted>>
<1> DEFINE new == [memories[m] EXCEPT !.due = TRUE]
<1>1. memories[m] \in NoteRowType /\ memories[m].status = "active" /\ UNCHANGED <<writers, noted>>
      /\ memories' = [memories EXCEPT ![m] = new]
  BY DEF RowsOK, Notes!MemoryExpires
<1>2. new \in NoteRowType /\ new.status = memories[m].status /\ new.body = memories[m].body
  BY <1>1 DEF NoteRowType
<1> HIDE DEF new
<1> QED BY <1>1, <1>2 DEF RowsOK

\* Each step is one of these.
LEMMA NoteSteps ==
  ASSUME Notes!Next
  PROVE  \/ \E r \in Writers :
              \/ \E m \in MemoryKeys, b \in Bodies : Notes!StartCreate(r, m, b)
              \/ Notes!InsertMemory(r) \/ Notes!AnswerCreate(r)
              \/ \E m \in MemoryKeys : Notes!StartDelete(r, m)
              \/ Notes!DeleteMemory(r)
         \/ Notes!SweepMemories
         \/ \E p \in Phones : Notes!FollowFeed(p)
         \/ \E m \in MemoryKeys : Notes!MemoryExpires(m)
BY DEF Notes!Next

-----------------------------------------------------------------------------
\* Rows that keep their bodies and are not emptied keep what is said of them.
LEMMA RowsKept ==
  ASSUME NoteInv, UNCHANGED noted,
         \A m \in MemoryKeys :
           /\ memories'[m].body = memories[m].body
           /\ memories'[m].status = "none" => memories[m].status = "none"
  PROVE  NoneIsEmpty' /\ Notes!ToldIsTheMemory'
BY DEF NoteInv, NoneIsEmpty, Notes!ToldIsTheMemory

LEMMA NoteInvStep ==
  ASSUME NoteInv, [Notes!Next]_(Notes!vars)
  PROVE  NoteInv'
<1>0. RowsOK /\ NoteAimed /\ noted \subseteq MemoryKeys \X Bodies
  BY DEF NoteInv, RowsOK
<1>1. CASE UNCHANGED <<memories, writers, noted>>
  BY <1>1 DEF NoteInv, RowsOK, NoteAimed, NoneIsEmpty, Notes!ToldIsTheMemory
<1>2. ASSUME NEW r \in Writers, NEW m \in MemoryKeys, NEW b \in Bodies, Notes!StartCreate(r, m, b)
      PROVE  NoteInv'
  <2>1. /\ writers' \in [Writers -> NoteReqType]
        /\ writers'[r] = [pc |-> "insert", key |-> m, body |-> b]
        /\ \A q \in Writers \ {r} : writers'[q] = writers[q]
        /\ UNCHANGED <<memories, noted>>
    BY <1>0, <1>2 DEF RowsOK, Notes!StartCreate, NoteReqType
  <2>2. RowsOK' /\ NoteAimed'
    BY <1>0, <2>1 DEF RowsOK, NoteAimed
  <2> QED BY <2>1, <2>2, RowsKept DEF NoteInv
<1>3. ASSUME NEW r \in Writers, Notes!InsertMemory(r) PROVE NoteInv'
  <2> PICK m \in MemoryKeys : m = writers[r].key
    BY <1>3, InsertDoes
  <2>1. /\ writers[r].pc = "insert" /\ Notes!Goto(r, "read") /\ UNCHANGED noted
        /\ writers[r].body \in Bodies
        /\ memories' \in [MemoryKeys -> NoteRowType]
        /\ \A n \in MemoryKeys \ {m} : memories'[n] = memories[n]
        /\ \/ UNCHANGED memories
           \/ memories[m].status = "none" /\ memories'[m].status # "none"
    BY <1>3, InsertDoes
  <2>2. RowsOK' /\ NoteAimed'
    BY <1>0, <2>1, NoteRequestGoes DEF RowsOK, NoteAimed
  <2>3. NoneIsEmpty'
    BY <2>1 DEF NoteInv, NoneIsEmpty
  <2>4. Notes!ToldIsTheMemory'
    <3> SUFFICES ASSUME NEW n \in MemoryKeys, NEW b \in Bodies, <<n, b>> \in noted
                 PROVE  memories'[n].body = b
      BY <2>1 DEF Notes!ToldIsTheMemory
    <3>1. memories[n].body = b
      BY DEF NoteInv, Notes!ToldIsTheMemory
    <3>2. memories[n].status # "none"
      BY <3>1, NotesAssumption DEF NoteInv, NoneIsEmpty
    <3>3. memories'[n] = memories[n]
      BY <2>1, <3>2
    <3> QED BY <3>1, <3>3
  <2> QED BY <2>2, <2>3, <2>4 DEF NoteInv
<1>4. ASSUME NEW r \in Writers, Notes!AnswerCreate(r) PROVE NoteInv'
  <2>1. /\ writers[r].pc = "read" /\ Notes!Leave(r) /\ UNCHANGED memories
        /\ writers[r].key \in MemoryKeys /\ writers[r].body \in Bodies
    BY <1>0, <1>4 DEF Notes!AnswerCreate, NoteAimed
  <2>2. \A m \in MemoryKeys, b \in Bodies : <<m, b>> \in noted' =>
          <<m, b>> \in noted \/ memories[m].body = b
    BY <1>4 DEF Notes!AnswerCreate, Notes!SameRequest
  <2>3. noted' \subseteq MemoryKeys \X Bodies
    BY <1>0, <1>4, <2>1 DEF Notes!AnswerCreate
  <2>4. RowsOK' /\ NoteAimed'
    BY <1>0, <2>1, <2>3, NoteRequestLeaves DEF RowsOK, NoteAimed
  <2>5. NoneIsEmpty' /\ Notes!ToldIsTheMemory'
    BY <2>1, <2>2 DEF NoteInv, NoneIsEmpty, Notes!ToldIsTheMemory
  <2> QED BY <2>4, <2>5 DEF NoteInv
<1>5. ASSUME NEW r \in Writers, NEW m \in MemoryKeys, Notes!StartDelete(r, m) PROVE NoteInv'
  <2>1. /\ writers' \in [Writers -> NoteReqType]
        /\ writers'[r].pc = "delete" /\ writers'[r].key = m
        /\ \A q \in Writers \ {r} : writers'[q] = writers[q]
        /\ UNCHANGED <<memories, noted>>
    BY <1>0, <1>5 DEF RowsOK, Notes!StartDelete, Notes!Idle, NoteReqType
  <2>2. RowsOK' /\ NoteAimed'
    BY <1>0, <2>1 DEF RowsOK, NoteAimed
  <2> QED BY <2>1, <2>2, RowsKept DEF NoteInv
<1>6. ASSUME NEW r \in Writers, Notes!DeleteMemory(r) PROVE NoteInv'
  <2>1. PICK ms \in SUBSET MemoryKeys :
          (\A m \in ms : memories[m].status = "active") /\ memories' = Notes!Deleted(ms)
    BY <1>6, DeleteDoes
  <2>2. Notes!Leave(r) /\ UNCHANGED noted
    BY <1>6, DeleteDoes
  <2>3. RowsOK' /\ NoteAimed'
    BY <1>0, <2>1, <2>2, DeletedRows, NoteRequestLeaves DEF RowsOK, NoteAimed
  <2> QED BY <1>0, <2>1, <2>2, <2>3, DeletedRows, RowsKept DEF NoteInv
<1>7. CASE Notes!SweepMemories
  <2>1. PICK ms \in SUBSET MemoryKeys :
          (\A m \in ms : memories[m].status = "active") /\ memories' = Notes!Deleted(ms)
    BY <1>7, SweepDoes
  <2>2. UNCHANGED <<writers, noted>>
    BY <1>7, SweepDoes
  <2>3. RowsOK' /\ NoteAimed'
    BY <1>0, <2>1, <2>2, DeletedRows DEF RowsOK, NoteAimed
  <2> QED BY <1>0, <2>1, <2>2, <2>3, DeletedRows, RowsKept DEF NoteInv
<1>8. ASSUME NEW m \in MemoryKeys, Notes!MemoryExpires(m) PROVE NoteInv'
  <2>1. RowsOK' /\ NoteAimed'
    BY <1>0, <1>8, ExpiryDoes DEF RowsOK, NoteAimed
  <2> QED BY <1>0, <1>8, <2>1, ExpiryDoes, RowsKept DEF NoteInv
<1>9. ASSUME NEW p \in Phones, Notes!FollowFeed(p) PROVE NoteInv'
  BY <1>1, <1>9 DEF Notes!FollowFeed
<1>10. CASE UNCHANGED Notes!vars
  BY <1>1, <1>10 DEF Notes!vars
<1> QED BY <1>2, <1>3, <1>4, <1>5, <1>6, <1>7, <1>8, <1>9, <1>10, NoteSteps

\* A step of another part leaves the memories as they are.
LEMMA NotesGo ==
  [Next]_vars => [Notes!Next]_(Notes!vars) \/ UNCHANGED <<memories, writers, noted>>
  BY DEF Next, Only, vars, notesVars, Notes!vars

LEMMA NoteInvariant == Spec => []NoteInv
<1>1. Init => NoteInv
  BY NoteInvInit DEF Init
<1>2. NoteInv /\ [Next]_vars => NoteInv'
  <2>1. NoteInv /\ UNCHANGED <<memories, writers, noted>> => NoteInv'
    BY DEF NoteInv, RowsOK, NoteAimed, NoneIsEmpty, Notes!ToldIsTheMemory
  <2> QED BY <2>1, NotesGo, NoteInvStep
<1> QED BY <1>1, <1>2, PTL DEF Spec

-----------------------------------------------------------------------------
\* A request is answered with what it asked to be remembered, and that stays what the key
\* stands for, whichever of several requests under the key came first (memories.rs,
\* create).
THEOREM ToldIsTheMemoryCorrect == Spec => []ToldIsTheMemory
<1>1. NoteInv => ToldIsTheMemory
  BY DEF NoteInv, ToldIsTheMemory
<1> QED BY <1>1, NoteInvariant, PTL

\* What DeletedIsFinal says of a step.
StaysDeleted ==
  \A m \in MemoryKeys : memories[m].status = "deleted" => memories'[m] = memories[m]

\* No request, sweep or expiry changes a memory that was deleted (memories.rs,
\* soft_delete).
THEOREM DeletedIsFinalCorrect == Spec => DeletedIsFinal
<1>1. ASSUME NoteInv, Notes!Next PROVE StaysDeleted
  <2>0. RowsOK
    BY <1>1 DEF NoteInv
  <2> SUFFICES ASSUME NEW m \in MemoryKeys, memories[m].status = "deleted"
               PROVE  memories'[m] = memories[m]
    BY DEF StaysDeleted
  <2>1. ASSUME NEW r \in Writers, Notes!InsertMemory(r) PROVE memories'[m] = memories[m]
    BY <1>1, <2>1, InsertDoes
  <2>2. ASSUME NEW r \in Writers, Notes!DeleteMemory(r) PROVE memories'[m] = memories[m]
    BY <1>1, <2>0, <2>2, DeleteDoes, DeletedRows
  <2>3. ASSUME Notes!SweepMemories PROVE memories'[m] = memories[m]
    BY <1>1, <2>0, <2>3, SweepDoes, DeletedRows
  <2>4. ASSUME NEW n \in MemoryKeys, Notes!MemoryExpires(n) PROVE memories'[m] = memories[m]
    BY <2>0, <2>4, ExpiryDoes
  <2>5. ASSUME UNCHANGED memories PROVE memories'[m] = memories[m]
    BY <2>5
  <2> QED BY <1>1, <2>1, <2>2, <2>3, <2>4, <2>5, NoteSteps
          DEF Notes!StartCreate, Notes!AnswerCreate, Notes!StartDelete, Notes!FollowFeed
<1>2. NoteInv /\ [Next]_vars => [StaysDeleted]_(Notes!vars)
  <2>1. UNCHANGED <<memories, writers, noted>> => StaysDeleted
    BY DEF StaysDeleted
  <2> QED BY <1>1, <2>1, NotesGo
<1>3. DeletedIsFinal <=> [][StaysDeleted]_(Notes!vars)
  BY DEF DeletedIsFinal, Notes!DeletedIsFinal, StaysDeleted
<1> QED BY <1>2, <1>3, NoteInvariant, PTL DEF Spec

-----------------------------------------------------------------------------
(* Voice: asks.rs and listener_bindings.rs. *)

BindingType == [status : {"none", "active", "expired", "revoked"}, due : BOOLEAN]
HostType == [pc : {"idle", "revoke", "save", "list", "claim"}, got : SUBSET AskKeys]
AskType == [status : {"none", "queued", "claimed", "expired"},
            chat : Chats \cup {NoOne}, by : Chats \cup {NoOne},
            text : Texts \cup {NoOne}, session : AskKeys \cup {NoOne}, due : BOOLEAN]
AskSessionType == [chat : Chats \cup {NoOne}, deleted : BOOLEAN]
AskerType == [pc : {"idle", "session", "insert", "message"},
              key : AskKeys \cup {NoOne}, text : Texts \cup {NoOne},
              session : AskKeys \cup {NoOne}, chat : Chats \cup {NoOne}]

\* The tables of the listeners and of the asks.
ListenersOK ==
  /\ bindings \in [Chats -> BindingType] /\ hosts \in [Chats -> HostType] /\ overlap \in BOOLEAN
AsksOK ==
  /\ asks \in [AskKeys -> AskType] /\ sessions \in [AskKeys -> AskSessionType]
  /\ messages \subseteq AskKeys
AskersOK == askers \in [AskPhones -> AskerType] /\ asked \subseteq AskKeys \X Texts

\* A request under way knows what it asks; the ask it is to answer with is the one it asked.
AskerKnows(q) ==
  q.pc # "idle" =>
    /\ q.key \in AskKeys /\ q.text \in Texts /\ q.chat \in Chats
    /\ q.pc = "message" => asks[q.key].status # "none" /\ asks[q.key].text = q.text

\* What a phone was told of is there.
AskedIsThere == \A k \in AskKeys, t \in Texts :
  <<k, t>> \in asked => asks[k].status # "none" /\ asks[k].text = t /\ k \in messages

\* Unless registrations have overlapped one host at most registers, the one about to save has
\* revoked the others, and one at most listens.
Registering(c) == hosts[c].pc \in {"revoke", "save"}
Alone ==
  ~overlap => \A c, d \in Chats :
    /\ Registering(c) /\ Registering(d) => c = d
    /\ hosts[c].pc = "save" /\ Voice!Live(d) => c = d
    /\ Voice!Live(c) /\ Voice!Live(d) => c = d

VoiceInv ==
  /\ ListenersOK /\ AsksOK /\ AskersOK
  /\ \A p \in AskPhones : AskerKnows(askers[p])
  /\ AskedIsThere /\ Alone

LEMMA VoiceInvInit == ASSUME Voice!Init PROVE VoiceInv
<1>1. ListenersOK /\ Alone
  BY DEF Voice!Init, ListenersOK, Alone, Registering, Voice!Live, Voice!NoBinding, Voice!HostIdle,
         BindingType, HostType
<1>2. AsksOK
  BY DEF Voice!Init, AsksOK, AskType, AskSessionType, Voice!NoAsk, Voice!NoSession
<1>3. AskersOK /\ \A p \in AskPhones : AskerKnows(askers[p])
  BY DEF Voice!Init, AskersOK, AskerType, AskerKnows, Voice!PhoneIdle
<1>4. AskedIsThere
  BY DEF Voice!Init, AskedIsThere
<1> QED BY <1>1, <1>2, <1>3, <1>4 DEF VoiceInv

-----------------------------------------------------------------------------
(* The listeners. *)

\* What the hosts do to the bindings and to each other: only who saves becomes live.
LEMMA ListenerSteps ==
  ASSUME VoiceInv, NEW c \in Chats,
         \/ \E takeover \in BOOLEAN : Voice!Register(c, takeover)
         \/ Voice!RevokeOthers(c) \/ Voice!SaveBinding(c) \/ Voice!Disconnect(c)
         \/ Voice!LeasePasses(c) \/ Voice!HostStops(c)
         \/ Voice!StartPoll(c) \/ Voice!ListAsks(c) \/ \E k \in AskKeys : Voice!ClaimAsk(c, k)
  PROVE  ListenersOK' /\ Alone'
<1>0. ListenersOK /\ Alone /\ asks \in [AskKeys -> AskType]
  BY DEF VoiceInv, AsksOK
<1>1. ASSUME NEW takeover \in BOOLEAN, Voice!Register(c, takeover) PROVE ListenersOK' /\ Alone'
  <2>1. bindings' \in [Chats -> BindingType] /\ \A d \in Chats : Voice!Live(d)' => Voice!Live(d)
    BY <1>0, <1>1 DEF Voice!Register, Voice!ExpireStale, ListenersOK, BindingType, Voice!Live
  <2>2. /\ hosts' \in [Chats -> HostType] /\ hosts'[c].pc = "revoke"
        /\ \A d \in Chats \ {c} : hosts'[d] = hosts[d]
    BY <1>0, <1>1 DEF Voice!Register, Voice!HostAt, ListenersOK, HostType
  <2>3. /\ overlap' \in BOOLEAN /\ (overlap => overlap')
        /\ ~overlap' => ~overlap /\ \A d \in Chats : ~Registering(d)
    BY <1>0, <1>1 DEF Voice!Register, ListenersOK, Registering
  <2>4. Alone'
    BY <1>0, <2>1, <2>2, <2>3 DEF Alone, Registering
  <2> QED BY <2>1, <2>2, <2>3, <2>4 DEF ListenersOK
<1>2. CASE Voice!RevokeOthers(c)
  <2>1. bindings' \in [Chats -> BindingType]
        /\ \A d \in Chats : Voice!Live(d)' => d = c /\ Voice!Live(d)
    BY <1>0, <1>2 DEF Voice!RevokeOthers, Voice!Revoked, ListenersOK, BindingType, Voice!Live
  <2>2. /\ hosts' \in [Chats -> HostType] /\ hosts'[c].pc = "save" /\ Registering(c)
        /\ \A d \in Chats \ {c} : hosts'[d] = hosts[d]
    BY <1>0, <1>2 DEF Voice!RevokeOthers, Voice!HostAt, ListenersOK, HostType, Registering
  <2>3. overlap' = overlap
    BY <1>2 DEF Voice!RevokeOthers
  <2>4. Alone'
    BY <1>0, <2>1, <2>2, <2>3 DEF Alone, Registering
  <2> QED BY <1>0, <2>1, <2>2, <2>3, <2>4 DEF ListenersOK
<1>3. CASE Voice!SaveBinding(c)
  <2>1. bindings' \in [Chats -> BindingType]
        /\ \A d \in Chats \ {c} : Voice!Live(d)' => Voice!Live(d)
    BY <1>0, <1>3 DEF Voice!SaveBinding, ListenersOK, BindingType, Voice!Live
  <2>2. /\ hosts' \in [Chats -> HostType] /\ hosts'[c].pc = "idle" /\ hosts[c].pc = "save"
        /\ \A d \in Chats \ {c} : hosts'[d] = hosts[d]
    BY <1>0, <1>3 DEF Voice!SaveBinding, Voice!HostLeaves, Voice!HostIdle, ListenersOK, HostType
  <2>3. overlap' = overlap
    BY <1>3 DEF Voice!SaveBinding
  <2>4. Alone'
    BY <1>0, <2>1, <2>2, <2>3 DEF Alone, Registering
  <2> QED BY <1>0, <2>1, <2>2, <2>3, <2>4 DEF ListenersOK
\* In every other step nobody becomes live and nobody registers.
<1>4. CASE \/ Voice!Disconnect(c) \/ Voice!LeasePasses(c) \/ Voice!HostStops(c)
           \/ Voice!StartPoll(c) \/ Voice!ListAsks(c) \/ \E k \in AskKeys : Voice!ClaimAsk(c, k)
  <2>1. bindings' \in [Chats -> BindingType] /\ \A d \in Chats : Voice!Live(d)' => Voice!Live(d)
    <3>1. CASE UNCHANGED bindings
      BY <1>0, <3>1 DEF ListenersOK, Voice!Live
    <3>2. CASE Voice!Disconnect(c)
      BY <1>0, <3>2 DEF Voice!Disconnect, ListenersOK, BindingType, Voice!Live
    <3>3. CASE Voice!LeasePasses(c)
      BY <1>0, <3>3 DEF Voice!LeasePasses, ListenersOK, BindingType, Voice!Live
    <3> QED BY <1>4, <3>1, <3>2, <3>3
         DEF Voice!HostStops, Voice!StartPoll, Voice!ListAsks, Voice!ClaimAsk
  <2>2. /\ hosts' \in [Chats -> HostType]
        /\ hosts'[c].pc \in {"idle", "list", "claim"} \/ hosts'[c] = hosts[c]
        /\ \A d \in Chats \ {c} : hosts'[d] = hosts[d]
    <3>1. CASE UNCHANGED hosts
      BY <1>0, <3>1 DEF ListenersOK
    <3>2. CASE Voice!HostLeaves(c)
      BY <1>0, <3>2 DEF Voice!HostLeaves, Voice!HostIdle, ListenersOK, HostType
    <3>3. CASE Voice!HostAt(c, "list")
      BY <1>0, <3>3 DEF Voice!HostAt, ListenersOK, HostType
    <3>4. CASE Voice!ListAsks(c)
      BY <1>0, <3>4 DEF Voice!ListAsks, Voice!HostIdle, ListenersOK, HostType
    <3>5. ASSUME NEW k \in AskKeys, Voice!ClaimAsk(c, k)
          PROVE  /\ hosts' \in [Chats -> HostType] /\ hosts'[c].pc \in {"idle", "claim"}
                 /\ \A d \in Chats \ {c} : hosts'[d] = hosts[d]
      <4>1. PICK q : q = IF hosts[c].got = {k} THEN Voice!HostIdle
                         ELSE [hosts[c] EXCEPT !.got = @ \ {k}]
        OBVIOUS
      <4>2. q \in HostType /\ q.pc \in {"idle", "claim"}
        BY <1>0, <3>5, <4>1 DEF Voice!ClaimAsk, Voice!HostIdle, ListenersOK, HostType
      <4>3. hosts' = [hosts EXCEPT ![c] = q]
        BY <3>5, <4>1 DEF Voice!ClaimAsk
      <4> QED BY <1>0, <4>2, <4>3 DEF ListenersOK
    <3> QED BY <1>4, <3>1, <3>2, <3>3, <3>4, <3>5
         DEF Voice!Disconnect, Voice!LeasePasses, Voice!HostStops, Voice!StartPoll
  <2>3. overlap' = overlap
    BY <1>4 DEF Voice!Disconnect, Voice!LeasePasses, Voice!HostStops, Voice!StartPoll,
       Voice!ListAsks, Voice!ClaimAsk
  <2>4. Alone'
    BY <1>0, <2>1, <2>2, <2>3 DEF Alone, Registering
  <2> QED BY <1>0, <2>1, <2>2, <2>3, <2>4 DEF ListenersOK
<1> QED BY <1>1, <1>2, <1>3, <1>4

-----------------------------------------------------------------------------
(* The asks. *)

\* What a step may do to an ask that is there: it ends from the queue, and it keeps its words.
AskStands(k) ==
  /\ asks[k].status \in {"claimed", "expired"} => asks'[k] = asks[k]
  /\ asks[k].status # "none" =>
       /\ asks'[k].status # "none"
       /\ asks'[k].chat = asks[k].chat /\ asks'[k].text = asks[k].text

AsksStand == \A k \in AskKeys : AskStands(k)

\* The asks change in four ways.
LEMMA AskSteps ==
  ASSUME VoiceInv, Voice!Next
  PROVE  asks' \in [AskKeys -> AskType] /\ AsksStand
<1>0. /\ asks \in [AskKeys -> AskType] /\ askers \in [AskPhones -> AskerType]
      /\ \A p \in AskPhones : AskerKnows(askers[p])
  BY DEF VoiceInv, AsksOK, AskersOK
<1>1. CASE UNCHANGED asks
  BY <1>0, <1>1 DEF AsksStand, AskStands
<1>2. ASSUME NEW c \in Chats, Voice!StartPoll(c) PROVE asks' \in [AskKeys -> AskType] /\ AsksStand
  BY <1>0, <1>2 DEF Voice!StartPoll, AskType, AsksStand, AskStands
<1>3. ASSUME NEW c \in Chats, NEW k \in AskKeys, Voice!ClaimAsk(c, k)
      PROVE  asks' \in [AskKeys -> AskType] /\ AsksStand
  <2>1. CASE Voice!Claimable(k)
    <3>1. PICK q : q = [asks[k] EXCEPT !.status = "claimed", !.by = c]
      OBVIOUS
    <3>2. q \in AskType /\ q.status = "claimed" /\ q.chat = asks[k].chat /\ q.text = asks[k].text
      BY <1>0, <3>1 DEF AskType
    <3>3. asks' = [asks EXCEPT ![k] = q] /\ asks[k].status = "queued"
      BY <1>0, <1>3, <2>1, <3>1 DEF Voice!ClaimAsk, Voice!Claimable
    <3> QED BY <1>0, <3>2, <3>3 DEF AsksStand, AskStands
  <2>2. CASE ~Voice!Claimable(k)
    BY <1>1, <1>3, <2>2 DEF Voice!ClaimAsk
  <2> QED BY <2>1, <2>2
<1>4. ASSUME NEW p \in AskPhones, Voice!InsertAsk(p)
      PROVE  asks' \in [AskKeys -> AskType] /\ AsksStand
  <2>1. CASE Voice!Inserts(p)
    <3>1. /\ askers[p].key \in AskKeys /\ askers[p].text \in Texts /\ askers[p].chat \in Chats
          /\ askers[p].session \in AskKeys \cup {NoOne}
      BY <1>0, <1>4 DEF Voice!InsertAsk, AskerKnows, AskerType
    <3>2. PICK q : q = [Voice!NoAsk EXCEPT !.status = "queued", !.chat = askers[p].chat,
                                           !.text = askers[p].text, !.session = askers[p].session]
      OBVIOUS
    <3>3. q \in AskType
      BY <3>1, <3>2 DEF AskType, Voice!NoAsk
    <3>4. asks' = [asks EXCEPT ![askers[p].key] = q] /\ asks[askers[p].key].status = "none"
      BY <1>4, <2>1, <3>2 DEF Voice!InsertAsk, Voice!Inserts, Voice!Mine
    <3>5. asks' \in [AskKeys -> AskType] /\ \A k \in AskKeys \ {askers[p].key} : asks'[k] = asks[k]
      BY <1>0, <3>3, <3>4
    <3>6. AskStands(askers[p].key)
      BY <3>4 DEF AskStands
    <3>7. ASSUME NEW k \in AskKeys \ {askers[p].key} PROVE AskStands(k)
      BY <3>5, <3>7 DEF AskStands
    <3> QED BY <3>5, <3>6, <3>7 DEF AsksStand
  <2>2. CASE ~Voice!Inserts(p)
    BY <1>1, <1>4, <2>2 DEF Voice!InsertAsk
  <2> QED BY <2>1, <2>2
<1>5. ASSUME NEW k \in AskKeys, Voice!AskLapses(k)
      PROVE  asks' \in [AskKeys -> AskType] /\ AsksStand
  BY <1>0, <1>5 DEF Voice!AskLapses, AskType, AsksStand, AskStands
<1>6. ASSUME NEW c \in Chats,
             \/ \E takeover \in BOOLEAN : Voice!Register(c, takeover)
             \/ Voice!RevokeOthers(c) \/ Voice!SaveBinding(c) \/ Voice!Disconnect(c)
             \/ Voice!ListAsks(c) \/ Voice!LeasePasses(c) \/ Voice!HostStops(c)
      PROVE  UNCHANGED asks
  BY <1>6 DEF Voice!Register, Voice!RevokeOthers, Voice!SaveBinding, Voice!Disconnect,
              Voice!ListAsks, Voice!LeasePasses, Voice!HostStops, Voice!book
<1>7. ASSUME NEW p \in AskPhones,
             \/ \E k \in AskKeys, text \in Texts, s \in AskKeys \cup {NoOne}, c \in Chats :
                  Voice!StartAsk(p, k, text, s, c)
             \/ Voice!AskSession(p) \/ Voice!EnsureMessage(p)
      PROVE  UNCHANGED asks
  BY <1>7 DEF Voice!StartAsk, Voice!AskSession, Voice!EnsureMessage
<1>8. ASSUME NEW k \in AskKeys, Voice!DeleteSession(k) PROVE UNCHANGED asks
  BY <1>8 DEF Voice!DeleteSession
<1> QED BY <1>1, <1>2, <1>3, <1>4, <1>5, <1>6, <1>7, <1>8 DEF Voice!Next

\* What a request knows, and what phones were told, stays true of asks that stand.
LEMMA KnowledgeStays ==
  ASSUME VoiceInv, AsksStand, messages \subseteq messages'
  PROVE  /\ \A q : AskerKnows(q) => AskerKnows(q)'
         /\ asked' = asked => AskedIsThere'
<1>1. \A q : AskerKnows(q) => AskerKnows(q)'
  BY DEF AskerKnows, AsksStand, AskStands
<1>2. asked' = asked => AskedIsThere'
  BY DEF VoiceInv, AskedIsThere, AsksStand, AskStands
<1> QED BY <1>1, <1>2

\* One request moves.
LEMMA AskerMoves ==
  ASSUME VoiceInv, AsksStand, messages \subseteq messages', NEW p \in AskPhones,
         NEW q \in AskerType, askers' = [askers EXCEPT ![p] = q], AskerKnows(q)'
  PROVE  askers' \in [AskPhones -> AskerType] /\ \A r \in AskPhones : AskerKnows(askers[r])'
<1>0. askers \in [AskPhones -> AskerType]
  BY DEF VoiceInv, AskersOK
<1>1. askers'[p] = q /\ \A r \in AskPhones \ {p} : askers'[r] = askers[r]
  BY <1>0
<1>2. ASSUME NEW r \in AskPhones PROVE AskerKnows(askers[r])'
  <2> PICK o : o = askers[r] /\ AskerKnows(o)
    BY DEF VoiceInv, AskerKnows
  <2>1. AskerKnows(o)'
    BY KnowledgeStays
  <2>2. CASE r = p
    BY <1>1, <2>2 DEF AskerKnows
  <2>3. CASE r # p
    BY <1>1, <2>1, <2>3 DEF AskerKnows
  <2> QED BY <2>2, <2>3
<1> QED BY <1>0, <1>2

LEMMA AskerGoes ==
  ASSUME VoiceInv, NEW p \in AskPhones, NEW pc \in {"insert", "message"}, Voice!PhoneAt(p, pc)
  PROVE  \E q \in AskerType : /\ askers' = [askers EXCEPT ![p] = q] /\ q.pc = pc
                              /\ q.key = askers[p].key /\ q.text = askers[p].text
                              /\ q.chat = askers[p].chat
<1>1. PICK q : q = [askers[p] EXCEPT !.pc = pc]
  OBVIOUS
<1>2. /\ q \in AskerType /\ q.pc = pc /\ q.key = askers[p].key /\ q.text = askers[p].text
      /\ q.chat = askers[p].chat
  BY <1>1 DEF VoiceInv, AskersOK, AskerType
<1>3. askers' = [askers EXCEPT ![p] = q]
  BY <1>1 DEF Voice!PhoneAt
<1> QED BY <1>2, <1>3

LEMMA AskerLeaves ==
  ASSUME VoiceInv, NEW p \in AskPhones, Voice!PhoneLeaves(p)
  PROVE  \E q \in AskerType : askers' = [askers EXCEPT ![p] = q] /\ q.pc = "idle"
<1>1. Voice!PhoneIdle \in AskerType /\ Voice!PhoneIdle.pc = "idle"
  BY DEF Voice!PhoneIdle, AskerType
<1> QED BY <1>1 DEF Voice!PhoneLeaves

\* A request that starts has found a listener, and takes the ask of its key or will make it.
LEMMA AskStarts ==
  ASSUME VoiceInv, AsksStand, NEW p \in AskPhones, NEW k \in AskKeys, NEW t \in Texts,
         NEW s \in AskKeys \cup {NoOne}, NEW c \in Chats, Voice!StartAsk(p, k, t, s, c)
  PROVE  /\ askers' \in [AskPhones -> AskerType] /\ \A r \in AskPhones : AskerKnows(askers[r])'
         /\ bindings' \in [Chats -> BindingType] /\ \A d \in Chats : Voice!Live(d)' => Voice!Live(d)
<1>0. bindings \in [Chats -> BindingType] /\ asks \in [AskKeys -> AskType]
      /\ UNCHANGED <<asks, messages>>
  BY DEF VoiceInv, ListenersOK, AsksOK, Voice!StartAsk
<1>1. bindings' \in [Chats -> BindingType] /\ \A d \in Chats : Voice!Live(d)' => Voice!Live(d)
  BY <1>0 DEF Voice!StartAsk, Voice!ExpireStale, BindingType, Voice!Live
<1>2. \E q \in AskerType : askers' = [askers EXCEPT ![p] = q] /\ AskerKnows(q)'
  <2>1. CASE asks[k].status = "none"
    <3>1. PICK q : q = [pc |-> "session", key |-> k, text |-> t, session |-> s, chat |-> c]
      OBVIOUS
    <3>2. q \in AskerType /\ AskerKnows(q)'
      BY <3>1 DEF AskerType, AskerKnows
    <3>3. askers' = [askers EXCEPT ![p] = q]
      BY <2>1, <3>1 DEF Voice!StartAsk
    <3> QED BY <3>2, <3>3
  <2>2. CASE asks[k].status # "none"
    <3>1. PICK q : q = [pc |-> "message", key |-> k, text |-> t, session |-> asks[k].session,
                        chat |-> c]
      OBVIOUS
    <3>2. asks[k].session \in AskKeys \cup {NoOne}
      BY <1>0 DEF AskType
    <3>3. q \in AskerType
      BY <3>1, <3>2 DEF AskerType
    <3>4. asks[k].text = t
      BY <2>2 DEF Voice!StartAsk, Voice!SameText
    <3>5. AskerKnows(q)'
      BY <1>0, <2>2, <3>1, <3>4 DEF AskerKnows
    <3>6. askers' = [askers EXCEPT ![p] = q]
      BY <2>2, <3>1 DEF Voice!StartAsk
    <3> QED BY <3>3, <3>5, <3>6
  <2> QED BY <2>1, <2>2
<1> QED BY <1>0, <1>1, <1>2, AskerMoves

LEMMA AskSessionStep ==
  ASSUME VoiceInv, AsksStand, NEW p \in AskPhones, Voice!AskSession(p)
  PROVE  /\ askers' \in [AskPhones -> AskerType] /\ \A r \in AskPhones : AskerKnows(askers[r])'
         /\ sessions' \in [AskKeys -> AskSessionType]
<1>0. /\ UNCHANGED <<asks, messages>> /\ askers \in [AskPhones -> AskerType]
      /\ sessions \in [AskKeys -> AskSessionType]
      /\ askers[p].pc = "session" /\ askers[p] \in AskerType
      /\ askers[p].key \in AskKeys /\ askers[p].text \in Texts /\ askers[p].chat \in Chats
  BY DEF VoiceInv, AskersOK, AsksOK, Voice!AskSession, AskerKnows
<1>1. sessions' \in [AskKeys -> AskSessionType]
  BY <1>0 DEF Voice!AskSession, AskSessionType
<1>2. \E q \in AskerType : askers' = [askers EXCEPT ![p] = q] /\ AskerKnows(q)'
  <2>1. CASE Voice!PhoneAt(p, "insert")
    BY <1>0, <2>1, AskerGoes DEF AskerKnows
  <2>2. CASE Voice!PhoneLeaves(p)
    BY <2>2, AskerLeaves DEF AskerKnows
  <2>3. CASE askers' = [askers EXCEPT ![p].pc = "insert", ![p].session = askers[p].key]
    <3>1. PICK q : q = [askers[p] EXCEPT !.pc = "insert", !.session = askers[p].key]
      OBVIOUS
    <3>2. q \in AskerType /\ AskerKnows(q)'
      BY <1>0, <3>1 DEF AskerType, AskerKnows
    <3>3. askers' = [askers EXCEPT ![p] = q]
      BY <1>0, <2>3, <3>1
    <3> QED BY <3>2, <3>3
  <2> QED BY <2>1, <2>2, <2>3 DEF Voice!AskSession
<1> QED BY <1>0, <1>1, <1>2, AskerMoves

\* Whoever goes on to the message after an insert has the ask of its key, its own or that of
\* a request with the same text.
LEMMA InsertAskStep ==
  ASSUME VoiceInv, AsksStand, NEW p \in AskPhones, Voice!InsertAsk(p)
  PROVE  askers' \in [AskPhones -> AskerType] /\ \A r \in AskPhones : AskerKnows(askers[r])'
<1>0. /\ UNCHANGED messages /\ asks \in [AskKeys -> AskType]
      /\ askers[p].pc = "insert" /\ askers[p] \in AskerType
      /\ askers[p].key \in AskKeys /\ askers[p].text \in Texts /\ askers[p].chat \in Chats
  BY DEF VoiceInv, AskersOK, AsksOK, Voice!InsertAsk, AskerKnows
<1>1. CASE Voice!PhoneLeaves(p)
  BY <1>0, <1>1, AskerLeaves, AskerMoves DEF AskerKnows
<1>2. CASE Voice!PhoneAt(p, "message")
  <2>1. \/ /\ asks'[askers[p].key].status # "none"
           /\ asks'[askers[p].key].text = askers[p].text
        \/ Voice!PhoneLeaves(p)
    <3>1. CASE Voice!Inserts(p)
      BY <1>0, <3>1 DEF Voice!InsertAsk, Voice!NoAsk
    <3>2. CASE ~Voice!Inserts(p)
      BY <3>2 DEF Voice!InsertAsk, Voice!Inserts, Voice!Mine, Voice!SameText
    <3> QED BY <3>1, <3>2
  <2>2. PICK q \in AskerType : /\ askers' = [askers EXCEPT ![p] = q] /\ q.pc = "message"
                               /\ q.key = askers[p].key /\ q.text = askers[p].text
                               /\ q.chat = askers[p].chat
    BY <1>2, AskerGoes
  <2>3. ~Voice!PhoneLeaves(p) => AskerKnows(q)'
    BY <1>0, <2>1, <2>2 DEF AskerKnows
  <2> QED BY <1>0, <1>1, <2>2, <2>3, AskerMoves
<1> QED BY <1>1, <1>2 DEF Voice!InsertAsk

LEMMA MessageStep ==
  ASSUME VoiceInv, AsksStand, NEW p \in AskPhones, Voice!EnsureMessage(p)
  PROVE  /\ askers' \in [AskPhones -> AskerType] /\ \A r \in AskPhones : AskerKnows(askers[r])'
         /\ messages' \subseteq AskKeys /\ asked' \subseteq AskKeys \X Texts /\ AskedIsThere'
<1>0. /\ UNCHANGED asks /\ askers[p].pc = "message"
      /\ askers[p].key \in AskKeys /\ askers[p].text \in Texts
      /\ asks[askers[p].key].status # "none" /\ asks[askers[p].key].text = askers[p].text
      /\ messages \subseteq AskKeys /\ asked \subseteq AskKeys \X Texts /\ AskedIsThere
  BY DEF VoiceInv, AskersOK, AsksOK, Voice!EnsureMessage, AskerKnows
<1>1. messages \subseteq messages' /\ messages' \subseteq AskKeys
  BY <1>0 DEF Voice!EnsureMessage, Voice!Persisted
<1>2. \/ asked' = asked
      \/ asked' = asked \cup {<<askers[p].key, askers[p].text>>} /\ askers[p].key \in messages'
  BY DEF Voice!EnsureMessage
<1>3. asked' \subseteq AskKeys \X Texts
  BY <1>0, <1>2
<1>4. AskedIsThere'
  BY <1>0, <1>1, <1>2 DEF AskedIsThere
<1>5. PICK q \in AskerType : askers' = [askers EXCEPT ![p] = q] /\ q.pc = "idle"
  BY AskerLeaves DEF Voice!EnsureMessage
<1>6. AskerKnows(q)'
  BY <1>5 DEF AskerKnows
<1> QED BY <1>1, <1>3, <1>4, <1>5, <1>6, AskerMoves

\* Nobody else becomes live when the stale bindings expire.
LEMMA AloneStays ==
  ASSUME VoiceInv, bindings' \in [Chats -> BindingType], UNCHANGED <<hosts, overlap>>,
         \A d \in Chats : Voice!Live(d)' => Voice!Live(d)
  PROVE  ListenersOK' /\ Alone'
  BY DEF VoiceInv, ListenersOK, Alone, Registering

LEMMA VoiceInvStep ==
  ASSUME VoiceInv, Voice!Next
  PROVE  VoiceInv' /\ AsksStand
<1>0. asks' \in [AskKeys -> AskType] /\ AsksStand
  BY AskSteps
<1> USE DEF VoiceInv
<1>1. ASSUME NEW c \in Chats,
             \/ \E takeover \in BOOLEAN : Voice!Register(c, takeover)
             \/ Voice!RevokeOthers(c) \/ Voice!SaveBinding(c) \/ Voice!Disconnect(c)
             \/ Voice!StartPoll(c) \/ Voice!ListAsks(c) \/ \E k \in AskKeys : Voice!ClaimAsk(c, k)
             \/ Voice!LeasePasses(c) \/ Voice!HostStops(c)
      PROVE  VoiceInv'
  <2>1. ListenersOK' /\ Alone'
    BY <1>1, ListenerSteps
  <2>2. UNCHANGED <<sessions, messages, askers, asked>>
    BY <1>1 DEF Voice!Register, Voice!RevokeOthers, Voice!SaveBinding, Voice!Disconnect,
       Voice!StartPoll, Voice!ListAsks, Voice!ClaimAsk, Voice!LeasePasses, Voice!HostStops,
       Voice!book
  <2>3. AskedIsThere' /\ \A q : AskerKnows(q) => AskerKnows(q)'
    BY <1>0, <2>2, KnowledgeStays
  <2>4. \A p \in AskPhones : AskerKnows(askers[p])'
    BY <2>2, <2>3 DEF AskerKnows
  <2> QED BY <1>0, <2>1, <2>2, <2>3, <2>4 DEF AsksOK, AskersOK
<1>2. ASSUME NEW p \in AskPhones, NEW k \in AskKeys, NEW t \in Texts,
             NEW s \in AskKeys \cup {NoOne}, NEW c \in Chats, Voice!StartAsk(p, k, t, s, c)
      PROVE  VoiceInv'
  <2>1. UNCHANGED <<hosts, asks, sessions, messages, asked, overlap>>
    BY <1>2 DEF Voice!StartAsk
  <2>2. AskedIsThere'
    BY <1>0, <2>1, KnowledgeStays
  <2>3. askers' \in [AskPhones -> AskerType] /\ \A r \in AskPhones : AskerKnows(askers[r])'
    BY <1>0, <1>2, AskStarts
  <2>4. ListenersOK' /\ Alone'
    BY <1>0, <1>2, <2>1, AskStarts, AloneStays
  <2> QED BY <1>0, <2>1, <2>2, <2>3, <2>4 DEF AsksOK, AskersOK
<1>3. ASSUME NEW p \in AskPhones, Voice!AskSession(p) \/ Voice!InsertAsk(p) PROVE VoiceInv'
  <2>1. UNCHANGED <<bindings, hosts, messages, asked, overlap>>
    BY <1>3 DEF Voice!AskSession, Voice!InsertAsk
  <2>2. AskedIsThere'
    BY <1>0, <2>1, KnowledgeStays
  <2>3. /\ askers' \in [AskPhones -> AskerType] /\ \A r \in AskPhones : AskerKnows(askers[r])'
        /\ sessions' \in [AskKeys -> AskSessionType]
    BY <1>0, <1>3, AskSessionStep, InsertAskStep DEF Voice!InsertAsk, AsksOK
  <2>4. ListenersOK' /\ Alone'
    BY <2>1 DEF ListenersOK, Alone, Registering, Voice!Live
  <2> QED BY <1>0, <2>1, <2>2, <2>3, <2>4 DEF AsksOK, AskersOK
<1>4. ASSUME NEW p \in AskPhones, Voice!EnsureMessage(p) PROVE VoiceInv'
  <2>1. UNCHANGED <<bindings, hosts, asks, sessions, overlap>>
    BY <1>4 DEF Voice!EnsureMessage
  <2>2. ListenersOK' /\ Alone'
    BY <2>1 DEF ListenersOK, Alone, Registering, Voice!Live
  <2> QED BY <1>0, <1>4, <2>1, <2>2, MessageStep DEF AsksOK, AskersOK
<1>5. ASSUME NEW k \in AskKeys, Voice!AskLapses(k) \/ Voice!DeleteSession(k) PROVE VoiceInv'
  <2>1. UNCHANGED <<bindings, hosts, messages, askers, asked, overlap>>
    BY <1>5 DEF Voice!AskLapses, Voice!DeleteSession
  <2>2. AskedIsThere' /\ \A q : AskerKnows(q) => AskerKnows(q)'
    BY <1>0, <2>1, KnowledgeStays
  <2>3. \A p \in AskPhones : AskerKnows(askers[p])'
    BY <2>1, <2>2 DEF AskerKnows
  <2>4. sessions' \in [AskKeys -> AskSessionType]
    BY <1>5 DEF Voice!AskLapses, Voice!DeleteSession, AsksOK, AskSessionType
  <2>5. ListenersOK' /\ Alone'
    BY <2>1 DEF ListenersOK, Alone, Registering, Voice!Live
  <2> QED BY <1>0, <2>1, <2>2, <2>3, <2>4, <2>5 DEF AsksOK, AskersOK
<1> QED BY <1>0, <1>1, <1>2, <1>3, <1>4, <1>5 DEF Voice!Next

\* A step of another part leaves the asks as they are.
LEMMA VoiceGoes == [Next]_vars => [Voice!Next]_(Voice!vars)
  BY DEF Next, Only, vars, voiceVars, Voice!vars

LEMMA VoiceInvariant == Spec => []VoiceInv
<1>1. Init => VoiceInv
  BY VoiceInvInit DEF Init
<1>2. VoiceInv /\ [Next]_vars => VoiceInv'
  <2>1. VoiceInv /\ UNCHANGED Voice!vars => VoiceInv'
    BY DEF Voice!vars, VoiceInv, ListenersOK, AsksOK, AskersOK, AskerKnows, AskedIsThere, Alone,
           Registering, Voice!Live
  <2> QED BY <2>1, VoiceGoes, VoiceInvStep
<1> QED BY <1>1, <1>2, PTL DEF Spec

\* A phone is told of its own ask, whose message is in the session, whatever else was asked
\* under its key and wherever a request stopped (asks.rs, create_ask).
THEOREM ToldIsTheAskCorrect == Spec => []ToldIsTheAsk
<1>1. VoiceInv => ToldIsTheAsk
  BY DEF VoiceInv, AskedIsThere, ToldIsTheAsk, Voice!ToldIsTheAsk
<1> QED BY <1>1, VoiceInvariant, PTL

\* Two chats listen for an agent at once only if their registrations overlapped
\* (listener_bindings.rs, register_listener).
THEOREM TwoListenersNeedOverlapCorrect == Spec => []TwoListenersNeedOverlap
<1>1. VoiceInv => TwoListenersNeedOverlap
  BY DEF VoiceInv, Alone, TwoListenersNeedOverlap, Voice!TwoListenersNeedOverlap
<1> QED BY <1>1, VoiceInvariant, PTL

\* An ask that was claimed or has expired stays as it is, and no ask is bound again or
\* reworded, whatever pages are still in the memory of polls (asks.rs, claim_asks).
THEOREM AskEndsOnceCorrect == Spec => AskEndsOnce
<1> DEFINE Ends ==
      \A k \in AskKeys :
        /\ asks[k].status \in {"claimed", "expired"} => asks'[k] = asks[k]
        /\ asks[k].status # "none" => /\ asks'[k].chat = asks[k].chat
                                      /\ asks'[k].text = asks[k].text
<1>1. VoiceInv /\ [Next]_vars => [Ends]_(Voice!vars)
  <2>1. VoiceInv /\ Voice!Next => Ends
    BY VoiceInvStep DEF AsksStand, AskStands
  <2> QED BY <2>1, VoiceGoes
<1>2. AskEndsOnce <=> [][Ends]_(Voice!vars)
  BY DEF AskEndsOnce, Voice!AskEndsOnce
<1> QED BY <1>1, <1>2, VoiceInvariant, PTL DEF Spec

-----------------------------------------------------------------------------
(* Snapshots: the rows and the objects of history.rs. *)

RetrievalType == [status : {"none", "active", "deleted"}, key : Keys \cup {NoOne}, due : BOOLEAN]
SweepType == [pc : {"idle", "refs", "objects", "rows", "publish"}, page : SUBSET Retrievals,
              doomed : SUBSET Keys, todo : SUBSET Retrievals]

\* The tables, and the sweeps under way.
SnapshotsOK ==
  /\ rows \in [Retrievals -> RetrievalType] /\ sweeps \in [Sweeps -> SweepType]
  /\ objects \subseteq Keys /\ raced \subseteq Keys /\ split \subseteq Keys
  /\ cut \subseteq Retrievals

\* A retrieval that was reported has a snapshot.
HasKey == \A r \in Retrievals : rows[r].status # "none" => rows[r].key \in Keys

\* What a sweep took into its page had been reported, and was due.
PageIsDue(page) == \A r \in page : rows[r].status # "none" /\ rows[r].due
PagesAreDue == \A s \in Sweeps : PageIsDue(sweeps[s].page)

\* The objects a sweep is to delete are of no retrieval that lasts, unless it was reported
\* since.
IsUnused(k) == \A r \in Retrievals :
  rows[r].status = "active" /\ rows[r].key = k /\ ~rows[r].due => k \in raced
DoomedIsUnused == \A s \in Sweeps :
  /\ sweeps[s].pc # "objects" => sweeps[s].doomed = {}
  /\ \A k \in sweeps[s].doomed : IsUnused(k)

\* A sweep has decided to keep the object k, and is about to mark the row r as deleted.
Spares(sweep, r, k) ==
  sweep.pc \in {"objects", "rows"} /\ r \in sweep.page /\ k \notin sweep.doomed

\* An object of a retrieval that was reported has one that is there and that no sweep which
\* keeps the object is about to mark.
Stays(r, k) == /\ rows[r].status = "active" /\ rows[r].key = k
               /\ \A s \in Sweeps : ~Spares(sweeps[s], r, k)
ObjectHasKeeper == \A k \in objects \ split :
  (\E r \in Retrievals : rows[r].status # "none" /\ rows[r].key = k)
    => \E r \in Retrievals : Stays(r, k)

\* The inductive invariant.
SnapInv == /\ SnapshotsOK /\ HasKey /\ PagesAreDue /\ DoomedIsUnused /\ ObjectHasKeeper
           /\ Snapshots!SharedObjectIsKept

LEMMA SnapInvInit == ASSUME Snapshots!Init PROVE SnapInv
BY DEF Snapshots!Init, Snapshots!NoRow, Snapshots!Idle, SnapInv, SnapshotsOK, RetrievalType,
   SweepType, HasKey, PagesAreDue, PageIsDue, DoomedIsUnused, IsUnused, ObjectHasKeeper, Stays,
   Snapshots!SharedObjectIsKept

LEMMA SnapshotSteps ==
  ASSUME [Snapshots!Next]_(Snapshots!vars)
  PROVE  \/ \E r \in Retrievals, k \in Keys : Snapshots!ReportRetrieval(r, k)
         \/ \E r \in Retrievals : Snapshots!RetentionPasses(r)
         \/ \E s \in Sweeps : Snapshots!StartSweep(s)
         \/ \E s \in Sweeps : Snapshots!ReadReferences(s)
         \/ \E s \in Sweeps, k \in Keys : Snapshots!DeleteObject(s, k)
         \/ \E s \in Sweeps : Snapshots!ObjectsDeleted(s)
         \/ \E s \in Sweeps : Snapshots!ExpireRows(s)
         \/ \E s \in Sweeps, r \in Retrievals : Snapshots!PublishRow(s, r)
         \/ \E s \in Sweeps : Snapshots!SweepFails(s)
         \/ \E p \in Phones : Snapshots!FollowFeed(p)
         \/ UNCHANGED Snapshots!vars
BY DEF Snapshots!Next

-----------------------------------------------------------------------------
(* What the steps do to the rows and to the sweeps, point by point. *)

LEMMA ReportDoes ==
  ASSUME SnapshotsOK, NEW r \in Retrievals, NEW k \in Keys, Snapshots!ReportRetrieval(r, k)
  PROVE  /\ SnapshotsOK' /\ UNCHANGED <<objects, sweeps, cut, split>>
         /\ rows[r].status = "none" /\ k \in objects
         /\ rows'[r].status = "active" /\ rows'[r].key = k /\ rows'[r].due = FALSE
         /\ \A q \in Retrievals \ {r} : rows'[q] = rows[q]
         /\ raced \subseteq raced'
         /\ \A s \in Sweeps : k \in sweeps[s].doomed => k \in raced'
<1> DEFINE new == [status |-> "active", key |-> k, due |-> FALSE]
<1>1. /\ rows' = [rows EXCEPT ![r] = new] /\ UNCHANGED <<objects, sweeps, cut, split>>
      /\ rows[r].status = "none" /\ k \in objects
      /\ raced' = IF \E s \in Sweeps : k \in sweeps[s].doomed THEN raced \cup {k} ELSE raced
  BY DEF Snapshots!ReportRetrieval
<1>2. new \in RetrievalType
  BY DEF RetrievalType
<1>3. rows' \in [Retrievals -> RetrievalType] /\ rows'[r] = new
      /\ \A q \in Retrievals \ {r} : rows'[q] = rows[q]
  BY <1>1, <1>2 DEF SnapshotsOK
<1> QED BY <1>1, <1>3 DEF SnapshotsOK

LEMMA RetentionDoes ==
  ASSUME SnapshotsOK, NEW r \in Retrievals, Snapshots!RetentionPasses(r)
  PROVE  /\ SnapshotsOK' /\ UNCHANGED <<objects, sweeps, cut, split, raced>>
         /\ rows'[r].status = rows[r].status /\ rows'[r].key = rows[r].key /\ rows'[r].due = TRUE
         /\ rows[r].status = "active"
         /\ \A q \in Retrievals \ {r} : rows'[q] = rows[q]
<1> DEFINE new == [rows[r] EXCEPT !.due = TRUE]
<1>1. /\ rows' = [rows EXCEPT ![r] = new] /\ UNCHANGED <<objects, sweeps, cut, split, raced>>
      /\ rows[r].status = "active"
  BY DEF Snapshots!RetentionPasses
<1>2. /\ new \in RetrievalType /\ new.status = rows[r].status /\ new.key = rows[r].key
      /\ new.due = TRUE
  BY DEF RetrievalType, SnapshotsOK
<1>3. rows' \in [Retrievals -> RetrievalType] /\ rows'[r] = new
      /\ \A q \in Retrievals \ {r} : rows'[q] = rows[q]
  BY <1>1, <1>2 DEF SnapshotsOK
<1> QED BY <1>1, <1>2, <1>3 DEF SnapshotsOK

LEMMA ExpireDoes ==
  ASSUME SnapshotsOK, NEW s \in Sweeps, Snapshots!ExpireRows(s)
  PROVE  /\ SnapshotsOK' /\ UNCHANGED <<objects, cut, split, raced>>
         /\ sweeps[s].pc = "rows" /\ sweeps'[s].pc = "publish"
         /\ sweeps'[s].page = sweeps[s].page /\ sweeps'[s].doomed = sweeps[s].doomed
         /\ sweeps'[s].todo = sweeps[s].page
         /\ \A t \in Sweeps \ {s} : sweeps'[t] = sweeps[t]
         /\ \A r \in Retrievals :
              /\ rows'[r].key = rows[r].key /\ rows'[r].due = rows[r].due
              /\ rows'[r].status = IF r \in sweeps[s].page THEN "deleted" ELSE rows[r].status
<1> DEFINE new(r) == [rows[r] EXCEPT !.status = "deleted"]
           go == [sweeps[s] EXCEPT !.pc = "publish", !.todo = sweeps[s].page]
<1>1. /\ UNCHANGED <<objects, cut, split, raced>> /\ sweeps[s].pc = "rows"
      /\ rows' = [r \in Retrievals |-> IF r \in sweeps[s].page THEN new(r) ELSE rows[r]]
      /\ sweeps' = [sweeps EXCEPT ![s] = go]
  BY DEF Snapshots!ExpireRows
<1>2. \A r \in Retrievals : /\ new(r) \in RetrievalType /\ new(r).status = "deleted"
                            /\ new(r).key = rows[r].key /\ new(r).due = rows[r].due
  BY DEF RetrievalType, SnapshotsOK
<1>3. /\ go \in SweepType /\ go.pc = "publish" /\ go.page = sweeps[s].page
      /\ go.doomed = sweeps[s].doomed /\ go.todo = sweeps[s].page
  BY DEF SweepType, SnapshotsOK
<1> HIDE DEF new, go
<1>4. rows' \in [Retrievals -> RetrievalType]
  BY <1>1, <1>2 DEF SnapshotsOK
<1>5. sweeps' \in [Sweeps -> SweepType] /\ sweeps'[s] = go
      /\ \A t \in Sweeps \ {s} : sweeps'[t] = sweeps[t]
  BY <1>1, <1>3 DEF SnapshotsOK
<1>6. SnapshotsOK'
  BY <1>1, <1>4, <1>5 DEF SnapshotsOK
<1> QED BY <1>1, <1>2, <1>3, <1>5, <1>6

\* The sweep that starts takes a page of what has expired.
LEMMA PageIsExpired ==
  ASSUME SnapshotsOK
  PROVE  /\ Snapshots!Page \subseteq Retrievals
         /\ \A r \in Snapshots!Page : rows[r].status = "active" /\ rows[r].due
BY DEF Snapshots!Page, Snapshots!Expired

LEMMA StartSweepDoes ==
  ASSUME SnapshotsOK, NEW s \in Sweeps, Snapshots!StartSweep(s)
  PROVE  /\ SnapshotsOK' /\ UNCHANGED <<rows, objects, cut, split, raced>>
         /\ sweeps'[s].pc = "refs" /\ sweeps'[s].doomed = {} /\ sweeps'[s].todo = {}
         /\ sweeps[s].pc = "idle"
         /\ \A r \in sweeps'[s].page : rows[r].status = "active" /\ rows[r].due
         /\ \A t \in Sweeps \ {s} : sweeps'[t] = sweeps[t]
<1>1. PICK page : page = Snapshots!Page
  OBVIOUS
<1> DEFINE go == [Snapshots!Idle EXCEPT !.pc = "refs", !.page = page]
<1>2. /\ UNCHANGED <<rows, objects, cut, split, raced>> /\ sweeps[s].pc = "idle"
      /\ sweeps' = [sweeps EXCEPT ![s] = go]
  BY <1>1 DEF Snapshots!StartSweep
<1>3. page \subseteq Retrievals /\ \A r \in page : rows[r].status = "active" /\ rows[r].due
  BY <1>1, PageIsExpired
<1>4. /\ go \in SweepType /\ go.pc = "refs" /\ go.page = page /\ go.doomed = {}
      /\ go.todo = {}
  BY <1>3 DEF SweepType, Snapshots!Idle
<1> HIDE DEF go
<1>5. sweeps' \in [Sweeps -> SweepType] /\ sweeps'[s] = go
      /\ \A t \in Sweeps \ {s} : sweeps'[t] = sweeps[t]
  BY <1>2, <1>4 DEF SnapshotsOK
<1> QED BY <1>2, <1>3, <1>4, <1>5 DEF SnapshotsOK

LEMMA ReadReferencesDoes ==
  ASSUME SnapshotsOK, HasKey, PagesAreDue, NEW s \in Sweeps, Snapshots!ReadReferences(s)
  PROVE  /\ SnapshotsOK' /\ UNCHANGED <<rows, objects, cut, raced>>
         /\ sweeps'[s].pc = "objects" /\ sweeps'[s].page = sweeps[s].page
         /\ sweeps'[s].todo = sweeps[s].todo /\ sweeps[s].pc = "refs"
         /\ sweeps'[s].doomed = {rows[r].key : r \in sweeps[s].page} \ Snapshots!Protected(s)
         /\ split' = split \cup (Snapshots!Protected(s) \cap
              Snapshots!KeysOf((UNION {sweeps[t].page : t \in Sweeps}) \ sweeps[s].page))
         /\ \A t \in Sweeps \ {s} : sweeps'[t] = sweeps[t]
<1> DEFINE doomed == {rows[r].key : r \in sweeps[s].page} \ Snapshots!Protected(s)
           go == [sweeps[s] EXCEPT !.pc = "objects", !.doomed = doomed]
<1>1. /\ UNCHANGED <<rows, objects, cut, raced>> /\ sweeps[s].pc = "refs"
      /\ sweeps' = [sweeps EXCEPT ![s] = go]
      /\ split' = split \cup (Snapshots!Protected(s) \cap
           Snapshots!KeysOf((UNION {sweeps[t].page : t \in Sweeps}) \ sweeps[s].page))
  BY DEF Snapshots!ReadReferences
<1>2. sweeps[s].page \subseteq Retrievals
  BY DEF SnapshotsOK, SweepType
<1>3. doomed \subseteq Keys /\ Snapshots!Protected(s) \subseteq Keys
  BY <1>2 DEF HasKey, PagesAreDue, PageIsDue, Snapshots!Protected, Snapshots!KeysOf
<1> HIDE DEF doomed
<1>4. /\ go \in SweepType /\ go.pc = "objects" /\ go.page = sweeps[s].page
      /\ go.todo = sweeps[s].todo /\ go.doomed = doomed
  BY <1>3 DEF SweepType, SnapshotsOK
<1> HIDE DEF go
<1>5. sweeps' \in [Sweeps -> SweepType] /\ sweeps'[s] = go
      /\ \A t \in Sweeps \ {s} : sweeps'[t] = sweeps[t]
  BY <1>1, <1>4 DEF SnapshotsOK
<1>6. split' \subseteq Keys
  BY <1>1, <1>3 DEF SnapshotsOK
<1>7. SnapshotsOK'
  BY <1>1, <1>5, <1>6 DEF SnapshotsOK
<1> QED BY <1>1, <1>4, <1>5, <1>7 DEF doomed

LEMMA DeleteObjectDoes ==
  ASSUME SnapshotsOK, NEW s \in Sweeps, NEW k \in Keys, Snapshots!DeleteObject(s, k)
  PROVE  /\ SnapshotsOK' /\ UNCHANGED <<rows, cut, split, raced>>
         /\ objects' = objects \ {k} /\ k \in sweeps[s].doomed
         /\ sweeps'[s].pc = sweeps[s].pc /\ sweeps'[s].page = sweeps[s].page
         /\ sweeps'[s].todo = sweeps[s].todo
         /\ sweeps'[s].doomed = sweeps[s].doomed \ {k}
         /\ \A t \in Sweeps \ {s} : sweeps'[t] = sweeps[t]
<1> DEFINE go == [sweeps[s] EXCEPT !.doomed = sweeps[s].doomed \ {k}]
<1>1. /\ UNCHANGED <<rows, cut, split, raced>> /\ k \in sweeps[s].doomed
      /\ objects' = objects \ {k} /\ sweeps' = [sweeps EXCEPT ![s] = go]
  BY DEF Snapshots!DeleteObject
<1>2. /\ go \in SweepType /\ go.pc = sweeps[s].pc /\ go.page = sweeps[s].page
      /\ go.todo = sweeps[s].todo /\ go.doomed = sweeps[s].doomed \ {k}
  BY DEF SweepType, SnapshotsOK
<1> HIDE DEF go
<1>3. sweeps' \in [Sweeps -> SweepType] /\ sweeps'[s] = go
      /\ \A t \in Sweeps \ {s} : sweeps'[t] = sweeps[t]
  BY <1>1, <1>2 DEF SnapshotsOK
<1> QED BY <1>1, <1>2, <1>3 DEF SnapshotsOK

LEMMA ObjectsDeletedDoes ==
  ASSUME SnapshotsOK, NEW s \in Sweeps, Snapshots!ObjectsDeleted(s)
  PROVE  /\ SnapshotsOK' /\ UNCHANGED <<rows, objects, cut, split, raced>>
         /\ sweeps[s].pc = "objects" /\ sweeps[s].doomed = {}
         /\ sweeps'[s].pc = "rows" /\ sweeps'[s].page = sweeps[s].page
         /\ sweeps'[s].todo = sweeps[s].todo /\ sweeps'[s].doomed = sweeps[s].doomed
         /\ \A t \in Sweeps \ {s} : sweeps'[t] = sweeps[t]
<1> DEFINE go == [sweeps[s] EXCEPT !.pc = "rows"]
<1>1. /\ UNCHANGED <<rows, objects, cut, split, raced>> /\ sweeps' = [sweeps EXCEPT ![s] = go]
      /\ sweeps[s].pc = "objects" /\ sweeps[s].doomed = {}
  BY DEF Snapshots!ObjectsDeleted, Snapshots!SweepAt
<1>2. /\ go \in SweepType /\ go.pc = "rows" /\ go.page = sweeps[s].page
      /\ go.todo = sweeps[s].todo /\ go.doomed = sweeps[s].doomed
  BY DEF SweepType, SnapshotsOK
<1> HIDE DEF go
<1>3. sweeps' \in [Sweeps -> SweepType] /\ sweeps'[s] = go
      /\ \A t \in Sweeps \ {s} : sweeps'[t] = sweeps[t]
  BY <1>1, <1>2 DEF SnapshotsOK
<1> QED BY <1>1, <1>2, <1>3 DEF SnapshotsOK

\* A sweep that publishes, or is over, is not about to mark or to delete anything.
LEMMA SweepEnds ==
  ASSUME SnapshotsOK, NEW s \in Sweeps, sweeps' = [sweeps EXCEPT ![s] = Snapshots!Idle]
  PROVE  /\ sweeps' \in [Sweeps -> SweepType]
         /\ sweeps'[s].pc = "idle" /\ sweeps'[s].page = {} /\ sweeps'[s].doomed = {}
         /\ sweeps'[s].todo = {}
         /\ \A t \in Sweeps \ {s} : sweeps'[t] = sweeps[t]
BY DEF SnapshotsOK, Snapshots!Idle, SweepType

LEMMA PublishDoes ==
  ASSUME SnapshotsOK, NEW s \in Sweeps, NEW r \in Retrievals, Snapshots!PublishRow(s, r)
  PROVE  /\ SnapshotsOK' /\ UNCHANGED <<rows, objects, cut, split, raced>>
         /\ sweeps[s].pc = "publish" /\ r \in sweeps[s].todo
         /\ sweeps'[s].todo = sweeps[s].todo \ {r}
         /\ \/ sweeps'[s].pc = "idle" /\ sweeps'[s].page = {} /\ sweeps'[s].doomed = {}
            \/ /\ sweeps'[s].pc = "publish" /\ sweeps'[s].page = sweeps[s].page
               /\ sweeps'[s].doomed = sweeps[s].doomed
         /\ \A t \in Sweeps \ {s} : sweeps'[t] = sweeps[t]
<1>1. /\ UNCHANGED <<rows, objects, cut, split, raced>>
      /\ sweeps[s].pc = "publish" /\ r \in sweeps[s].todo
  BY DEF Snapshots!PublishRow
<1>2. CASE sweeps[s].todo = {r}
  <2>1. sweeps' = [sweeps EXCEPT ![s] = Snapshots!Idle]
    BY <1>2 DEF Snapshots!PublishRow
  <2> QED BY <1>1, <1>2, <2>1, SweepEnds DEF SnapshotsOK
<1>3. CASE sweeps[s].todo # {r}
  <2> DEFINE go == [sweeps[s] EXCEPT !.todo = sweeps[s].todo \ {r}]
  <2>1. sweeps' = [sweeps EXCEPT ![s] = go]
    BY <1>3 DEF Snapshots!PublishRow
  <2>2. /\ go \in SweepType /\ go.pc = sweeps[s].pc /\ go.page = sweeps[s].page
        /\ go.todo = sweeps[s].todo \ {r} /\ go.doomed = sweeps[s].doomed
    BY DEF SweepType, SnapshotsOK
  <2> HIDE DEF go
  <2>3. sweeps' \in [Sweeps -> SweepType] /\ sweeps'[s] = go
        /\ \A t \in Sweeps \ {s} : sweeps'[t] = sweeps[t]
    BY <2>1, <2>2 DEF SnapshotsOK
  <2> QED BY <1>1, <2>2, <2>3 DEF SnapshotsOK
<1> QED BY <1>2, <1>3

LEMMA FailureDoes ==
  ASSUME SnapshotsOK, NEW s \in Sweeps, Snapshots!SweepFails(s)
  PROVE  /\ SnapshotsOK' /\ UNCHANGED <<rows, objects, split, raced>>
         /\ cut' = cut \cup sweeps[s].todo
         /\ sweeps'[s].pc = "idle" /\ sweeps'[s].page = {} /\ sweeps'[s].doomed = {}
         /\ sweeps'[s].todo = {}
         /\ \A t \in Sweeps \ {s} : sweeps'[t] = sweeps[t]
<1>1. /\ UNCHANGED <<rows, objects, split, raced>> /\ cut' = cut \cup sweeps[s].todo
      /\ sweeps' = [sweeps EXCEPT ![s] = Snapshots!Idle]
  BY DEF Snapshots!SweepFails
<1>2. sweeps[s].todo \subseteq Retrievals
  BY DEF SnapshotsOK, SweepType
<1> QED BY <1>1, <1>2, SweepEnds DEF SnapshotsOK

-----------------------------------------------------------------------------
\* A step of one sweep that leaves the rows and the objects: right when it knows what it
\* is to mark, and spares no more than before.
LEMMA SweepMoves ==
  ASSUME SnapInv, SnapshotsOK', UNCHANGED <<rows, objects, split, raced>>, NEW s \in Sweeps,
         \A t \in Sweeps \ {s} : sweeps'[t] = sweeps[t],
         PageIsDue(sweeps'[s].page),
         sweeps'[s].pc # "objects" => sweeps'[s].doomed = {},
         sweeps'[s].doomed \subseteq sweeps[s].doomed,
         \A r \in Retrievals, k \in Keys :
           Spares(sweeps'[s], r, k) => Spares(sweeps[s], r, k)
  PROVE  SnapInv'
<1>1. HasKey' /\ PagesAreDue' /\ Snapshots!SharedObjectIsKept'
  BY DEF SnapInv, HasKey, PagesAreDue, PageIsDue, Snapshots!SharedObjectIsKept
<1>2. DoomedIsUnused'
  BY DEF SnapInv, DoomedIsUnused, IsUnused
<1>3. \A r \in Retrievals, k \in Keys : Stays(r, k) => Stays(r, k)'
  BY DEF Stays
<1>4. ObjectHasKeeper'
  BY <1>3 DEF SnapInv, SnapshotsOK, ObjectHasKeeper
<1> QED BY <1>1, <1>2, <1>4 DEF SnapInv

LEMMA ReportKeepsSnap ==
  ASSUME SnapInv, NEW q \in Retrievals, NEW k \in Keys, Snapshots!ReportRetrieval(q, k)
  PROVE  SnapInv'
<1>0. SnapshotsOK /\ HasKey /\ PagesAreDue /\ DoomedIsUnused /\ ObjectHasKeeper
      /\ Snapshots!SharedObjectIsKept
  BY DEF SnapInv
<1>1. /\ SnapshotsOK' /\ UNCHANGED <<objects, sweeps, cut, split>>
      /\ rows[q].status = "none" /\ k \in objects
      /\ rows'[q].status = "active" /\ rows'[q].key = k /\ rows'[q].due = FALSE
      /\ \A r \in Retrievals \ {q} : rows'[r] = rows[r]
      /\ raced \subseteq raced'
      /\ \A s \in Sweeps : k \in sweeps[s].doomed => k \in raced'
  BY <1>0, ReportDoes
<1>2. HasKey' /\ Snapshots!SharedObjectIsKept'
  BY <1>0, <1>1 DEF HasKey, Snapshots!SharedObjectIsKept
<1>3. \A s \in Sweeps : sweeps[s].page \subseteq Retrievals \ {q}
  BY <1>0, <1>1 DEF PagesAreDue, PageIsDue, SnapshotsOK, SweepType
<1>4. PagesAreDue'
  BY <1>0, <1>1, <1>3 DEF PagesAreDue, PageIsDue
<1>5. DoomedIsUnused'
  BY <1>0, <1>1 DEF DoomedIsUnused, IsUnused
<1>6. Stays(q, k)'
  BY <1>1, <1>3 DEF Stays, Spares
<1>7. \A r \in Retrievals \ {q}, l \in Keys : Stays(r, l) => Stays(r, l)'
  BY <1>1 DEF Stays
<1>8. ObjectHasKeeper'
  <2> SUFFICES ASSUME NEW l \in objects' \ split', NEW r \in Retrievals,
                      rows'[r].status # "none", rows'[r].key = l
               PROVE  \E u \in Retrievals : Stays(u, l)'
    BY DEF ObjectHasKeeper
  <2>1. l \in objects \ split /\ l \in Keys
    BY <1>0, <1>1 DEF SnapshotsOK
  <2>2. CASE r = q
    BY <2>2, <1>1, <1>6
  <2>3. CASE r # q
    <3>1. PICK u \in Retrievals : Stays(u, l)
      BY <1>0, <1>1, <2>1, <2>3 DEF ObjectHasKeeper
    <3>2. u # q
      BY <1>1, <3>1 DEF Stays
    <3> QED BY <1>7, <2>1, <3>1, <3>2
  <2> QED BY <2>2, <2>3
<1> QED BY <1>1, <1>2, <1>4, <1>5, <1>8 DEF SnapInv

LEMMA RetentionKeepsSnap ==
  ASSUME SnapInv, NEW q \in Retrievals, Snapshots!RetentionPasses(q)
  PROVE  SnapInv'
<1>0. SnapshotsOK /\ HasKey /\ PagesAreDue /\ DoomedIsUnused /\ ObjectHasKeeper
      /\ Snapshots!SharedObjectIsKept
  BY DEF SnapInv
<1>1. /\ SnapshotsOK' /\ UNCHANGED <<objects, sweeps, cut, split, raced>>
      /\ \A r \in Retrievals : /\ rows'[r].status = rows[r].status /\ rows'[r].key = rows[r].key
                               /\ rows[r].due => rows'[r].due
  BY <1>0, RetentionDoes DEF SnapshotsOK, RetrievalType
<1>2. HasKey' /\ Snapshots!SharedObjectIsKept'
  BY <1>0, <1>1 DEF HasKey, Snapshots!SharedObjectIsKept
<1>3. PagesAreDue'
  BY <1>0, <1>1 DEF PagesAreDue, PageIsDue, SnapshotsOK, SweepType
<1>4. DoomedIsUnused'
  BY <1>0, <1>1 DEF DoomedIsUnused, IsUnused
<1>5. \A r \in Retrievals, k \in Keys : Stays(r, k) => Stays(r, k)'
  BY <1>1 DEF Stays
<1>6. ObjectHasKeeper'
  BY <1>0, <1>1, <1>5 DEF ObjectHasKeeper, SnapshotsOK
<1> QED BY <1>1, <1>2, <1>3, <1>4, <1>6 DEF SnapInv

LEMMA ReferencesKeepSnap ==
  ASSUME SnapInv, NEW s \in Sweeps, Snapshots!ReadReferences(s)
  PROVE  SnapInv'
<1>0. SnapshotsOK /\ HasKey /\ PagesAreDue /\ DoomedIsUnused /\ ObjectHasKeeper
      /\ Snapshots!SharedObjectIsKept
  BY DEF SnapInv
<1> DEFINE others == (UNION {sweeps[t].page : t \in Sweeps}) \ sweeps[s].page
<1>1. /\ SnapshotsOK' /\ UNCHANGED <<rows, objects, cut, raced>>
      /\ sweeps'[s].pc = "objects" /\ sweeps'[s].page = sweeps[s].page
      /\ sweeps'[s].doomed = {rows[r].key : r \in sweeps[s].page} \ Snapshots!Protected(s)
      /\ split' = split \cup (Snapshots!Protected(s) \cap Snapshots!KeysOf(others))
      /\ \A t \in Sweeps \ {s} : sweeps'[t] = sweeps[t]
  BY <1>0, ReadReferencesDoes
<1>2. HasKey' /\ Snapshots!SharedObjectIsKept' /\ PagesAreDue'
  BY <1>0, <1>1 DEF HasKey, Snapshots!SharedObjectIsKept, PagesAreDue, PageIsDue
<1>3. \A k \in sweeps'[s].doomed, r \in Retrievals :
        rows[r].status = "active" /\ rows[r].key = k => r \in sweeps[s].page
  BY <1>1 DEF Snapshots!Protected, Snapshots!KeysOf
<1>4. \A k \in sweeps'[s].doomed : IsUnused(k)'
  BY <1>0, <1>1, <1>3 DEF IsUnused, PagesAreDue, PageIsDue
<1>5. DoomedIsUnused'
  BY <1>0, <1>1, <1>4 DEF DoomedIsUnused, IsUnused
<1>6. ObjectHasKeeper'
  <2> SUFFICES ASSUME NEW k \in objects' \ split', NEW r \in Retrievals,
                      rows'[r].status # "none", rows'[r].key = k
               PROVE  \E u \in Retrievals : Stays(u, k)'
    BY DEF ObjectHasKeeper
  <2>1. k \in objects \ split /\ ~(k \in Snapshots!Protected(s) /\ k \in Snapshots!KeysOf(others))
    BY <1>1
  <2>2. PICK w \in Retrievals : Stays(w, k)
    BY <1>0, <1>1, <2>1 DEF ObjectHasKeeper
  <2>3. CASE w \notin sweeps[s].page \/ k \in sweeps'[s].doomed
    BY <1>1, <2>2, <2>3 DEF Stays, Spares
  <2>4. CASE w \in sweeps[s].page /\ k \notin sweeps'[s].doomed
    <3>1. k \in Snapshots!Protected(s)
      BY <1>1, <2>2, <2>4 DEF Stays
    <3>2. PICK v \in Retrievals \ sweeps[s].page : rows[v].status = "active" /\ rows[v].key = k
      BY <3>1 DEF Snapshots!Protected, Snapshots!KeysOf
    <3>3. v \notin others
      BY <2>1, <3>1, <3>2 DEF Snapshots!KeysOf
    <3>4. \A t \in Sweeps : v \notin sweeps[t].page
      BY <3>2, <3>3
    <3>5. \A t \in Sweeps : v \notin sweeps'[t].page
      BY <1>1, <3>4
    <3> QED BY <1>1, <3>2, <3>5 DEF Stays, Spares
  <2> QED BY <2>3, <2>4
<1> QED BY <1>1, <1>2, <1>5, <1>6 DEF SnapInv

LEMMA DeletionKeepsSnap ==
  ASSUME SnapInv, NEW s \in Sweeps, NEW k \in Keys, Snapshots!DeleteObject(s, k)
  PROVE  SnapInv'
<1>0. SnapshotsOK /\ HasKey /\ PagesAreDue /\ DoomedIsUnused /\ ObjectHasKeeper
      /\ Snapshots!SharedObjectIsKept
  BY DEF SnapInv
<1>1. /\ SnapshotsOK' /\ UNCHANGED <<rows, cut, split, raced>>
      /\ objects' = objects \ {k} /\ k \in sweeps[s].doomed
      /\ sweeps'[s].pc = sweeps[s].pc /\ sweeps'[s].page = sweeps[s].page
      /\ sweeps'[s].doomed = sweeps[s].doomed \ {k}
      /\ \A t \in Sweeps \ {s} : sweeps'[t] = sweeps[t]
  BY <1>0, DeleteObjectDoes
<1>2. HasKey' /\ PagesAreDue'
  BY <1>0, <1>1 DEF HasKey, PagesAreDue, PageIsDue
<1>3. IsUnused(k)
  BY <1>0, <1>1 DEF DoomedIsUnused
<1>4. Snapshots!SharedObjectIsKept'
  BY <1>0, <1>1, <1>3 DEF Snapshots!SharedObjectIsKept, IsUnused
<1>5. DoomedIsUnused'
  BY <1>0, <1>1 DEF DoomedIsUnused, IsUnused
<1>6. \A r \in Retrievals, l \in Keys \ {k} : Stays(r, l) => Stays(r, l)'
  BY <1>1 DEF Stays, Spares
<1>7. ObjectHasKeeper'
  BY <1>0, <1>1, <1>6 DEF ObjectHasKeeper, SnapshotsOK
<1> QED BY <1>1, <1>2, <1>4, <1>5, <1>7 DEF SnapInv

LEMMA ExpiryKeepsSnap ==
  ASSUME SnapInv, NEW s \in Sweeps, Snapshots!ExpireRows(s)
  PROVE  SnapInv'
<1>0. SnapshotsOK /\ HasKey /\ PagesAreDue /\ DoomedIsUnused /\ ObjectHasKeeper
      /\ Snapshots!SharedObjectIsKept
  BY DEF SnapInv
<1>1. /\ SnapshotsOK' /\ UNCHANGED <<objects, cut, split, raced>>
      /\ sweeps[s].pc = "rows" /\ sweeps'[s].pc = "publish"
      /\ sweeps'[s].page = sweeps[s].page /\ sweeps'[s].doomed = sweeps[s].doomed
      /\ \A t \in Sweeps \ {s} : sweeps'[t] = sweeps[t]
      /\ \A r \in Retrievals :
           /\ rows'[r].key = rows[r].key /\ rows'[r].due = rows[r].due
           /\ rows'[r].status = IF r \in sweeps[s].page THEN "deleted" ELSE rows[r].status
  BY <1>0, ExpireDoes
<1>2. \A r \in Retrievals : /\ rows'[r].status = "none" <=> rows[r].status = "none"
                            /\ rows'[r].status = "active" => rows[r].status = "active"
  BY <1>0, <1>1 DEF PagesAreDue, PageIsDue
<1>3. HasKey' /\ Snapshots!SharedObjectIsKept'
  BY <1>0, <1>1, <1>2 DEF HasKey, Snapshots!SharedObjectIsKept
<1>4. PagesAreDue'
  <2>1. \A t \in Sweeps : sweeps'[t].page = sweeps[t].page /\ sweeps[t].page \subseteq Retrievals
    BY <1>0, <1>1 DEF SnapshotsOK, SweepType
  <2> QED BY <1>0, <1>1, <1>2, <2>1 DEF PagesAreDue, PageIsDue
<1>5. DoomedIsUnused'
  BY <1>0, <1>1, <1>2 DEF DoomedIsUnused, IsUnused
<1>6. \A r \in Retrievals, k \in Keys : Stays(r, k) => Stays(r, k)'
  <2> SUFFICES ASSUME NEW r \in Retrievals, NEW k \in Keys, Stays(r, k)
               PROVE  Stays(r, k)'
    OBVIOUS
  <2>1. sweeps[s].doomed = {}
    BY <1>0, <1>1 DEF DoomedIsUnused
  <2>2. r \notin sweeps[s].page
    BY <1>1, <2>1 DEF Stays, Spares
  <2> QED BY <1>1, <2>2 DEF Stays, Spares
<1>7. ObjectHasKeeper'
  BY <1>0, <1>1, <1>2, <1>6 DEF ObjectHasKeeper, SnapshotsOK
<1> QED BY <1>1, <1>3, <1>4, <1>5, <1>7 DEF SnapInv

LEMMA SnapInvStep == ASSUME SnapInv, [Snapshots!Next]_(Snapshots!vars) PROVE SnapInv'
<1>0. SnapshotsOK /\ PagesAreDue /\ DoomedIsUnused
  BY DEF SnapInv
<1>1. ASSUME UNCHANGED <<rows, objects, sweeps, cut, raced, split>> PROVE SnapInv'
  BY <1>1 DEF SnapInv, SnapshotsOK, HasKey, PagesAreDue, PageIsDue, DoomedIsUnused, IsUnused,
     ObjectHasKeeper, Stays, Snapshots!SharedObjectIsKept
<1>2. ASSUME NEW s \in Sweeps, Snapshots!StartSweep(s) PROVE SnapInv'
  BY <1>0, <1>2, StartSweepDoes, SweepMoves DEF PageIsDue, Spares
<1>3. ASSUME NEW s \in Sweeps, Snapshots!ObjectsDeleted(s) PROVE SnapInv'
  BY <1>0, <1>3, ObjectsDeletedDoes, SweepMoves DEF PagesAreDue, Spares
<1>4. ASSUME NEW s \in Sweeps, NEW r \in Retrievals, Snapshots!PublishRow(s, r) PROVE SnapInv'
  BY <1>0, <1>4, PublishDoes, SweepMoves DEF PagesAreDue, PageIsDue, DoomedIsUnused, Spares
<1>5. ASSUME NEW s \in Sweeps, Snapshots!SweepFails(s) PROVE SnapInv'
  BY <1>0, <1>5, FailureDoes, SweepMoves DEF PageIsDue, Spares
<1>6. ASSUME NEW p \in Phones, Snapshots!FollowFeed(p) PROVE SnapInv'
  BY <1>1, <1>6 DEF Snapshots!FollowFeed
<1>7. CASE UNCHANGED Snapshots!vars
  BY <1>1, <1>7 DEF Snapshots!vars
<1> QED BY <1>2, <1>3, <1>4, <1>5, <1>6, <1>7, ReportKeepsSnap, RetentionKeepsSnap,
           ReferencesKeepSnap, DeletionKeepsSnap, ExpiryKeepsSnap, SnapshotSteps

\* A step of another part leaves the retrievals as they are.
LEMMA SnapshotsGo ==
  [Next]_vars => [Snapshots!Next]_(Snapshots!vars) \/ UNCHANGED snapshotsVars
  BY DEF Next, Only, vars, snapshotsVars, Snapshots!vars

LEMMA SnapInvariant == Spec => []SnapInv
<1>1. Init => SnapInv
  BY SnapInvInit DEF Init
<1>2. SnapInv /\ [Next]_vars => SnapInv'
  <2>1. SnapInv /\ UNCHANGED snapshotsVars => SnapInv'
    BY DEF snapshotsVars, SnapInv, SnapshotsOK, HasKey, PagesAreDue, PageIsDue, DoomedIsUnused,
       IsUnused, ObjectHasKeeper, Stays, Snapshots!SharedObjectIsKept
  <2> QED BY <2>1, SnapshotsGo, SnapInvStep
<1> QED BY <1>1, <1>2, PTL DEF Spec

\* A snapshot is stored as long as a retrieval refers to it, and no longer, but for the two
\* races the property names (history.rs, delete_r2_objects and expire_retrieval_rows).
THEOREM SnapshotsMatchRowsCorrect == Spec => []SnapshotsMatchRows
<1>1. SnapInv => SnapshotsMatchRows
  <2> SUFFICES ASSUME SnapInv PROVE Snapshots!NoOrphanObject
    BY DEF SnapInv, SnapshotsMatchRows, Snapshots!SnapshotsMatchRows
  <2> SUFFICES ASSUME NEW r \in Retrievals, rows[r].status = "deleted", rows[r].key \in objects,
                      rows[r].key \notin split
               PROVE  rows[r].key \in Snapshots!KeysOf(Retrievals)
    BY DEF Snapshots!NoOrphanObject
  <2>1. PICK u \in Retrievals : Stays(u, rows[r].key)
    BY DEF SnapInv, ObjectHasKeeper
  <2> QED BY <2>1 DEF Stays, Snapshots!KeysOf
<1> QED BY <1>1, SnapInvariant, PTL

-----------------------------------------------------------------------------
(* Feed: what holds of the changes and of the phones, whoever publishes. *)

Changes == INSTANCE Feed WITH Limit <- FeedLimit

\* The change is among the first n of the feed.
Within(n, i, gone) == \E l \in 1..n : feed[l] = Changes!Change(i, gone)
Published(i, gone) == Within(Len(feed), i, gone)

\* A phone holds what was inserted and, as far as it has read, is not gone.
HoldsTrue == \A p \in Phones : \A i \in phones[p].holds :
  Published(i, FALSE) /\ ~Within(phones[p].cursor, i, TRUE)

\* A phone holds, of what is there, all it has read of.
HoldsAll(there) == \A p \in Phones : \A i \in there :
  Within(phones[p].cursor, i, FALSE) => i \in phones[p].holds

\* What can be fetched was inserted and is not gone.
IsThere(there) == \A i \in there : Published(i, FALSE) /\ ~Published(i, TRUE)

FeedInv(items, there) ==
  Changes!FeedOK(items) /\ HoldsTrue /\ HoldsAll(there) /\ IsThere(there)

ChangeType(items) == [item : items, gone : BOOLEAN]

LEMMA MinOfTwo ==
  ASSUME NEW a \in Int, NEW b \in Int
  PROVE  Changes!Min({a, b}) \in {a, b} /\ Changes!Min({a, b}) <= a /\ Changes!Min({a, b}) <= b
<1>1. \E x \in {a, b} : \A y \in {a, b} : x <= y
  BY a <= b \/ b <= a
<1> QED BY <1>1 DEF Changes!Min

LEMMA FeedTypes ==
  ASSUME NEW items, Changes!FeedOK(items)
  PROVE  /\ Len(feed) \in Nat /\ feed \in Seq(ChangeType(items)) /\ DOMAIN feed = 1..Len(feed)
         /\ \A l \in 1..Len(feed) : feed[l] \in ChangeType(items)
         /\ \A p \in Phones : phones[p].cursor \in 0..Len(feed) /\ phones[p].holds \subseteq items
<1>1. /\ feed \in Seq(ChangeType(items))
      /\ phones \in [Phones -> [cursor : 0..Len(feed), holds : SUBSET items]]
  BY DEF Changes!FeedOK, ChangeType
<1>2. \A p \in Phones : phones[p].cursor \in 0..Len(feed) /\ phones[p].holds \subseteq items
  BY <1>1
<1> HIDE DEF ChangeType
<1>3. PICK T : T = ChangeType(items)
  OBVIOUS
<1>4. /\ Len(feed) \in Nat /\ DOMAIN feed = 1..Len(feed)
      /\ \A l \in 1..Len(feed) : feed[l] \in T
  BY <1>1, <1>3
<1> QED BY <1>1, <1>2, <1>3, <1>4

\* What a phone holds after it has read a page.
\* The phone p has read up to a position, given what was there when it fetched.
ReadUpTo(p, there, upto) ==
  LET page == phones[p].cursor + 1..upto IN
  /\ \A q \in Phones \ {p} : phones'[q] = phones[q]
  /\ phones'[p].cursor = upto
  /\ \A i \in phones'[p].holds :
       (i \in phones[p].holds /\ \A l \in page : feed[l].item # i) \/ i \in there
  /\ \A i \in there :
       /\ \A l \in page : feed[l] # Changes!Change(i, TRUE)
       /\ i \in phones[p].holds \/ \E l \in page : feed[l].item = i
       => i \in phones'[p].holds

LEMMA SyncDoes ==
  ASSUME NEW items, NEW there, Changes!FeedOK(items), NEW p \in Phones, Changes!Sync(p, there)
  PROVE  /\ feed' = feed /\ Changes!FeedOK(items)'
         /\ \E upto \in phones[p].cursor..Len(feed) : ReadUpTo(p, there, upto)
<1> DEFINE cursor == phones[p].cursor
           upto == Changes!Min({Len(feed), cursor + FeedLimit})
           page == cursor + 1..upto
           read == {feed[l].item : l \in page}
           last == {l \in page : \A m \in page : feed[m].item = feed[l].item => m <= l}
           gone == {feed[l].item : l \in {m \in last : feed[m].gone}}
           holds == (phones[p].holds \ read) \cup ((read \cap there) \ gone)
           new == [cursor |-> upto, holds |-> holds]
<1>1. feed' = feed /\ phones' = [phones EXCEPT ![p] = new]
  BY DEF Changes!Sync, Changes!CursorAfter
<1>2. /\ Len(feed) \in Nat /\ cursor \in 0..Len(feed) /\ phones[p].holds \subseteq items
      /\ \A l \in 1..Len(feed) : feed[l] \in ChangeType(items)
  BY FeedTypes
<1>3. upto \in cursor..Len(feed)
  <2>1. cursor + FeedLimit \in Int /\ cursor <= cursor + FeedLimit /\ cursor <= Len(feed)
    BY <1>2, FeedAssumption
  <2>2. /\ upto \in {Len(feed), cursor + FeedLimit} /\ upto <= Len(feed)
    <3>1. PICK m, n : m = Len(feed) /\ n = cursor + FeedLimit
      OBVIOUS
    <3>2. m \in Int /\ n \in Int /\ upto = Changes!Min({m, n})
      BY <1>2, <2>1, <3>1
    <3> HIDE DEF upto
    <3> QED BY <3>1, <3>2, MinOfTwo
  <2> HIDE DEF upto, cursor
  <2> QED BY <1>2, <2>1, <2>2
<1> HIDE DEF upto
<1>4. \A l \in page : l \in 1..Len(feed) /\ feed[l] \in ChangeType(items)
  BY <1>2, <1>3
<1> HIDE DEF page
<1>5. read \subseteq items
  BY <1>4 DEF ChangeType
<1>6. \A i \in gone : \E l \in page : feed[l] = Changes!Change(i, TRUE)
  BY <1>4 DEF ChangeType, Changes!Change
<1> HIDE DEF gone, read
<1>7. holds \subseteq items
  BY <1>2, <1>5
<1>8. \A i \in holds : (i \in phones[p].holds /\ i \notin read) \/ i \in there
  OBVIOUS
<1>9. \A i \in there : i \notin gone /\ (i \in phones[p].holds \/ i \in read) => i \in holds
  OBVIOUS
<1> HIDE DEF holds
<1>10. new \in [cursor : 0..Len(feed), holds : SUBSET items]
  BY <1>2, <1>3, <1>7
<1>11. phones' \in [Phones -> [cursor : 0..Len(feed), holds : SUBSET items]]
  BY <1>1, <1>10 DEF Changes!FeedOK
<1>12. Changes!FeedOK(items)'
  BY <1>1, <1>11 DEF Changes!FeedOK
<1>13. phones'[p] = new /\ \A q \in Phones \ {p} : phones'[q] = phones[q]
  BY <1>1 DEF Changes!FeedOK
<1>14. phones'[p].cursor = upto /\ phones'[p].holds = holds
  BY <1>13
<1>15. \A i : i \in read <=> \E l \in page : feed[l].item = i
  BY DEF read
<1>16. \A i \in there : (\A l \in page : feed[l] # Changes!Change(i, TRUE)) => i \notin gone
  BY <1>6
<1>17. /\ \A i \in phones'[p].holds :
             (i \in phones[p].holds /\ \A l \in page : feed[l].item # i) \/ i \in there
       /\ \A i \in there :
             /\ \A l \in page : feed[l] # Changes!Change(i, TRUE)
             /\ i \in phones[p].holds \/ \E l \in page : feed[l].item = i
             => i \in phones'[p].holds
  BY <1>8, <1>9, <1>14, <1>15, <1>16
<1>18. ReadUpTo(p, there, upto)
  BY <1>13, <1>14, <1>17 DEF page, ReadUpTo
<1> QED BY <1>1, <1>3, <1>12, <1>18

LEMMA SyncKeeps ==
  ASSUME NEW items, NEW there, FeedInv(items, there), NEW p \in Phones, Changes!Sync(p, there)
  PROVE  FeedInv(items, there)'
<1>1. Changes!FeedOK(items)
  BY DEF FeedInv
<1>A. feed' = feed /\ Changes!FeedOK(items)'
  BY <1>1, SyncDoes
<1>2. PICK upto \in phones[p].cursor..Len(feed) : ReadUpTo(p, there, upto)
  BY <1>1, SyncDoes
<1>3. PICK cursor : cursor = phones[p].cursor
  OBVIOUS
<1>4. cursor \in 0..Len(feed) /\ Len(feed) \in Nat /\ upto \in cursor..Len(feed)
  BY <1>1, <1>3, FeedTypes
<1>5. \A l \in 1..upto : l \in 1..cursor \/ l \in cursor + 1..upto
  BY <1>4
<1>6. \A l \in cursor + 1..upto : l \in 1..Len(feed)
  BY <1>4
<1>7. \A l \in 1..upto : l \in 1..Len(feed)
  BY <1>4
<1>8. \A i, gone : Changes!Change(i, gone).item = i
  BY DEF Changes!Change
<1>9. IsThere(there)'
  BY <1>A DEF FeedInv, IsThere, Published, Within
<1>10. ASSUME NEW i \in phones'[p].holds
       PROVE  Published(i, FALSE) /\ ~Within(upto, i, TRUE)
  <2>1. CASE i \in there
    BY <1>7, <2>1 DEF FeedInv, IsThere, Published, Within
  <2>2. CASE i \in phones[p].holds /\ \A l \in cursor + 1..upto : feed[l].item # i
    <3>1. Published(i, FALSE) /\ ~Within(cursor, i, TRUE)
      BY <1>3, <2>2 DEF FeedInv, HoldsTrue
    <3> QED BY <1>5, <1>8, <2>2, <3>1 DEF Within
  <2> QED BY <1>2, <1>3, <2>1, <2>2 DEF ReadUpTo
<1>11. ASSUME NEW i \in there, Within(upto, i, FALSE)
       PROVE  i \in phones'[p].holds
  <2>1. \A l \in cursor + 1..upto : feed[l] # Changes!Change(i, TRUE)
    BY <1>6 DEF FeedInv, IsThere, Published, Within
  <2>2. i \in phones[p].holds \/ \E l \in cursor + 1..upto : feed[l].item = i
    <3>1. PICK l \in 1..upto : feed[l] = Changes!Change(i, FALSE)
      BY <1>11 DEF Within
    <3>2. CASE l \in 1..cursor
      BY <1>3, <3>1, <3>2 DEF FeedInv, HoldsAll, Within
    <3>3. CASE l \in cursor + 1..upto
      BY <1>8, <3>1, <3>3
    <3> QED BY <1>5, <3>2, <3>3
  <2> QED BY <1>2, <1>3, <2>1, <2>2 DEF ReadUpTo
<1>12. phones'[p].cursor = upto /\ \A q \in Phones \ {p} : phones'[q] = phones[q]
  BY <1>2 DEF ReadUpTo
<1>13. ASSUME NEW q \in Phones, NEW i \in phones'[q].holds
       PROVE  Published(i, FALSE) /\ ~Within(phones'[q].cursor, i, TRUE)
  <2>1. CASE q = p
    BY <1>10, <1>12, <2>1
  <2>2. CASE q # p
    BY <1>12, <2>2 DEF FeedInv, HoldsTrue
  <2> QED BY <2>1, <2>2
<1>14. ASSUME NEW q \in Phones, NEW i \in there, Within(phones'[q].cursor, i, FALSE)
       PROVE  i \in phones'[q].holds
  <2>1. CASE q = p
    BY <1>11, <1>12, <1>14, <2>1
  <2>2. CASE q # p
    BY <1>12, <1>14, <2>2 DEF FeedInv, HoldsAll
  <2> QED BY <2>1, <2>2
<1>15. HoldsTrue'
  BY <1>A, <1>13 DEF HoldsTrue, Published, Within
<1>16. HoldsAll(there)'
  BY <1>A, <1>14 DEF HoldsAll, Within
<1> QED BY <1>A, <1>9, <1>15, <1>16 DEF FeedInv

-----------------------------------------------------------------------------
\* The feed grows, or stays as it is.
Grows == /\ Len(feed) <= Len(feed') /\ \A l \in 1..Len(feed) : feed'[l] = feed[l]

\* Changes that are published leave the phones as they are; what can be fetched now and
\* could not be before is new to all of them.
LEMMA GrowthKeeps ==
  ASSUME NEW items, NEW there, NEW there2, FeedInv(items, there),
         Grows, UNCHANGED phones, Changes!FeedOK(items)', IsThere(there2)',
         \A i \in there2 : i \in there \/ ~Published(i, FALSE)
  PROVE  FeedInv(items, there2)'
<1>0. Changes!FeedOK(items)
  BY DEF FeedInv
<1>1. Len(feed) \in Nat /\ Len(feed') \in Nat
  BY <1>0, FeedTypes DEF Changes!FeedOK
<1>2. \A l \in 1..Len(feed) : l \in 1..Len(feed')
  BY <1>1 DEF Grows
<1>3. \A p \in Phones : \A l \in 1..phones[p].cursor : l \in 1..Len(feed)
  BY <1>0, <1>1, FeedTypes
<1>4. \A i, gone : Published(i, gone) => Published(i, gone)'
  BY <1>2 DEF Grows, Published, Within
<1>5. \A p \in Phones : \A i, gone :
        Within(phones[p].cursor, i, gone)' <=> Within(phones[p].cursor, i, gone)
  BY <1>3 DEF Grows, Within
<1>6. \A p \in Phones : \A i, gone :
        Within(phones[p].cursor, i, gone) => Published(i, gone)
  BY <1>3 DEF Within, Published
<1>7. HoldsTrue'
  BY <1>4, <1>5 DEF FeedInv, HoldsTrue
<1>8. HoldsAll(there2)'
  BY <1>5, <1>6 DEF FeedInv, HoldsAll
<1> QED BY <1>7, <1>8 DEF FeedInv

\* A statement that publishes one change.
LEMMA AppendDoes ==
  ASSUME NEW items, NEW i \in items, NEW gone \in BOOLEAN, Changes!FeedOK(items),
         feed' = Append(feed, Changes!Change(i, gone)), UNCHANGED phones
  PROVE  /\ Grows /\ Changes!FeedOK(items)'
         /\ \A j, h : Published(j, h)' <=> Published(j, h) \/ (j = i /\ h = gone)
<1> DEFINE c == Changes!Change(i, gone)
           n == Len(feed)
<1>1. /\ n \in Nat /\ feed \in Seq(ChangeType(items))
      /\ \A p \in Phones : phones[p].cursor \in 0..n /\ phones[p].holds \subseteq items
      /\ phones \in [Phones -> [cursor : 0..n, holds : SUBSET items]]
  BY FeedTypes DEF Changes!FeedOK
<1>2. c \in ChangeType(items) /\ \A j, h : Changes!Change(j, h) = c <=> j = i /\ h = gone
  BY DEF Changes!Change, ChangeType
<1> HIDE DEF c
<1>3. feed' = Append(feed, c)
  BY DEF c
<1>4. /\ feed' \in Seq(ChangeType(items)) /\ Len(feed') = n + 1 /\ feed'[n + 1] = c
      /\ \A l \in 1..n : feed'[l] = feed[l]
  BY <1>1, <1>2, <1>3
<1>5. \A l \in 1..n + 1 : l \in 1..n \/ l = n + 1
  BY <1>1
<1>6. n <= n + 1 /\ n + 1 \in 1..n + 1 /\ \A l \in 1..n : l \in 1..n + 1
  BY <1>1
<1>7. Grows
  BY <1>4, <1>6 DEF Grows
<1>8. \A k \in 0..n : k \in 0..n + 1
  BY <1>1
<1>9. phones' \in [Phones -> [cursor : 0..Len(feed'), holds : SUBSET items]]
  BY <1>1, <1>4, <1>8
<1>10. Changes!FeedOK(items)'
  BY <1>4, <1>9 DEF Changes!FeedOK, ChangeType
<1>11. ASSUME NEW j, NEW h
       PROVE  Published(j, h)' <=> Published(j, h) \/ (j = i /\ h = gone)
  BY <1>2, <1>4, <1>5, <1>6 DEF Published, Within
<1> QED BY <1>7, <1>10, <1>11

LEMMA Concatenated ==
  ASSUME NEW T, NEW s \in Seq(T), NEW t \in Seq(T)
  PROVE  /\ s \o t \in Seq(T) /\ Len(s \o t) = Len(s) + Len(t)
         /\ \A l \in 1..Len(s) : (s \o t)[l] = s[l]
         /\ \A l \in 1..Len(t) : (s \o t)[Len(s) + l] = t[l]
<1>1. s \o t \in Seq(T) /\ Len(s \o t) = Len(s) + Len(t)
  OBVIOUS
<1>2. ASSUME NEW l \in 1..Len(s) PROVE (s \o t)[l] = s[l]
  OBVIOUS
<1>3. ASSUME NEW l \in 1..Len(t) PROVE (s \o t)[Len(s) + l] = t[l]
  <2>1. Len(s) \in Nat /\ Len(t) \in Nat /\ Len(s) + l \in 1..Len(s) + Len(t)
    OBVIOUS
  <2>2. ~(Len(s) + l <= Len(s)) /\ Len(s) + l - Len(s) = l
    BY <2>1
  <2> QED BY <2>1, <2>2
<1> QED BY <1>1, <1>2, <1>3

LEMMA NotesCardinality == \A S : Notes!Cardinality(S) = Cardinality(S)
  BY DEF Cardinality, Notes!Cardinality

\* A statement that publishes the deletion of several rows, in some order.
LEMMA ConcatDoes ==
  ASSUME NEW items, NEW ms \in SUBSET items, IsFiniteSet(ms), Changes!FeedOK(items),
         Notes!Publish(ms), UNCHANGED phones
  PROVE  /\ Grows /\ Changes!FeedOK(items)'
         /\ \A j : Published(j, FALSE)' <=> Published(j, FALSE)
         /\ \A j : Published(j, TRUE)' <=> Published(j, TRUE) \/ j \in ms
<1>1. PICK k, order : /\ k = Cardinality(ms) /\ order \in Notes!Bijection(1..k, ms)
                      /\ feed' = feed \o [l \in 1..k |-> Changes!Change(order[l], TRUE)]
  <2>1. PICK k : k = Cardinality(ms)
    OBVIOUS
  <2>2. k = Notes!Cardinality(ms)
    BY <2>1, NotesCardinality
  <2> QED BY <2>1, <2>2 DEF Notes!Publish, Notes!Change, Changes!Change
<1>2. k \in Nat
  BY <1>1, FS_CardinalityType
<1>3. /\ order \in [1..k -> ms] /\ \A m \in ms : \E l \in 1..k : order[l] = m
  BY <1>1 DEF Notes!Bijection, Notes!Injection, Notes!Surjection, Notes!IsInjective
<1> DEFINE c(l) == Changes!Change(order[l], TRUE)
           added == [l \in 1..k |-> c(l)]
<1>4. /\ \A l \in 1..k : c(l) \in ChangeType(items)
      /\ \A l \in 1..k : \A j : ~(c(l) = Changes!Change(j, FALSE))
      /\ \A j : (\E l \in 1..k : c(l) = Changes!Change(j, TRUE)) <=> j \in ms
  <2>1. \A i, j : /\ Changes!Change(i, TRUE) = Changes!Change(j, TRUE) <=> i = j
                  /\ Changes!Change(i, TRUE) # Changes!Change(j, FALSE)
    BY DEF Changes!Change
  <2>2. \A l \in 1..k : order[l] \in items
    BY <1>3
  <2>3. \A l \in 1..k : c(l) \in ChangeType(items)
    BY <2>2 DEF Changes!Change, ChangeType
  <2>4. \A j : (\E l \in 1..k : c(l) = Changes!Change(j, TRUE)) <=> j \in ms
    <3>1. ASSUME NEW j, NEW l \in 1..k, c(l) = Changes!Change(j, TRUE) PROVE j \in ms
      <4>1. order[l] = j
        BY <2>1, <3>1
      <4> QED BY <1>3, <4>1
    <3>2. ASSUME NEW j \in ms PROVE \E l \in 1..k : c(l) = Changes!Change(j, TRUE)
      <4>1. PICK l \in 1..k : order[l] = j
        BY <1>3
      <4>2. c(l) = Changes!Change(j, TRUE)
        BY <4>1
      <4> HIDE DEF c
      <4> QED BY <4>2
    <3> HIDE DEF c
    <3> QED BY <3>1, <3>2
  <2>5. \A l \in 1..k : \A j : ~(c(l) = Changes!Change(j, FALSE))
    BY <2>1
  <2> QED BY <2>3, <2>4, <2>5
<1> HIDE DEF c
<1>5. added \in Seq(ChangeType(items)) /\ Len(added) = k /\ \A l \in 1..k : added[l] = c(l)
  BY <1>2, <1>4
<1>6. feed' = feed \o added
  BY <1>1 DEF c
<1> HIDE DEF added
<1>7. PICK n : n = Len(feed)
  OBVIOUS
<1>8. /\ n \in Nat /\ feed \in Seq(ChangeType(items))
      /\ phones \in [Phones -> [cursor : 0..n, holds : SUBSET items]]
  BY <1>7, FeedTypes DEF Changes!FeedOK
<1>9. /\ feed' \in Seq(ChangeType(items)) /\ Len(feed') = n + k
      /\ \A l \in 1..n : feed'[l] = feed[l]
      /\ \A l \in 1..k : feed'[n + l] = c(l)
  <2>1. \A l \in 1..k : (feed \o added)[n + l] = added[l]
    BY <1>2, <1>5, <1>7, <1>8, Concatenated
  <2>2. \A l \in 1..n : (feed \o added)[l] = feed[l]
    BY <1>2, <1>5, <1>7, <1>8, Concatenated
  <2>3. feed \o added \in Seq(ChangeType(items)) /\ Len(feed \o added) = n + k
    BY <1>2, <1>5, <1>7, <1>8, Concatenated
  <2>4. \A l \in 1..k : feed'[n + l] = c(l)
    BY <1>5, <1>6, <2>1
  <2> QED BY <1>6, <2>2, <2>3, <2>4
<1>10. /\ \A l \in 1..n + k : l \in 1..n \/ \E m \in 1..k : l = n + m
       /\ \A l \in 1..n : l \in 1..n + k
       /\ \A m \in 1..k : n + m \in 1..n + k
       /\ n <= n + k /\ 0..n \subseteq 0..n + k
  <2>1. ASSUME NEW l \in 1..n + k PROVE l \in 1..n \/ \E m \in 1..k : l = n + m
    <3>1. l \in 1..n \/ (l - n \in 1..k /\ l = n + (l - n))
      BY <1>2, <1>8
    <3> QED BY <3>1
  <2> QED BY <1>2, <1>8, <2>1
<1>11. Grows
  BY <1>7, <1>9, <1>10 DEF Grows
<1>12. phones' \in [Phones -> [cursor : 0..n + k, holds : SUBSET items]]
  BY <1>8, <1>10
<1>13. Changes!FeedOK(items)'
  BY <1>9, <1>12 DEF Changes!FeedOK, ChangeType
<1>14. ASSUME NEW j
       PROVE  /\ Published(j, FALSE)' <=> Published(j, FALSE)
              /\ Published(j, TRUE)' <=> Published(j, TRUE) \/ j \in ms
  <2>1. \A g : Published(j, g)' <=>
          Published(j, g) \/ \E l \in 1..k : c(l) = Changes!Change(j, g)
    BY <1>7, <1>9, <1>10 DEF Published, Within
  <2> QED BY <1>4, <2>1
<1> QED BY <1>11, <1>13, <1>14

-----------------------------------------------------------------------------
(* Feed: the retrievals. *)

\* What the feed says of a retrieval, by its status; a sweep may yet have to publish what
\* it marked, or was cut off from it.
SnapLedger ==
  /\ \A r \in Retrievals :
       /\ rows[r].status = "none" => ~Published(r, FALSE) /\ ~Published(r, TRUE)
       /\ rows[r].status = "active" => Published(r, FALSE) /\ ~Published(r, TRUE)
       /\ rows[r].status = "deleted" =>
            \/ Published(r, TRUE) \/ r \in cut
            \/ \E s \in Sweeps : r \in sweeps[s].todo
  /\ \A s \in Sweeps :
       /\ sweeps[s].pc # "publish" => sweeps[s].todo = {}
       /\ \A r \in sweeps[s].todo : rows[r].status = "deleted"

SnapFeedInv == FeedInv(Retrievals, Snapshots!Readable) /\ SnapLedger

LEMMA FeedInit ==
  ASSUME NEW items, feed = <<>>, phones = [p \in Phones |-> [cursor |-> 0, holds |-> {}]]
  PROVE  /\ Changes!FeedOK(items) /\ HoldsTrue /\ \A t : HoldsAll(t)
         /\ \A i, gone : ~Published(i, gone)
<1>1. /\ Len(feed) = 0 /\ DOMAIN feed = {} /\ feed \in Seq([item : items, gone : BOOLEAN])
      /\ \A n \in 1..0 : FALSE
  OBVIOUS
<1>2. phones \in [Phones -> [cursor : 0..Len(feed), holds : SUBSET items]]
  BY <1>1
<1>3. \A p \in Phones : phones[p].cursor = 0 /\ phones[p].holds = {}
  OBVIOUS
<1>4. \A i, gone : ~Within(0, i, gone)
  BY <1>1 DEF Within
<1> QED BY <1>1, <1>2, <1>3, <1>4
        DEF Changes!FeedOK, HoldsTrue, HoldsAll, Published

LEMMA SnapFeedInit == ASSUME Snapshots!Init PROVE SnapFeedInv
<1>1. /\ feed = <<>> /\ phones = [p \in Phones |-> [cursor |-> 0, holds |-> {}]]
      /\ \A r \in Retrievals : rows[r].status = "none"
      /\ \A s \in Sweeps : sweeps[s].todo = {}
  BY DEF Snapshots!Init, Snapshots!FeedInit, Snapshots!NoRow, Snapshots!Idle
<1>2. Snapshots!Readable = {}
  BY <1>1 DEF Snapshots!Readable
<1> QED BY <1>1, <1>2, FeedInit DEF SnapFeedInv, FeedInv, SnapLedger, IsThere

\* What can be fetched follows from what the feed says.
LEMMA SnapGrowth ==
  ASSUME FeedInv(Retrievals, Snapshots!Readable), Grows, UNCHANGED phones,
         Changes!FeedOK(Retrievals)', SnapLedger',
         \A r \in Snapshots!Readable' : r \in Snapshots!Readable \/ ~Published(r, FALSE)
  PROVE  SnapFeedInv'
<1>1. PICK t, u : t = Snapshots!Readable /\ u = Snapshots!Readable'
  OBVIOUS
<1>2. FeedInv(Retrievals, t)
  BY <1>1
<1>3. IsThere(u)'
  BY <1>1 DEF IsThere, SnapLedger, Snapshots!Readable
<1>4. FeedInv(Retrievals, u)'
  BY <1>1, <1>2, <1>3, GrowthKeeps
<1> QED BY <1>1, <1>4 DEF SnapFeedInv, FeedInv, HoldsAll, IsThere

\* A feed that stays as it is.
LEMMA FeedStays ==
  ASSUME NEW items, Changes!FeedOK(items), UNCHANGED <<feed, phones>>
  PROVE  /\ Grows /\ Changes!FeedOK(items)'
         /\ \A i, gone : Published(i, gone)' <=> Published(i, gone)
<1>1. Len(feed) \in Nat
  BY FeedTypes
<1> QED BY <1>1 DEF Grows, Changes!FeedOK, Published, Within

LEMMA SnapFeedStep ==
  ASSUME SnapInv, SnapInv', SnapFeedInv, [Snapshots!Next]_(Snapshots!vars)
  PROVE  SnapFeedInv'
<1>0. SnapshotsOK /\ HasKey /\ PagesAreDue /\ SnapLedger /\ Changes!FeedOK(Retrievals)
      /\ FeedInv(Retrievals, Snapshots!Readable)
  BY DEF SnapInv, SnapFeedInv, FeedInv
\* Steps that publish nothing and make nothing readable.
<1>1. ASSUME UNCHANGED <<feed, phones>>, SnapLedger',
             \A r \in Retrievals : /\ rows'[r].status = "active" => rows[r].status = "active"
                                   /\ rows[r].due => rows'[r].due
      PROVE  SnapFeedInv'
  <2>1. \A r \in Retrievals : rows[r].due \in BOOLEAN /\ rows'[r].due \in BOOLEAN
    BY DEF SnapInv, SnapshotsOK, RetrievalType
  <2>2. Snapshots!Readable' \subseteq Snapshots!Readable
    BY <1>1, <2>1 DEF Snapshots!Readable
  <2> QED BY <1>0, <1>1, <2>2, FeedStays, SnapGrowth
<1>2. ASSUME NEW q \in Retrievals, NEW k \in Keys, Snapshots!ReportRetrieval(q, k)
      PROVE  SnapFeedInv'
  <2>1. /\ UNCHANGED <<sweeps, cut>> /\ rows[q].status = "none" /\ rows'[q].status = "active"
        /\ \A r \in Retrievals \ {q} : rows'[r] = rows[r]
    BY <1>0, <1>2, ReportDoes
  <2>2. feed' = Append(feed, Changes!Change(q, FALSE)) /\ UNCHANGED phones
    BY <1>2 DEF Snapshots!ReportRetrieval, Snapshots!Change, Changes!Change
  <2>3. ~Published(q, FALSE) /\ ~Published(q, TRUE)
    BY <1>0, <2>1 DEF SnapLedger
  <2>4. /\ Grows /\ Changes!FeedOK(Retrievals)'
        /\ \A j, h : Published(j, h)' <=> Published(j, h) \/ (j = q /\ h = FALSE)
    BY <1>0, <2>2, AppendDoes
  <2>5. \A j : /\ Published(j, FALSE)' <=> Published(j, FALSE) \/ j = q
               /\ Published(j, TRUE)' <=> Published(j, TRUE)
    BY <2>4
  <2>6. SnapLedger'
    <3>1. \A r \in Retrievals :
            /\ rows'[r].status = "none" => ~Published(r, FALSE)' /\ ~Published(r, TRUE)'
            /\ rows'[r].status = "active" => Published(r, FALSE)' /\ ~Published(r, TRUE)'
            /\ rows'[r].status = "deleted" =>
                 \/ Published(r, TRUE)' \/ r \in cut'
                 \/ \E s \in Sweeps : r \in sweeps'[s].todo
      <4> TAKE r \in Retrievals
      <4>1. CASE r = q
        BY <2>1, <2>3, <2>5, <4>1
      <4>2. CASE r # q
        BY <1>0, <2>1, <2>5, <4>2 DEF SnapLedger
      <4> QED BY <4>1, <4>2
    <3>2. \A s \in Sweeps : q \notin sweeps[s].todo /\ sweeps[s].todo \subseteq Retrievals
      BY <1>0, <2>1 DEF SnapLedger, SnapshotsOK, SweepType
    <3>3. \A s \in Sweeps : /\ sweeps'[s].pc # "publish" => sweeps'[s].todo = {}
                            /\ \A r \in sweeps'[s].todo : rows'[r].status = "deleted"
      BY <1>0, <2>1, <3>2 DEF SnapLedger
    <3> QED BY <3>1, <3>3 DEF SnapLedger
  <2>7. \A r \in Snapshots!Readable' : r \in Snapshots!Readable \/ ~Published(r, FALSE)
    BY <2>1, <2>3 DEF Snapshots!Readable
  <2> QED BY <1>0, <2>2, <2>4, <2>6, <2>7, SnapGrowth
<1>3. ASSUME NEW r \in Retrievals, Snapshots!RetentionPasses(r) PROVE SnapFeedInv'
  <2>1. /\ UNCHANGED <<sweeps, cut>>
        /\ \A q \in Retrievals : /\ rows'[q].status = rows[q].status
                                 /\ rows[q].due => rows'[q].due
    BY <1>0, <1>3, RetentionDoes
  <2>2. UNCHANGED <<feed, phones>>
    BY <1>3 DEF Snapshots!RetentionPasses
  <2>3. SnapLedger'
    <3>1. \A s \in Sweeps : sweeps[s].todo \subseteq Retrievals
      BY <1>0 DEF SnapshotsOK, SweepType
    <3> QED BY <1>0, <2>1, <2>2, <3>1, FeedStays DEF SnapLedger
  <2> QED BY <1>1, <2>1, <2>2, <2>3
<1>4. ASSUME NEW s \in Sweeps, Snapshots!StartSweep(s) PROVE SnapFeedInv'
  <2>1. /\ UNCHANGED <<rows, cut>> /\ sweeps'[s].todo = {} /\ sweeps[s].pc = "idle"
        /\ \A t \in Sweeps \ {s} : sweeps'[t] = sweeps[t]
    BY <1>0, <1>4, StartSweepDoes
  <2>2. UNCHANGED <<feed, phones>>
    BY <1>4 DEF Snapshots!StartSweep
  <2>3. SnapLedger'
    BY <1>0, <2>1, <2>2, FeedStays DEF SnapLedger
  <2> QED BY <1>1, <2>1, <2>2, <2>3
<1>5. ASSUME NEW s \in Sweeps,
             \/ Snapshots!ReadReferences(s) \/ Snapshots!ObjectsDeleted(s)
             \/ \E k \in Keys : Snapshots!DeleteObject(s, k)
      PROVE  SnapFeedInv'
  <2>1. /\ UNCHANGED <<rows, cut>> /\ sweeps'[s].todo = sweeps[s].todo
        /\ sweeps[s].pc # "publish"
        /\ \A t \in Sweeps \ {s} : sweeps'[t] = sweeps[t]
    <3>1. CASE Snapshots!ReadReferences(s)
      BY <1>0, <3>1, ReadReferencesDoes
    <3>2. CASE Snapshots!ObjectsDeleted(s)
      BY <1>0, <3>2, ObjectsDeletedDoes
    <3>3. CASE \E k \in Keys : Snapshots!DeleteObject(s, k)
      <4>1. PICK k \in Keys : Snapshots!DeleteObject(s, k)
        BY <3>3
      <4>2. sweeps[s].pc = "objects"
        BY <4>1 DEF Snapshots!DeleteObject
      <4> QED BY <1>0, <4>1, <4>2, DeleteObjectDoes
    <3> QED BY <1>5, <3>1, <3>2, <3>3
  <2>2. UNCHANGED <<feed, phones>>
    BY <1>5 DEF Snapshots!ReadReferences, Snapshots!ObjectsDeleted, Snapshots!DeleteObject
  <2>3. SnapLedger'
    BY <1>0, <2>1, <2>2, FeedStays DEF SnapLedger
  <2> QED BY <1>1, <2>1, <2>2, <2>3
<1>6. ASSUME NEW s \in Sweeps, Snapshots!ExpireRows(s) PROVE SnapFeedInv'
  <2>1. /\ UNCHANGED cut /\ sweeps[s].pc = "rows" /\ sweeps'[s].pc = "publish"
        /\ sweeps'[s].todo = sweeps[s].page
        /\ \A t \in Sweeps \ {s} : sweeps'[t] = sweeps[t]
        /\ \A r \in Retrievals :
             /\ rows'[r].due = rows[r].due
             /\ rows'[r].status = IF r \in sweeps[s].page THEN "deleted" ELSE rows[r].status
    BY <1>0, <1>6, ExpireDoes
  <2>2. UNCHANGED <<feed, phones>>
    BY <1>6 DEF Snapshots!ExpireRows
  <2>3. \A i, gone : Published(i, gone)' <=> Published(i, gone)
    BY <1>0, <2>2, FeedStays
  <2>4. sweeps[s].todo = {}
    BY <1>0, <2>1 DEF SnapLedger
  <2>5. \A t \in Sweeps : sweeps[t].todo \subseteq Retrievals /\ sweeps[t].page \subseteq Retrievals
    BY <1>0 DEF SnapshotsOK, SweepType
  <2>6. SnapLedger'
    <3>1. ASSUME NEW r \in Retrievals
          PROVE  /\ rows'[r].status = "none" => ~Published(r, FALSE)' /\ ~Published(r, TRUE)'
                 /\ rows'[r].status = "active" => Published(r, FALSE)' /\ ~Published(r, TRUE)'
                 /\ rows'[r].status = "deleted" =>
                      \/ Published(r, TRUE)' \/ r \in cut'
                      \/ \E t \in Sweeps : r \in sweeps'[t].todo
      BY <1>0, <2>1, <2>3, <2>4 DEF SnapLedger
    <3>2. ASSUME NEW t \in Sweeps
          PROVE  /\ sweeps'[t].pc # "publish" => sweeps'[t].todo = {}
                 /\ \A r \in sweeps'[t].todo : rows'[r].status = "deleted"
      <4>1. CASE t = s
        BY <2>1, <2>5, <4>1
      <4>2. CASE t # s
        BY <1>0, <2>1, <2>5, <4>2 DEF SnapLedger
      <4> QED BY <4>1, <4>2
    <3> QED BY <3>1, <3>2 DEF SnapLedger
  <2> QED BY <1>1, <2>1, <2>2, <2>6
<1>7. ASSUME NEW s \in Sweeps, NEW q \in Retrievals, Snapshots!PublishRow(s, q)
      PROVE  SnapFeedInv'
  <2>1. /\ UNCHANGED <<rows, cut>> /\ q \in sweeps[s].todo
        /\ sweeps'[s].todo = sweeps[s].todo \ {q}
        /\ sweeps[s].pc = "publish"
        /\ sweeps'[s].pc = "publish" \/ sweeps'[s].pc = "idle"
        /\ \A t \in Sweeps \ {s} : sweeps'[t] = sweeps[t]
    BY <1>0, <1>7, PublishDoes
  <2>2. UNCHANGED phones /\ rows[q].status = "deleted"
    BY <1>0, <1>7, <2>1 DEF Snapshots!PublishRow, SnapLedger
  <2>3. sweeps'[s].pc = "idle" => sweeps'[s].todo = {}
    BY <1>7, <1>0, SweepEnds, <2>1 DEF Snapshots!PublishRow, SnapshotsOK, SweepType
  <2>4. /\ Grows /\ Changes!FeedOK(Retrievals)'
        /\ \A j : /\ Published(j, FALSE)' <=> Published(j, FALSE)
                  /\ Published(j, TRUE)' <=> Published(j, TRUE) \/ j = q
    <3>1. feed' = Append(feed, Changes!Change(q, TRUE))
      BY <1>7 DEF Snapshots!PublishRow, Snapshots!Change, Changes!Change
    <3>2. /\ Grows /\ Changes!FeedOK(Retrievals)'
          /\ \A j, h : Published(j, h)' <=> Published(j, h) \/ (j = q /\ h = TRUE)
      BY <1>0, <2>2, <3>1, AppendDoes
    <3> QED BY <3>2
  <2>5. SnapLedger'
    BY <1>0, <2>1, <2>2, <2>3, <2>4 DEF SnapLedger
  <2>6. Snapshots!Readable' = Snapshots!Readable
    BY <2>1 DEF Snapshots!Readable
  <2> QED BY <1>0, <2>2, <2>4, <2>5, <2>6, SnapGrowth
<1>8. ASSUME NEW s \in Sweeps, Snapshots!SweepFails(s) PROVE SnapFeedInv'
  <2>1. /\ UNCHANGED rows /\ cut' = cut \cup sweeps[s].todo /\ sweeps'[s].todo = {}
        /\ \A t \in Sweeps \ {s} : sweeps'[t] = sweeps[t]
    BY <1>0, <1>8, FailureDoes
  <2>2. UNCHANGED <<feed, phones>>
    BY <1>8 DEF Snapshots!SweepFails
  <2>3. \A i, gone : Published(i, gone)' <=> Published(i, gone)
    BY <1>0, <2>2, FeedStays
  <2>4. SnapLedger'
    BY <1>0, <2>1, <2>3 DEF SnapLedger
  <2> QED BY <1>1, <2>1, <2>2, <2>4
<1>9. ASSUME NEW p \in Phones, Snapshots!FollowFeed(p) PROVE SnapFeedInv'
  <2>1. PICK t : t = Snapshots!Readable
    OBVIOUS
  <2>2. UNCHANGED <<rows, sweeps, cut>> /\ Changes!Sync(p, t)
    BY <1>9, <2>1 DEF Snapshots!FollowFeed, Snapshots!Sync, Changes!Sync,
       Snapshots!CursorAfter, Changes!CursorAfter, Snapshots!Min, Changes!Min
  <2>3. FeedInv(Retrievals, t)'
    BY <1>0, <2>1, <2>2, SyncKeeps
  <2>4. t = Snapshots!Readable'
    BY <2>1, <2>2 DEF Snapshots!Readable
  <2>5. feed' = feed
    BY <2>2 DEF Changes!Sync
  <2>6. SnapLedger'
    BY <1>0, <2>2, <2>5 DEF SnapLedger, Published, Within
  <2> QED BY <2>3, <2>4, <2>6 DEF SnapFeedInv, FeedInv, HoldsAll, IsThere
<1>10. CASE UNCHANGED Snapshots!vars
  <2>1. UNCHANGED <<feed, phones, rows, sweeps, cut>>
    BY <1>10 DEF Snapshots!vars
  <2>2. SnapLedger'
    BY <1>0, <2>1 DEF SnapLedger, Published, Within
  <2> QED BY <1>1, <2>1, <2>2
<1> QED BY <1>2, <1>3, <1>4, <1>5, <1>6, <1>7, <1>8, <1>9, <1>10, SnapshotSteps

-----------------------------------------------------------------------------
(* Feed: the memories. *)

Taken == {m \in MemoryKeys : memories[m].status # "none"}

\* What the feed says of a memory, by its status; one statement deletes finitely many.
NoteLedger ==
  /\ IsFiniteSet(Taken)
  /\ \A m \in MemoryKeys :
       /\ memories[m].status = "none" => ~Published(m, FALSE) /\ ~Published(m, TRUE)
       /\ memories[m].status = "active" => Published(m, FALSE) /\ ~Published(m, TRUE)
       /\ memories[m].status = "deleted" => Published(m, TRUE)

NoteFeedInv == FeedInv(MemoryKeys, Notes!Readable) /\ NoteLedger

LEMMA NoteFeedInit == ASSUME Notes!Init PROVE NoteFeedInv
<1>1. /\ feed = <<>> /\ phones = [p \in Phones |-> [cursor |-> 0, holds |-> {}]]
      /\ \A m \in MemoryKeys : memories[m].status = "none"
  BY DEF Notes!Init, Notes!FeedInit, Notes!NoMemory
<1>2. Notes!Readable = {} /\ Taken = {}
  BY <1>1 DEF Notes!Readable, Taken
<1> QED BY <1>1, <1>2, FeedInit, FS_EmptySet DEF NoteFeedInv, FeedInv, NoteLedger, IsThere

LEMMA NoteGrowth ==
  ASSUME FeedInv(MemoryKeys, Notes!Readable), Grows, UNCHANGED phones,
         Changes!FeedOK(MemoryKeys)', NoteLedger',
         \A m \in Notes!Readable' : m \in Notes!Readable \/ ~Published(m, FALSE)
  PROVE  NoteFeedInv'
<1>1. PICK t, u : t = Notes!Readable /\ u = Notes!Readable'
  OBVIOUS
<1>2. FeedInv(MemoryKeys, t)
  BY <1>1
<1>3. IsThere(u)'
  BY <1>1 DEF IsThere, NoteLedger, Notes!Readable
<1>4. FeedInv(MemoryKeys, u)'
  BY <1>1, <1>2, <1>3, GrowthKeeps
<1> QED BY <1>1, <1>4 DEF NoteFeedInv, FeedInv, HoldsAll, IsThere

\* A statement that deletes publishes what it deletes.
LEMMA NoteDeletion ==
  ASSUME NoteInv, NoteFeedInv, NEW ms \in SUBSET MemoryKeys,
         \A m \in ms : memories[m].status = "active",
         memories' = Notes!Deleted(ms), Notes!Publish(ms), UNCHANGED phones
  PROVE  NoteFeedInv'
<1>0. NoteLedger /\ Changes!FeedOK(MemoryKeys) /\ FeedInv(MemoryKeys, Notes!Readable)
  BY DEF NoteFeedInv, FeedInv
<1>1. IsFiniteSet(ms)
  <2>1. ms \subseteq Taken
    BY DEF Taken
  <2> QED BY <1>0, <2>1, FS_Subset DEF NoteLedger
<1>2. \A m \in MemoryKeys : memories'[m].status = IF m \in ms THEN "deleted"
                                                  ELSE memories[m].status
  BY DEF NoteInv, RowsOK, NoteRowType, Notes!Deleted
<1>3. \A m \in MemoryKeys \ ms : memories'[m] = memories[m]
  BY DEF Notes!Deleted
<1>4. /\ Grows /\ Changes!FeedOK(MemoryKeys)'
      /\ \A j : Published(j, FALSE)' <=> Published(j, FALSE)
      /\ \A j : Published(j, TRUE)' <=> Published(j, TRUE) \/ j \in ms
  BY <1>0, <1>1, ConcatDoes
<1>5. Taken' = Taken
  BY <1>2 DEF Taken
<1>6. NoteLedger'
  BY <1>0, <1>2, <1>4, <1>5 DEF NoteLedger
<1>7. Notes!Readable' \subseteq Notes!Readable
  BY <1>2, <1>3 DEF Notes!Readable
<1> QED BY <1>0, <1>4, <1>6, <1>7, NoteGrowth

LEMMA NoteFeedStep ==
  ASSUME NoteInv, NoteFeedInv, [Notes!Next]_(Notes!vars)
  PROVE  NoteFeedInv'
<1>0. NoteLedger /\ Changes!FeedOK(MemoryKeys) /\ FeedInv(MemoryKeys, Notes!Readable) /\ RowsOK
  BY DEF NoteFeedInv, FeedInv, NoteInv
\* Steps that publish nothing and make nothing readable.
<1>1. ASSUME UNCHANGED <<feed, phones>>,
             \A m \in MemoryKeys : memories'[m].status = memories[m].status,
             Notes!Readable' \subseteq Notes!Readable
      PROVE  NoteFeedInv'
  <2>1. Taken' = Taken
    BY <1>1 DEF Taken
  <2>2. \A i, gone : Published(i, gone)' <=> Published(i, gone)
    BY <1>0, <1>1, FeedStays
  <2>3. NoteLedger'
    BY <1>0, <1>1, <2>1, <2>2 DEF NoteLedger
  <2> QED BY <1>0, <1>1, <2>3, FeedStays, NoteGrowth
<1>2. ASSUME NEW r \in Writers, Notes!InsertMemory(r) PROVE NoteFeedInv'
  <2>1. PICK m \in MemoryKeys : m = writers[r].key
    BY <1>2, InsertDoes
  <2>2. UNCHANGED phones
    BY <1>2 DEF Notes!InsertMemory
  <2>3. CASE memories[m].status # "none"
    <3>1. UNCHANGED <<memories, feed>>
      BY <1>2, <2>1, <2>3 DEF Notes!InsertMemory, Notes!Free
    <3> QED BY <1>1, <2>2, <3>1 DEF Notes!Readable
  <2>4. CASE memories[m].status = "none"
    <3>1. /\ feed' = Append(feed, Changes!Change(m, FALSE))
          /\ memories' = [memories EXCEPT ![m] = [Notes!NoMemory EXCEPT !.status = "active",
                                                                   !.body = writers[r].body]]
      BY <1>2, <2>1, <2>4 DEF Notes!InsertMemory, Notes!Free, Notes!Change, Changes!Change
    <3>2. [Notes!NoMemory EXCEPT !.status = "active", !.body = writers[r].body].status = "active"
      BY DEF Notes!NoMemory
    <3>3. memories'[m].status = "active" /\ \A n \in MemoryKeys \ {m} : memories'[n] = memories[n]
      BY <1>0, <3>1, <3>2 DEF RowsOK
    <3>4. ~Published(m, FALSE) /\ ~Published(m, TRUE)
      BY <1>0, <2>4 DEF NoteLedger
    <3>5. /\ Grows /\ Changes!FeedOK(MemoryKeys)'
          /\ \A j, h : Published(j, h)' <=> Published(j, h) \/ (j = m /\ h = FALSE)
      BY <1>0, <2>2, <3>1, AppendDoes
    <3>6. \A j : /\ Published(j, FALSE)' <=> Published(j, FALSE) \/ j = m
                 /\ Published(j, TRUE)' <=> Published(j, TRUE)
      BY <3>5
    <3>7. Taken' = Taken \cup {m}
      BY <3>3 DEF Taken
    <3>8. IsFiniteSet(Taken')
      BY <1>0, <3>7, FS_AddElement DEF NoteLedger
    <3>9. \A n \in MemoryKeys :
            /\ memories'[n].status = "none" => ~Published(n, FALSE)' /\ ~Published(n, TRUE)'
            /\ memories'[n].status = "active" => Published(n, FALSE)' /\ ~Published(n, TRUE)'
            /\ memories'[n].status = "deleted" => Published(n, TRUE)'
      <4> TAKE n \in MemoryKeys
      <4>1. CASE n = m
        BY <3>3, <3>4, <3>6, <4>1
      <4>2. CASE n # m
        BY <1>0, <3>3, <3>6, <4>2 DEF NoteLedger
      <4> QED BY <4>1, <4>2
    <3>10. NoteLedger'
      BY <3>8, <3>9 DEF NoteLedger
    <3>11. \A n \in Notes!Readable' : n \in Notes!Readable \/ ~Published(n, FALSE)
      BY <3>3, <3>4 DEF Notes!Readable
    <3> QED BY <1>0, <2>2, <3>5, <3>10, <3>11, NoteGrowth
  <2> QED BY <2>3, <2>4
<1>3. ASSUME NEW r \in Writers, Notes!DeleteMemory(r) PROVE NoteFeedInv'
  <2>1. PICK ms : ms = {writers[r].key} \cap Notes!Deletable
    OBVIOUS
  <2>2. ms \subseteq MemoryKeys /\ \A m \in ms : memories[m].status = "active"
    BY <2>1 DEF Notes!Deletable, Notes!Readable
  <2>3. memories' = Notes!Deleted(ms) /\ Notes!Publish(ms) /\ UNCHANGED phones
    BY <1>3, <2>1 DEF Notes!DeleteMemory
  <2> QED BY <2>2, <2>3, NoteDeletion
<1>4. CASE Notes!SweepMemories
  <2>1. PICK ms \in SUBSET {m \in MemoryKeys : memories[m].status = "active" /\ memories[m].due} :
          memories' = Notes!Deleted(ms) /\ Notes!Publish(ms) /\ UNCHANGED phones
    BY <1>4 DEF Notes!SweepMemories
  <2>2. ms \subseteq MemoryKeys /\ \A m \in ms : memories[m].status = "active"
    OBVIOUS
  <2> QED BY <2>1, <2>2, NoteDeletion
<1>5. ASSUME NEW p \in Phones, Notes!FollowFeed(p) PROVE NoteFeedInv'
  <2>1. PICK t : t = Notes!Readable
    OBVIOUS
  <2>2. UNCHANGED memories /\ Changes!Sync(p, t)
    BY <1>5, <2>1 DEF Notes!FollowFeed, Notes!Sync, Changes!Sync,
       Notes!CursorAfter, Changes!CursorAfter, Notes!Min, Changes!Min
  <2>3. FeedInv(MemoryKeys, t)'
    BY <1>0, <2>1, <2>2, SyncKeeps
  <2>4. t = Notes!Readable'
    BY <2>1, <2>2 DEF Notes!Readable
  <2>5. feed' = feed
    BY <2>2 DEF Changes!Sync
  <2>6. NoteLedger'
    BY <1>0, <2>2, <2>5 DEF NoteLedger, Taken, Published, Within
  <2> QED BY <2>3, <2>4, <2>6 DEF NoteFeedInv, FeedInv, HoldsAll, IsThere
<1>6. ASSUME NEW m \in MemoryKeys, Notes!MemoryExpires(m) PROVE NoteFeedInv'
  <2>1. UNCHANGED <<feed, phones>> /\ memories[m].due = FALSE
    BY <1>0, <1>6 DEF Notes!MemoryExpires, RowsOK, NoteRowType
  <2>2. /\ memories'[m].status = memories[m].status
        /\ \A n \in MemoryKeys \ {m} : memories'[n] = memories[n]
    BY <1>0, <1>6, ExpiryDoes
  <2>3. m \in Notes!Readable
    BY <1>6 DEF Notes!MemoryExpires, Notes!Readable
  <2>4. Notes!Readable' \subseteq Notes!Readable
    BY <2>2, <2>3 DEF Notes!Readable
  <2> QED BY <1>1, <2>1, <2>2, <2>4
<1>7. ASSUME UNCHANGED <<feed, phones, memories>> PROVE NoteFeedInv'
  BY <1>1, <1>7 DEF Notes!Readable
<1> QED BY <1>2, <1>3, <1>4, <1>5, <1>6, <1>7, NoteSteps
        DEF Notes!StartCreate, Notes!AnswerCreate, Notes!StartDelete, Notes!vars

-----------------------------------------------------------------------------
\* The feed is that of the part that runs; until it does, it is both.
FeedsFollow == /\ part # "notes" => SnapFeedInv
               /\ part # "snapshots" => NoteFeedInv

LEMMA FeedsInvariant == Spec => []FeedsFollow
<1>1. Init => FeedsFollow
  BY SnapFeedInit, NoteFeedInit DEF Init, FeedsFollow
<1>2. SnapInv /\ SnapInv' /\ NoteInv /\ FeedsFollow /\ [Next]_vars => FeedsFollow'
  <2> SUFFICES ASSUME SnapInv, SnapInv', NoteInv, FeedsFollow, [Next]_vars
               PROVE  FeedsFollow'
    OBVIOUS
  <2>1. UNCHANGED <<feed, phones, snapshotsVars>> => UNCHANGED Snapshots!vars
    BY DEF snapshotsVars, Snapshots!vars
  <2>2. UNCHANGED <<feed, phones, notesVars>> => UNCHANGED Notes!vars
    BY DEF notesVars, Notes!vars
  <2>3. UNCHANGED part
    BY DEF Next, Only, vars
  <2>4. CASE part = "snapshots"
    <3>1. [Snapshots!Next]_(Snapshots!vars)
      BY <2>1, <2>4 DEF Next, Only, vars, Parts, feedVars
    <3> QED BY <2>3, <2>4, <3>1, SnapFeedStep DEF FeedsFollow
  <2>5. CASE part = "notes"
    <3>1. [Notes!Next]_(Notes!vars)
      BY <2>2, <2>5 DEF Next, Only, vars, Parts, feedVars
    <3> QED BY <2>3, <2>5, <3>1, NoteFeedStep DEF FeedsFollow
  <2>6. CASE part \notin {"snapshots", "notes"}
    <3>1. UNCHANGED <<feed, phones, snapshotsVars, notesVars>>
      BY <2>6 DEF Next, Only, vars, feedVars
    <3> QED BY <2>1, <2>2, <2>3, <2>6, <3>1, SnapFeedStep, NoteFeedStep DEF FeedsFollow
  <2> QED BY <2>4, <2>5, <2>6
<1> QED BY <1>1, <1>2, SnapInvariant, NoteInvariant, PTL DEF Spec

\* A phone that has read the feed to its end holds what is there, and nothing that was
\* deleted and published, whatever changes two sweeps published twice (lib.rs, phone_sync;
\* history.rs, expire_retrieval_rows).
THEOREM SyncedPhoneIsCurrentCorrect == Spec => []SyncedPhoneIsCurrent
<1>1. ASSUME SnapInv, SnapFeedInv PROVE Snapshots!SyncedPhoneIsCurrent
  <2> SUFFICES ASSUME NEW p \in Phones, phones[p].cursor = Len(feed)
               PROVE  /\ Snapshots!Readable \subseteq phones[p].holds
                      /\ phones[p].holds \subseteq
                           {r \in Retrievals : rows[r].status = "active"} \cup cut
                             \cup UNION {sweeps[s].todo : s \in Sweeps}
    BY DEF Snapshots!SyncedPhoneIsCurrent, Snapshots!Current
  <2>1. \A i, gone : Within(phones[p].cursor, i, gone) <=> Published(i, gone)
    BY DEF Published
  <2>2. \A r \in Snapshots!Readable : r \in phones[p].holds
    BY <1>1, <2>1 DEF SnapFeedInv, FeedInv, HoldsAll, IsThere
  <2>3. phones[p].holds \subseteq Retrievals
    BY <1>1, FeedTypes DEF SnapFeedInv, FeedInv
  <2>4. ASSUME NEW r \in phones[p].holds
        PROVE  \/ rows[r].status = "active" \/ r \in cut
               \/ \E s \in Sweeps : r \in sweeps[s].todo
    <3>1. r \in Retrievals /\ Published(r, FALSE) /\ ~Published(r, TRUE)
      BY <1>1, <2>1, <2>3 DEF SnapFeedInv, FeedInv, HoldsTrue
    <3>2. rows[r].status \in {"none", "active", "deleted"}
      BY <1>1, <3>1 DEF SnapInv, SnapshotsOK, RetrievalType
    <3> QED BY <1>1, <3>1, <3>2 DEF SnapFeedInv, SnapLedger
  <2> QED BY <2>2, <2>3, <2>4
<1>2. ASSUME NoteInv, NoteFeedInv PROVE Notes!SyncedPhoneIsCurrent
  <2> SUFFICES ASSUME NEW p \in Phones, phones[p].cursor = Len(feed)
               PROVE  /\ Notes!Readable \subseteq phones[p].holds
                      /\ phones[p].holds \subseteq
                           {m \in MemoryKeys : memories[m].status = "active"}
    BY DEF Notes!SyncedPhoneIsCurrent, Notes!Current
  <2>1. \A i, gone : Within(phones[p].cursor, i, gone) <=> Published(i, gone)
    BY DEF Published
  <2>2. \A m \in Notes!Readable : m \in phones[p].holds
    BY <1>2, <2>1 DEF NoteFeedInv, FeedInv, HoldsAll, IsThere
  <2>3. phones[p].holds \subseteq MemoryKeys
    BY <1>2, FeedTypes DEF NoteFeedInv, FeedInv
  <2>4. ASSUME NEW m \in phones[p].holds PROVE memories[m].status = "active"
    <3>1. m \in MemoryKeys /\ Published(m, FALSE) /\ ~Published(m, TRUE)
      BY <1>2, <2>1, <2>3 DEF NoteFeedInv, FeedInv, HoldsTrue
    <3>2. memories[m].status \in {"none", "active", "deleted"}
      BY <1>2, <3>1 DEF NoteInv, RowsOK, NoteRowType
    <3> QED BY <1>2, <3>1, <3>2 DEF NoteFeedInv, NoteLedger
  <2> QED BY <2>2, <2>3, <2>4
<1>3. SnapInv /\ NoteInv /\ FeedsFollow => SyncedPhoneIsCurrent
  BY <1>1, <1>2 DEF FeedsFollow, SyncedPhoneIsCurrent
<1> QED BY <1>3, SnapInvariant, NoteInvariant, FeedsInvariant, PTL

-----------------------------------------------------------------------------
(* The types of all parts. *)

\* Every table, request and phone of every part keeps its type; no cursor of a phone is
\* beyond the end of the feed.
THEOREM TypeCorrect == Spec => []TypeOK
<1>1. ASSUME VoiceInv PROVE Voice!TypeOK
  BY <1>1 DEF VoiceInv, ListenersOK, AsksOK, AskersOK, BindingType, HostType, AskType,
     AskSessionType, AskerType, Voice!TypeOK
<1>2. ASSUME SnapInv, SnapFeedInv PROVE Snapshots!TypeOK
  <2>1. Snapshots!FeedOK(Retrievals)
    BY <1>2 DEF SnapFeedInv, FeedInv, Changes!FeedOK, Snapshots!FeedOK
  <2> QED BY <1>2, <2>1 DEF SnapInv, SnapshotsOK, RetrievalType, SweepType, Snapshots!TypeOK
<1>3. ASSUME NoteInv, NoteFeedInv PROVE Notes!TypeOK
  <2>1. Notes!FeedOK(MemoryKeys)
    BY <1>3 DEF NoteFeedInv, FeedInv, Changes!FeedOK, Notes!FeedOK
  <2> QED BY <1>3, <2>1 DEF NoteInv, RowsOK, NoteRowType, NoteReqType, Notes!TypeOK
<1>4. OperationInv /\ VoiceInv /\ AccessInv /\ PushInv /\ LimitInv /\ SnapInv /\ NoteInv
        /\ FeedsFollow => TypeOK
  BY <1>1, <1>2, <1>3 DEF OperationInv, AccessInv, PushInv, LimitInv, FeedsFollow, TypeOK
<1> QED BY <1>4, OperationInvariant, VoiceInvariant, AccessInvariant, PushInvariant,
           LimitInvariant, SnapInvariant, NoteInvariant, FeedsInvariant, PTL

=============================================================================
