------------------------------- MODULE Memories -------------------------------
(***************************************************************************)
(* The memories of memories.rs.  A request creates one under an            *)
(* idempotency key by an insert that does nothing when the key is taken,   *)
(* then reads the row of the key and answers with it when it was asked for *)
(* the same; another deletes one by reading it and then by an update; the  *)
(* retention sweeps delete what has expired.  Triggers publish each        *)
(* insertion and each deletion in the statement that makes it.             *)
(***************************************************************************)
EXTENDS Feed

CONSTANTS
  MemoryKeys,  \* the idempotency keys, which name the memories
  Bodies,      \* what is asked to be remembered
  Requests,    \* the requests that run at the same time
  None         \* no key, no body

VARIABLES
  memories,  \* memory_items, by idempotency key
  reqs,      \* the requests under way
  told       \* the memories requests were answered with: key, body

vars == <<feed, phones, memories, reqs, told>>

-----------------------------------------------------------------------------
NoMemory == [status |-> "none", body |-> None, due |-> FALSE]
Idle == [pc |-> "idle", key |-> None, body |-> None]

TypeOK ==
  /\ FeedOK(MemoryKeys)
  /\ memories \in [MemoryKeys -> [status : {"none", "active", "deleted"},
                                  body : Bodies \cup {None}, due : BOOLEAN]]
  /\ reqs \in [Requests -> [pc : {"idle", "insert", "read", "delete"},
                            key : MemoryKeys \cup {None}, body : Bodies \cup {None}]]
  /\ told \subseteq MemoryKeys \X Bodies

Init ==
  /\ FeedInit
  /\ memories = [m \in MemoryKeys |-> NoMemory]
  /\ reqs = [r \in Requests |-> Idle]
  /\ told = {}

Goto(r, pc) == reqs' = [reqs EXCEPT ![r].pc = pc]
Leave(r) == reqs' = [reqs EXCEPT ![r] = Idle]
Readable == {m \in MemoryKeys : memories[m].status = "active" /\ ~memories[m].due}

\* The updates that delete, and what their trigger publishes, row by row.
Deleted(ms) == [m \in MemoryKeys |-> IF m \in ms THEN [memories[m] EXCEPT !.status = "deleted"]
                                     ELSE memories[m]]
Publish(ms) == \E order \in Bijection(1..Cardinality(ms), ms) :
  feed' = feed \o [i \in 1..Cardinality(ms) |-> Change(order[i], TRUE)]

-----------------------------------------------------------------------------
StartCreate(r, m, b) ==
  /\ reqs[r].pc = "idle"
  /\ reqs' = [reqs EXCEPT ![r] = [pc |-> "insert", key |-> m, body |-> b]]
  /\ UNCHANGED <<feed, phones, memories, told>>

\* An insert that takes the place of a deleted memory.
Free_Deleted(m) == memories[m].status # "active"

\* The conflict clause: the key is taken for good, by a deleted memory as well.
Free(m) == memories[m].status = "none"

InsertMemory(r) ==
  LET m == reqs[r].key IN
  /\ reqs[r].pc = "insert"
  /\ IF Free(m)
     THEN /\ memories' = [memories EXCEPT ![m] = [NoMemory EXCEPT !.status = "active",
                                                                  !.body = reqs[r].body]]
          /\ feed' = Append(feed, Change(m, FALSE))
     ELSE UNCHANGED <<memories, feed>>
  /\ Goto(r, "read")
  /\ UNCHANGED <<phones, told>>

\* A replay that is answered without a look at what the key stands for.
SameRequest_Any(r) == TRUE

\* ensure_matching_request_hash.
SameRequest(r) == memories[reqs[r].key].body = reqs[r].body

AnswerCreate(r) ==
  /\ reqs[r].pc = "read"
  /\ told' = IF SameRequest(r) THEN told \cup {<<reqs[r].key, reqs[r].body>>} ELSE told
  /\ Leave(r)
  /\ UNCHANGED <<feed, phones, memories>>

\* soft_delete reads what it will report ...
StartDelete(r, m) ==
  /\ reqs[r].pc = "idle" /\ m \in Readable
  /\ reqs' = [reqs EXCEPT ![r] = [Idle EXCEPT !.pc = "delete", !.key = m]]
  /\ UNCHANGED <<feed, phones, memories, told>>

\* The condition of the update: still there, and not expired.
Deletable == Readable

\* ... and deletes it, if it is still there.
DeleteMemory(r) ==
  LET gone == {reqs[r].key} \cap Deletable IN
  /\ reqs[r].pc = "delete"
  /\ memories' = Deleted(gone)
  /\ Publish(gone)
  /\ Leave(r)
  /\ UNCHANGED <<phones, told>>

\* soft_delete_expired_for_user deletes all that has expired, soft_delete_expired_all
\* a page of it.
SweepMemories ==
  \E gone \in SUBSET {m \in MemoryKeys : memories[m].status = "active" /\ memories[m].due} :
  /\ gone # {}
  /\ memories' = Deleted(gone)
  /\ Publish(gone)
  /\ UNCHANGED <<phones, reqs, told>>

-----------------------------------------------------------------------------
FollowFeed(p) ==
  /\ Sync(p, Readable)
  /\ UNCHANGED <<memories, reqs, told>>

MemoryExpires(m) ==
  /\ memories[m].status = "active" /\ ~memories[m].due
  /\ memories' = [memories EXCEPT ![m].due = TRUE]
  /\ UNCHANGED <<feed, phones, reqs, told>>

Next ==
  \/ \E r \in Requests :
       \/ \E m \in MemoryKeys, b \in Bodies : StartCreate(r, m, b)
       \/ InsertMemory(r) \/ AnswerCreate(r)
       \/ \E m \in MemoryKeys : StartDelete(r, m)
       \/ DeleteMemory(r)
  \/ SweepMemories
  \/ \E p \in Phones : FollowFeed(p)
  \/ \E m \in MemoryKeys : MemoryExpires(m)

Spec == Init /\ [][Next]_vars

-----------------------------------------------------------------------------
(* What memories.rs promises. *)

\* A request is answered with what it asked to be remembered, whichever of two
\* requests under the key came first.
ToldIsTheMemory == \A m \in MemoryKeys, b \in Bodies : <<m, b>> \in told => memories[m].body = b

\* A memory that was deleted stays deleted, although requests that began before go on.
DeletedIsFinal ==
  [][\A m \in MemoryKeys : memories[m].status = "deleted" => memories'[m] = memories[m]]_vars

\* A phone that has read the feed to its end holds every memory that is there and none
\* that was deleted.
SyncedPhoneIsCurrent ==
  Current(Readable, {m \in MemoryKeys : memories[m].status = "active"})
=============================================================================
