------------------------------ MODULE Retention ------------------------------
(***************************************************************************)
(* The end of retrievals, history.rs.  Their snapshots are objects in R2,  *)
(* which several retrievals may share.  The cron trigger and the requests  *)
(* of the user sweep what has expired, and overlap: a sweep reads a page   *)
(* of expired retrievals and the other references to their objects,        *)
(* deletes the objects one by one, then the rows in one statement, and     *)
(* publishes each row by a statement of its own.  An error of the database *)
(* or of R2, or the end of the Worker, ends it between any two steps.      *)
(***************************************************************************)
EXTENDS Feed

CONSTANTS
  Retrievals,  \* the ids of retrieval_items
  Keys,        \* the R2 keys of the user
  Sweeps,      \* the sweeps that run at the same time
  Batch,       \* RETENTION_SWEEP_BATCH
  None         \* no key

VARIABLES
  rows,      \* retrieval_items; a deleted row has a key in the model only
  objects,   \* the R2 objects that are stored: the agent's snapshots, before it reports them
  sweeps,    \* the sweeps under way
  cut,       \* the rows a sweep had yet to publish when it ended early
  raced,     \* the keys that were reported again while a sweep was about to delete them
  split      \* the keys a sweep kept for a row that was in the page of another sweep

vars == <<feed, phones, rows, objects, sweeps, cut, raced, split>>

-----------------------------------------------------------------------------
NoRow == [status |-> "none", key |-> None, due |-> FALSE]
Idle == [pc |-> "idle", page |-> {}, doomed |-> {}, todo |-> {}]

TypeOK ==
  /\ FeedOK(Retrievals)
  /\ rows \in [Retrievals -> [status : {"none", "active", "deleted"}, key : Keys \cup {None},
                              due : BOOLEAN]]
  /\ objects \subseteq Keys
  /\ sweeps \in [Sweeps -> [pc : {"idle", "refs", "objects", "rows", "publish"},
                            page : SUBSET Retrievals, doomed : SUBSET Keys,
                            todo : SUBSET Retrievals]]
  /\ cut \subseteq Retrievals /\ raced \subseteq Keys /\ split \subseteq Keys

Init ==
  /\ FeedInit
  /\ rows = [r \in Retrievals |-> NoRow]
  /\ objects = Keys
  /\ sweeps = [s \in Sweeps |-> Idle]
  /\ cut = {} /\ raced = {} /\ split = {}

SweepAt(s, pc) == sweeps' = [sweeps EXCEPT ![s].pc = pc]

-----------------------------------------------------------------------------
\* report_event inserts a retrieval that refers to a stored snapshot; the trigger
\* publishes it.
ReportRetrieval(r, k) ==
  /\ rows[r].status = "none" /\ k \in objects
  /\ rows' = [rows EXCEPT ![r] = [status |-> "active", key |-> k, due |-> FALSE]]
  /\ feed' = Append(feed, Change(r, FALSE))
  /\ raced' = IF \E s \in Sweeps : k \in sweeps[s].doomed THEN raced \cup {k} ELSE raced
  /\ UNCHANGED <<phones, objects, sweeps, cut, split>>

-----------------------------------------------------------------------------
(* The sweep: purge_expired and purge_expired_all. *)

Expired == {r \in Retrievals : rows[r].status = "active" /\ rows[r].due}

\* expired_retrievals: the oldest of them, in the order in which they were inserted.
Page ==
  LET inserted == {i \in 1..Len(feed) : ~feed[i].gone /\ feed[i].item \in Expired}
  IN  {feed[i].item : i \in {j \in inserted : Cardinality({k \in inserted : k < j}) < Batch}}

StartSweep(s) ==
  /\ sweeps[s].pc = "idle" /\ Page # {}
  /\ sweeps' = [sweeps EXCEPT ![s] = [Idle EXCEPT !.pc = "refs", !.page = Page]]
  /\ UNCHANGED <<rows, objects, feed, phones, cut, raced, split>>

KeysOf(rs) == {rows[r].key : r \in {q \in rs : rows[q].status = "active"}}

\* Objects that are deleted for the page, whoever else refers to them.
Protected_None(s) == {}

\* A reference query that does not leave the page out.
Protected_Page(s) == KeysOf(Retrievals)

\* The keys that rows out of the page refer to.
Protected(s) == KeysOf(Retrievals \ sweeps[s].page)

\* delete_r2_objects asks for the other references ...
ReadReferences(s) ==
  /\ sweeps[s].pc = "refs"
  /\ sweeps' = [sweeps EXCEPT ![s].pc = "objects",
                              ![s].doomed = {rows[r].key : r \in sweeps[s].page} \ Protected(s)]
  /\ split' = split \cup (Protected(s) \cap
                 KeysOf((UNION {sweeps[t].page : t \in Sweeps}) \ sweeps[s].page))
  /\ UNCHANGED <<rows, objects, feed, phones, cut, raced>>

\* ... and deletes the objects nobody else refers to, one by one.
DeleteObject(s, k) ==
  /\ sweeps[s].pc = "objects" /\ k \in sweeps[s].doomed
  /\ objects' = objects \ {k}
  /\ sweeps' = [sweeps EXCEPT ![s].doomed = @ \ {k}]
  /\ UNCHANGED <<rows, feed, phones, cut, raced, split>>

ObjectsDeleted(s) ==
  /\ sweeps[s].pc = "objects" /\ sweeps[s].doomed = {}
  /\ SweepAt(s, "rows")
  /\ UNCHANGED <<rows, objects, feed, phones, cut, raced, split>>

\* expire_retrieval_rows: the update of the rows ...
ExpireRows(s) ==
  /\ sweeps[s].pc = "rows"
  /\ rows' = [r \in Retrievals |-> IF r \in sweeps[s].page
                                   THEN [rows[r] EXCEPT !.status = "deleted"]
                                   ELSE rows[r]]
  /\ sweeps' = [sweeps EXCEPT ![s].pc = "publish", ![s].todo = sweeps[s].page]
  /\ UNCHANGED <<objects, feed, phones, cut, raced, split>>

\* ... then, for each row of the page, the tombstone, which nothing reads, and the
\* change, once more if another sweep had the row in its page: INSERT OR IGNORE has no
\* unique index left to ignore it by.
PublishRow(s, r) ==
  /\ sweeps[s].pc = "publish" /\ r \in sweeps[s].todo
  /\ feed' = Append(feed, Change(r, TRUE))
  /\ sweeps' = [sweeps EXCEPT ![s] = IF sweeps[s].todo = {r} THEN Idle
                                     ELSE [sweeps[s] EXCEPT !.todo = @ \ {r}]]
  /\ UNCHANGED <<rows, objects, phones, cut, raced, split>>

\* An error, or the end of the Worker.
SweepFails(s) ==
  /\ sweeps[s].pc # "idle"
  /\ cut' = cut \cup sweeps[s].todo
  /\ sweeps' = [sweeps EXCEPT ![s] = Idle]
  /\ UNCHANGED <<rows, objects, feed, phones, raced, split>>

-----------------------------------------------------------------------------
\* What get_retrieval finds.
Readable == {r \in Retrievals : rows[r].status = "active" /\ ~rows[r].due}

FollowFeed(p) ==
  /\ Sync(p, Readable)
  /\ UNCHANGED <<rows, objects, sweeps, cut, raced, split>>

RetentionPasses(r) ==
  /\ rows[r].status = "active" /\ ~rows[r].due
  /\ rows' = [rows EXCEPT ![r].due = TRUE]
  /\ UNCHANGED <<objects, feed, phones, sweeps, cut, raced, split>>

Next ==
  \/ \E r \in Retrievals : RetentionPasses(r) \/ \E k \in Keys : ReportRetrieval(r, k)
  \/ \E s \in Sweeps :
       \/ StartSweep(s) \/ ReadReferences(s) \/ \E k \in Keys : DeleteObject(s, k)
       \/ ObjectsDeleted(s) \/ ExpireRows(s) \/ \E r \in Retrievals : PublishRow(s, r)
       \/ SweepFails(s)
  \/ \E p \in Phones : FollowFeed(p)

Spec == Init /\ [][Next]_vars

-----------------------------------------------------------------------------
(* What retention promises. *)

\* The retention of one retrieval does not break the download of another that shares
\* its snapshot, unless the other was reported after the references were read.
SharedObjectIsKept == \A r \in Retrievals :
  rows[r].status = "active" /\ ~rows[r].due /\ rows[r].key \notin objects => rows[r].key \in raced

\* When the last retrieval of a snapshot has been deleted the object is gone as well,
\* wherever sweeps were cut off: no later sweep would find it.  Only two sweeps at once,
\* with the last retrievals of the snapshot in different pages, leave it behind.
NoOrphanObject == \A r \in Retrievals :
  rows[r].status = "deleted" /\ rows[r].key \notin KeysOf(Retrievals) /\ rows[r].key \in objects
    => rows[r].key \in split

\* A snapshot is stored as long as a retrieval refers to it, and no longer.
SnapshotsMatchRows == SharedObjectIsKept /\ NoOrphanObject

\* A phone that has read the feed to its end holds the retrievals that are there, and
\* none that was deleted, except those a sweep has yet to publish or was cut off from
\* publishing.
SyncedPhoneIsCurrent ==
  Current(Readable, {r \in Retrievals : rows[r].status = "active"} \cup cut
                      \cup UNION {sweeps[s].todo : s \in Sweeps})

\* A deletion is published once the sweep is over.
DeletedIsPublished == \A r \in Retrievals :
  rows[r].status = "deleted" =>
    \/ Change(r, TRUE) \in ToSet(feed)
    \/ \E s \in Sweeps : r \in sweeps[s].todo
=============================================================================
