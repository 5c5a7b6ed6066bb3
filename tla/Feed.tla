-------------------------------- MODULE Feed --------------------------------
(***************************************************************************)
(* The feed of phone_changes and the phones that follow it by phone_sync.  *)
(* A change says that an item was inserted or is gone; a phone reads the   *)
(* changes after its cursor, a page at a time, drops what is gone and      *)
(* fetches the rest.                                                       *)
(***************************************************************************)
EXTENDS Naturals, Sequences, FiniteSetsExt, SequencesExt

CONSTANTS
  Phones,
  Limit    \* the changes of a page

VARIABLES
  feed,    \* phone_changes of a user, in the order of their cursors
  phones   \* the cursor of each phone, and the items it holds

-----------------------------------------------------------------------------
Change(item, gone) == [item |-> item, gone |-> gone]

\* A change may be in the feed more than once: since migration 0015 no unique index on
\* entity and version keeps a second one out.
FeedOK(items) ==
  /\ feed \in Seq([item : items, gone : BOOLEAN])
  /\ phones \in [Phones -> [cursor : 0..Len(feed), holds : SUBSET items]]

FeedInit ==
  /\ feed = <<>>
  /\ phones = [p \in Phones |-> [cursor |-> 0, holds |-> {}]]

\* The position of the change that would show that there is more, there or not.
CursorAfter_Counted(cursor) == cursor + Limit + 1

\* The cursor of the last change that was fetched, including the one that only shows
\* that there is more.
CursorAfter_Fetched(cursor) == Min({Len(feed), cursor + Limit + 1})

\* The cursor of the last change of the page.
CursorAfter(cursor) == Min({Len(feed), cursor + Limit})

\* phone_sync, for a phone that fetches what is there.  It drops what it fetches in
\* vain, and what its page says last is gone.
Sync(p, there) ==
  LET cursor == phones[p].cursor
      page == cursor + 1 .. Min({Len(feed), cursor + Limit})
      read == {feed[i].item : i \in page}
      last == {i \in page : \A j \in page : feed[j].item = feed[i].item => j <= i}
      gone == {feed[i].item : i \in {j \in last : feed[j].gone}}
  IN
  /\ cursor < Len(feed)
  /\ phones' = [phones EXCEPT ![p] =
                  [cursor |-> CursorAfter(cursor),
                   holds |-> (phones[p].holds \ read) \cup ((read \cap there) \ gone)]]
  /\ UNCHANGED feed

\* A phone that has read to the end holds all it should, and nothing it should not.
Current(must, may) == \A p \in Phones : phones[p].cursor = Len(feed) =>
  must \subseteq phones[p].holds /\ phones[p].holds \subseteq may
=============================================================================
