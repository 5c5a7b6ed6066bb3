----------------------------- MODULE MCServices -----------------------------
(***************************************************************************)
(* The services around sessions and commands, each by itself: a behaviour  *)
(* belongs to one of them, which its initial state picks, and the others   *)
(* stay as they are.  They share no tables but the feed, so their steps    *)
(* need not be interleaved.                                                *)
(***************************************************************************)
EXTENDS Naturals, FiniteSets, TLC

CONSTANTS NoOne,
  OpKeys, Goals, Repeats,
  Chats, AskKeys, Texts, AskPhones,
  RefreshTokens, Logins, Codes, Requests,
  Users, Apps, PushTokens, DeviceIds, Registrations,
  Callers, BucketLimit, MaxCount,
  Phones, FeedLimit,
  Retrievals, Keys, Sweeps, Batch,
  MemoryKeys, Bodies, Writers

\* NoOne stands for an empty column; a limit counts a finite number of callers.
ASSUME OperationsAssumption == NoOne \notin Goals \cup Repeats
ASSUME AccessAssumption == NoOne \notin RefreshTokens \cup Logins \cup Requests
ASSUME PushesAssumption == NoOne \notin Users \cup Apps \cup PushTokens \cup DeviceIds
ASSUME LimitsAssumption ==
  IsFiniteSet(Callers) /\ BucketLimit \in Nat /\ MaxCount \in Nat \ {0}
ASSUME FeedAssumption == FeedLimit \in Nat
ASSUME NotesAssumption == NoOne \notin Bodies

VARIABLES part,
  ops, work, calls, told,
  bindings, hosts, asks, sessions, messages, askers, asked, overlap,
  tokens, codes, agents, reqs,
  devices, regs, collided,
  count, due, callers, admitted,
  feed, phones,
  rows, objects, sweeps, cut, raced, split,
  memories, writers, noted

operationsVars == <<ops, work, calls, told>>
voiceVars == <<bindings, hosts, asks, sessions, messages, askers, asked, overlap>>
accessVars == <<tokens, codes, agents, reqs>>
pushesVars == <<devices, regs, collided>>
limitsVars == <<count, due, callers, admitted>>
feedVars == <<feed, phones>>
snapshotsVars == <<rows, objects, sweeps, cut, raced, split>>
notesVars == <<memories, writers, noted>>
vars == <<part, operationsVars, voiceVars, accessVars, pushesVars, limitsVars,
          feedVars, snapshotsVars, notesVars>>

Operations == INSTANCE PhoneOperations WITH Requests <- Repeats
Voice == INSTANCE Asks WITH Phones <- AskPhones, None <- NoOne, phones <- askers, told <- asked
Access == INSTANCE Credentials WITH Tokens <- RefreshTokens
Pushes == INSTANCE Devices WITH Tokens <- PushTokens, Rows <- DeviceIds,
                                Requests <- Registrations, None <- NoOne, overlap <- collided
Limits == INSTANCE RateLimits WITH Requests <- Callers, Limit <- BucketLimit, reqs <- callers
Snapshots == INSTANCE Retention WITH Limit <- FeedLimit, None <- NoOne
Notes == INSTANCE Memories WITH Requests <- Writers, Limit <- FeedLimit, None <- NoOne,
                                reqs <- writers, told <- noted

Parts == {"operations", "voice", "access", "pushes", "limits", "snapshots", "notes"}

Init ==
  /\ part \in Parts
  /\ Operations!Init /\ Voice!Init /\ Access!Init /\ Pushes!Init /\ Limits!Init
  /\ Snapshots!Init /\ Notes!Init

\* The part goes on while the others stay as they are.
Only(p) ==
  /\ part = p /\ UNCHANGED part
  /\ IF p = "operations" THEN Operations!Next ELSE UNCHANGED operationsVars
  /\ IF p = "voice" THEN Voice!Next ELSE UNCHANGED voiceVars
  /\ IF p = "access" THEN Access!Next ELSE UNCHANGED accessVars
  /\ IF p = "pushes" THEN Pushes!Next ELSE UNCHANGED pushesVars
  /\ IF p = "limits" THEN Limits!Next ELSE UNCHANGED limitsVars
  /\ IF p = "snapshots" THEN Snapshots!Next ELSE UNCHANGED snapshotsVars
  /\ IF p = "notes" THEN Notes!Next ELSE UNCHANGED notesVars
  /\ IF p \in {"snapshots", "notes"} THEN TRUE ELSE UNCHANGED feedVars

Next == \E p \in Parts : Only(p)

Spec == Init /\ [][Next]_vars

\* The chats of an ask, the users of devices, the retrievals and the memories have the
\* same values, and so have the first two of what runs at the same time on each, so that
\* one set of permutations serves them all.
Symmetry == Permutations(Chats) \cup Permutations(AskPhones) \cup Permutations(Texts)

-----------------------------------------------------------------------------
(* What each of them promises, as its module says. *)

\* The types of every part.
TypeOK ==
  /\ Operations!TypeOK /\ Voice!TypeOK /\ Access!TypeOK
  /\ Pushes!TypeOK /\ Limits!TypeOK
  /\ IF part = "notes" THEN Notes!TypeOK ELSE Snapshots!TypeOK

\* phone_operations.rs: the answer of a key is true and stays its answer.
AnswersStand == Operations!AnswersStand

\* phone_operations.rs: a claim is not taken over or freed before its lease has passed.
ClaimIsKept == Operations!ClaimIsKept

\* asks.rs: a phone is told of its own ask, whose message is in the session.
ToldIsTheAsk == Voice!ToldIsTheAsk

\* asks.rs: an ask is claimed or expires once, and is not bound again.
AskEndsOnce == Voice!AskEndsOnce

\* listener_bindings.rs: only overlapping registrations leave two listeners.
TwoListenersNeedOverlap == Voice!TwoListenersNeedOverlap

\* auth.rs and lib.rs: racing refreshes leave a login with one token.
OneTokenPerLogin == Access!OneTokenPerLogin

\* lib.rs: a pairing code makes one agent, that of the claim that won.
OneAgentPerCode == Access!OneAgentPerCode

\* lib.rs: a push token has one row, and so has a device whose registrations do not overlap.
OneRowEach == Pushes!OneRowEach

\* rate_limits.rs: a window admits no more than the limit.
WindowAdmitsLimit == Limits!WindowAdmitsLimit

\* history.rs: a snapshot goes with the last of its retrievals.
SnapshotsMatchRows == Snapshots!SnapshotsMatchRows

\* memories.rs: a request is answered with what it asked to be remembered.
ToldIsTheMemory == Notes!ToldIsTheMemory

\* memories.rs: what was deleted stays so.
DeletedIsFinal == Notes!DeletedIsFinal

\* phone_sync: a phone that has read the feed to its end holds what is there.
SyncedPhoneIsCurrent ==
  IF part = "notes" THEN Notes!SyncedPhoneIsCurrent ELSE Snapshots!SyncedPhoneIsCurrent
=============================================================================
