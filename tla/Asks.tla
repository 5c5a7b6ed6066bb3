--------------------------------- MODULE Asks ---------------------------------
(***************************************************************************)
(* The voice asks of asks.rs and the listener bindings of                  *)
(* listener_bindings.rs, for one agent.  A chat of the agent registers as  *)
(* its listener, for a lease and by several statements; a phone creates an *)
(* ask for the listener it finds, with a session, the row of the ask and   *)
(* the message of its turn in three statements; the chat polls, claims the *)
(* asks that are bound to it.  A Worker that stops is one that never goes   *)
(* on, while another request of the phone repeats what it asked.           *)
(* A session created for an ask is named by the key of that ask, since its *)
(* idempotency key is made of it.                                          *)
(***************************************************************************)
CONSTANTS
  Chats,     \* the chats that may register as the listener of the agent
  AskKeys,   \* the idempotency keys of the asks
  Texts,     \* what the phone asks
  Phones,    \* the requests of phones that run at the same time
  None       \* no chat, no key, no text

VARIABLES
  bindings,  \* agent_chat_bindings, by chat
  hosts,     \* what the host of each chat is doing
  asks,      \* phone_asks, by idempotency key
  sessions,  \* the sessions of asks: the chat, and whether the user deleted it
  messages,  \* the asks whose message is in the session
  phones,    \* the requests that create asks
  told,      \* the asks a phone was told of, with the text it sent
  overlap    \* whether two registrations have overlapped

vars == <<bindings, hosts, asks, sessions, messages, phones, told, overlap>>

-----------------------------------------------------------------------------
NoBinding == [status |-> "none", due |-> FALSE]
NoAsk == [status |-> "none", chat |-> None, by |-> None, text |-> None, session |-> None, due |-> FALSE]
NoSession == [chat |-> None, deleted |-> FALSE]
HostIdle == [pc |-> "idle", got |-> {}]
PhoneIdle == [pc |-> "idle", key |-> None, text |-> None, session |-> None, chat |-> None]

TypeOK ==
  /\ bindings \in [Chats -> [status : {"none", "active", "expired", "revoked"}, due : BOOLEAN]]
  /\ hosts \in [Chats -> [pc : {"idle", "revoke", "save", "list", "claim"}, got : SUBSET AskKeys]]
  /\ asks \in [AskKeys -> [status : {"none", "queued", "claimed", "expired"},
                           chat : Chats \cup {None}, by : Chats \cup {None},
                           text : Texts \cup {None}, session : AskKeys \cup {None}, due : BOOLEAN]]
  /\ sessions \in [AskKeys -> [chat : Chats \cup {None}, deleted : BOOLEAN]]
  /\ messages \subseteq AskKeys
  /\ phones \in [Phones -> [pc : {"idle", "session", "insert", "message"},
                            key : AskKeys \cup {None}, text : Texts \cup {None},
                            session : AskKeys \cup {None}, chat : Chats \cup {None}]]
  /\ told \subseteq AskKeys \X Texts
  /\ overlap \in BOOLEAN

Init ==
  /\ bindings = [c \in Chats |-> NoBinding]
  /\ hosts = [c \in Chats |-> HostIdle]
  /\ asks = [k \in AskKeys |-> NoAsk]
  /\ sessions = [k \in AskKeys |-> NoSession]
  /\ messages = {}
  /\ phones = [p \in Phones |-> PhoneIdle]
  /\ told = {}
  /\ overlap = FALSE

book == <<asks, sessions, messages, phones, told>>

-----------------------------------------------------------------------------
(* The host of a chat registers it as the listener, keeps it so, or gives it up. *)

HostAt(c, pc) == hosts' = [hosts EXCEPT ![c].pc = pc]
HostLeaves(c) == hosts' = [hosts EXCEPT ![c] = HostIdle]

Live(c) == bindings[c].status = "active" /\ ~bindings[c].due

\* expire_stale.
ExpireStale ==
  [c \in Chats |-> IF bindings[c].status = "active" /\ bindings[c].due
                   THEN [bindings[c] EXCEPT !.status = "expired"] ELSE bindings[c]]

\* register_listener finds out whether another chat is listening, which only an
\* explicit takeover may replace; without one it is refused.
Register(c, takeover) ==
  /\ hosts[c].pc = "idle"
  /\ bindings' = ExpireStale
  /\ takeover \/ \A d \in Chats \ {c} : ~Live(d)
  /\ HostAt(c, "revoke")
  /\ overlap' = (overlap \/ \E d \in Chats : hosts[d].pc \in {"revoke", "save"})
  /\ UNCHANGED book

\* A registration that leaves the other chats as they are.
Revoked_None(c) == bindings

\* The others are revoked ...
Revoked(c) ==
  [d \in Chats |-> IF d # c /\ bindings[d].status = "active"
                   THEN [bindings[d] EXCEPT !.status = "revoked"] ELSE bindings[d]]

RevokeOthers(c) ==
  /\ hosts[c].pc = "revoke"
  /\ bindings' = Revoked(c)
  /\ HostAt(c, "save")
  /\ UNCHANGED <<overlap, book>>

\* ... and the binding of the chat is inserted or made active again.
SaveBinding(c) ==
  /\ hosts[c].pc = "save"
  /\ bindings' = [bindings EXCEPT ![c] = [status |-> "active", due |-> FALSE]]
  /\ HostLeaves(c)
  /\ UNCHANGED <<overlap, book>>

\* disconnect_listener.
Disconnect(c) ==
  /\ hosts[c].pc = "idle" /\ Live(c)
  /\ bindings' = [bindings EXCEPT ![c].status = "revoked"]
  /\ UNCHANGED <<hosts, overlap, book>>

-----------------------------------------------------------------------------
(* The listener polls for the asks that are bound to it. *)

\* require_request_binding, and expire_asks at the head of list_agent_asks.
StartPoll(c) ==
  /\ hosts[c].pc = "idle" /\ Live(c)
  /\ asks' = [k \in AskKeys |-> IF asks[k].status = "queued" /\ asks[k].due
                                THEN [asks[k] EXCEPT !.status = "expired"] ELSE asks[k]]
  /\ HostAt(c, "list")
  /\ UNCHANGED <<bindings, sessions, messages, phones, told, overlap>>

\* The page of queued asks bound to this chat, which the poll claims or only shows.
ListAsks(c) ==
  LET page == {k \in AskKeys : asks[k].status = "queued" /\ asks[k].chat = c} IN
  /\ hosts[c].pc = "list"
  /\ hosts' = [hosts EXCEPT ![c] = IF page = {} THEN HostIdle ELSE [pc |-> "claim", got |-> page]]
  /\ UNCHANGED <<bindings, overlap, book>>

\* A claim of what the page says.
Claimable_Listed(k) == TRUE

\* The WHERE clause of claim_asks.
Claimable(k) == asks[k].status = "queued"

\* One claim after the other, until the page is done.
ClaimAsk(c, k) ==
  /\ hosts[c].pc = "claim" /\ k \in hosts[c].got
  /\ asks' = IF Claimable(k) THEN [asks EXCEPT ![k].status = "claimed", ![k].by = c] ELSE asks
  /\ hosts' = [hosts EXCEPT ![c] = IF hosts[c].got = {k} THEN HostIdle
                                   ELSE [hosts[c] EXCEPT !.got = @ \ {k}]]
  /\ UNCHANGED <<bindings, sessions, messages, phones, told, overlap>>

-----------------------------------------------------------------------------
(* A phone creates an ask. *)

PhoneAt(p, pc) == phones' = [phones EXCEPT ![p].pc = pc]
PhoneLeaves(p) == phones' = [phones EXCEPT ![p] = PhoneIdle]
Mine(p) == asks[phones[p].key]

\* A replay that takes any text for the one it has recorded.
SameText_Any(k, text) == TRUE

\* A key stands for one text.
SameText(k, text) == asks[k].text = text

\* create_ask finds the live listener, and the ask when the key has one; what is
\* replayed must agree in its text, the session it names and the listener.
StartAsk(p, k, text, s, c) ==
  /\ phones[p].pc = "idle" /\ Live(c)
  /\ bindings' = ExpireStale
  /\ IF asks[k].status = "none"
     THEN phones' = [phones EXCEPT ![p] = [pc |-> "session", key |-> k, text |-> text,
                                           session |-> s, chat |-> c]]
     ELSE /\ SameText(k, text) /\ s \in {None, asks[k].session} /\ asks[k].chat = c
          /\ phones' = [phones EXCEPT ![p] = [pc |-> "message", key |-> k, text |-> text,
                                              session |-> asks[k].session, chat |-> c]]
  /\ UNCHANGED <<hosts, asks, sessions, messages, told, overlap>>

\* create_or_resume_session: a session the phone names must be of this chat; the
\* session of the key is taken as it is when it exists, and created otherwise.
AskSession(p) ==
  LET s == phones[p].session
      k == phones[p].key
  IN
  /\ phones[p].pc = "session"
  /\ \/ /\ s # None
        /\ IF sessions[s].chat = phones[p].chat /\ ~sessions[s].deleted
           THEN PhoneAt(p, "insert") ELSE PhoneLeaves(p)
        /\ UNCHANGED sessions
     \/ /\ s = None
        /\ phones' = [phones EXCEPT ![p].pc = "insert", ![p].session = k]
        /\ sessions' = IF sessions[k].chat = None
                       THEN [sessions EXCEPT ![k].chat = phones[p].chat] ELSE sessions
  /\ UNCHANGED <<bindings, hosts, asks, messages, told, overlap>>

\* The insert does nothing when the key has an ask.
Inserts(p) == Mine(p).status = "none"

\* The insert; the one that lost reads the ask that won.
InsertAsk(p) ==
  LET q == phones[p] IN
  /\ q.pc = "insert"
  /\ IF Inserts(p)
     THEN /\ asks' = [asks EXCEPT ![q.key] = [NoAsk EXCEPT !.status = "queued", !.chat = q.chat,
                                              !.text = q.text, !.session = q.session]]
          /\ PhoneAt(p, "message")
     ELSE /\ IF SameText(q.key, q.text) /\ Mine(p).session = q.session
             THEN PhoneAt(p, "message") ELSE PhoneLeaves(p)
          /\ UNCHANGED asks
  /\ UNCHANGED <<bindings, hosts, sessions, messages, told, overlap>>

\* The insert of ensure_ask_message, by the name of the ask: once, in a session that
\* is not deleted.
Persisted(p) ==
  IF sessions[phones[p].session].deleted THEN messages ELSE messages \cup {phones[p].key}

\* ensure_ask_message, and the answer: an error when the message is not there.
EnsureMessage(p) ==
  /\ phones[p].pc = "message"
  /\ messages' = Persisted(p)
  /\ told' = IF phones[p].key \in messages' THEN told \cup {<<phones[p].key, phones[p].text>>}
             ELSE told
  /\ PhoneLeaves(p)
  /\ UNCHANGED <<bindings, hosts, asks, sessions, overlap>>

-----------------------------------------------------------------------------
(* Time, the user and the platform. *)

LeasePasses(c) ==
  /\ bindings[c].status = "active" /\ ~bindings[c].due
  /\ bindings' = [bindings EXCEPT ![c].due = TRUE]
  /\ UNCHANGED <<hosts, overlap, book>>

AskLapses(k) ==
  /\ asks[k].status = "queued" /\ ~asks[k].due
  /\ asks' = [asks EXCEPT ![k].due = TRUE]
  /\ UNCHANGED <<bindings, hosts, sessions, messages, phones, told, overlap>>

DeleteSession(s) ==
  /\ sessions[s].chat # None /\ ~sessions[s].deleted
  /\ sessions' = [sessions EXCEPT ![s].deleted = TRUE]
  /\ UNCHANGED <<bindings, hosts, asks, messages, phones, told, overlap>>

HostStops(c) ==
  /\ hosts[c].pc # "idle"
  /\ HostLeaves(c)
  /\ UNCHANGED <<bindings, overlap, book>>

Next ==
  \/ \E c \in Chats :
       \/ \E takeover \in BOOLEAN : Register(c, takeover)
       \/ RevokeOthers(c) \/ SaveBinding(c) \/ Disconnect(c)
       \/ StartPoll(c) \/ ListAsks(c) \/ \E k \in AskKeys : ClaimAsk(c, k)
       \/ LeasePasses(c) \/ HostStops(c)
  \/ \E p \in Phones :
       \/ \E k \in AskKeys, text \in Texts, s \in AskKeys \cup {None}, c \in Chats :
            StartAsk(p, k, text, s, c)
       \/ AskSession(p) \/ InsertAsk(p) \/ EnsureMessage(p)
  \/ \E k \in AskKeys : AskLapses(k) \/ DeleteSession(k)

Spec == Init /\ [][Next]_vars

-----------------------------------------------------------------------------
(* What the asks and the bindings promise. *)

\* What a phone was told of is what it asked, and its turn is in the session: neither
\* another text under the key, nor a slower request, nor a stop in between leaves a
\* phone with an ask that is not its own or that has no message.
ToldIsTheAsk == \A k \in AskKeys, text \in Texts :
  <<k, text>> \in told => asks[k].text = text /\ k \in messages

\* An ask is claimed once and from the queue: what has been claimed or has expired
\* is not claimed, queued or bound again.
AskEndsOnce ==
  [][\A k \in AskKeys :
       /\ asks[k].status \in {"claimed", "expired"} => asks'[k] = asks[k]
       /\ asks[k].status # "none" => /\ asks'[k].chat = asks[k].chat
                                     /\ asks'[k].text = asks[k].text]_vars

\* Two chats listen at once only when their registrations overlapped.
TwoListenersNeedOverlap ==
  (\E c, d \in Chats : c # d /\ Live(c) /\ Live(d)) => overlap
=============================================================================
