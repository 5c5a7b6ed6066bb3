------------------------------ MODULE RateLimits ------------------------------
(***************************************************************************)
(* One bucket of rate_limits.rs: a request counts itself by an upsert that *)
(* starts a window anew when the last one has passed, then reads the row   *)
(* and is rejected when the count is over the limit.  Other requests may   *)
(* come between the two.                                                   *)
(***************************************************************************)
EXTENDS Naturals

CONSTANTS
  Requests,  \* the requests that run at the same time
  Limit,     \* the limit of the bucket
  MaxCount   \* bound of the count

VARIABLES
  count,     \* request_count, 0 before there is a row
  due,       \* whether the window has passed
  reqs,      \* the requests: idle, or about to read in the window they were counted in
             \* (current) or in a later one (past)
  admitted   \* the requests counted and admitted in the current window

vars == <<count, due, reqs, admitted>>

-----------------------------------------------------------------------------
TypeOK ==
  /\ count \in 0..MaxCount /\ due \in BOOLEAN
  /\ reqs \in [Requests -> {"idle", "current", "past"}]
  /\ admitted \in 0..MaxCount

Init == count = 0 /\ due = TRUE /\ reqs = [r \in Requests |-> "idle"] /\ admitted = 0

\* A window that starts without the request that starts it.
FirstCount_Zero == 0

\* The request that starts a window is counted.
FirstCount == 1

CountRequest(r) ==
  /\ reqs[r] = "idle"
  /\ due' = FALSE
  /\ \/ /\ due
        /\ count' = FirstCount
        /\ admitted' = 0
        /\ reqs' = [q \in Requests |-> CASE q = r -> "current"
                                         [] reqs[q] = "current" -> "past"
                                         [] OTHER -> reqs[q]]
     \/ /\ ~due /\ count < MaxCount
        /\ count' = count + 1
        /\ reqs' = [reqs EXCEPT ![r] = "current"]
        /\ UNCHANGED admitted

\* The read decides.
Decide(r) ==
  /\ reqs[r] # "idle"
  /\ admitted' = IF reqs[r] = "current" /\ count <= Limit THEN admitted + 1 ELSE admitted
  /\ reqs' = [reqs EXCEPT ![r] = "idle"]
  /\ UNCHANGED <<count, due>>

WindowPasses == ~due /\ due' = TRUE /\ UNCHANGED <<count, reqs, admitted>>

Next ==
  \/ \E r \in Requests : CountRequest(r) \/ Decide(r)
  \/ WindowPasses

Spec == Init /\ [][Next]_vars

-----------------------------------------------------------------------------
\* Of the requests that are counted and decided in one window no more than the limit
\* are admitted, although the decision is made by a read of its own.
WindowAdmitsLimit == admitted <= Limit
=============================================================================
