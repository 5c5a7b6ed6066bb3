-------------------------- MODULE ConfirmationDocs --------------------------
(***************************************************************************)
(* What the documents of the repository say of the confirmation tokens     *)
(* that the code, as the module Confirmation models it, does not do.       *)
(***************************************************************************)
EXTENDS Confirmation

\* "Token rotation increments command version, and a response never returns a
\* token made stale by a competing rotation."  A replay compares the version when
\* it reads the command again, but the response is built from a third read, and
\* the token of a first create is not compared at all.
ResponseTokenIsCurrent ==
  [][\A r \in Requests :
       request[r].pc = "reply" /\ request[r].tok # 0 /\ Awaiting /\ held' # held
       => request[r].tok \in unused \/ overdue]_vars
=============================================================================
