---------------------------- MODULE RemindersDocs ---------------------------
(***************************************************************************)
(* What a test of reminders.rs says of the delivery of reminders that the  *)
(* code, as the module Reminders models it, does not do.                   *)
(***************************************************************************)
EXTENDS Reminders

\* reminder_attempts_exhaust_after_three_claims: a reminder that failed at its
\* last attempt is `failed'.  finish_error counts from the page it has read, so a
\* drain that claims a row others have tried meanwhile leaves it `retrying', which
\* no page selects any more.
ExhaustedIsFailed ==
  Scheduled /\ reminder.attempts >= MaxAttempts => reminder.state # "retrying"
=============================================================================
