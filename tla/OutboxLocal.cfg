SPECIFICATION Spec
CONSTANTS
  Commands = {c1}
  NoCommand = none
  Workers = {w1, w2}
  Intents = {"search_history", "create_reminder", "create_draft", "send_message"}
  Modes = {"internal", "disabled"}
  PolicyMayChange = TRUE
  MaxAttempts = 2
  ClaimBound = 3
  FaultBound = 2
INVARIANTS VerdictIsTrue NoStrandedCommand
PROPERTIES EndsOnce
SYMMETRY Symmetry
CHECK_DEADLOCK FALSE
