SPECIFICATION Spec
CONSTANTS
  Commands = {c1}
  NoCommand = none
  Workers = {w1, w2}
  Intents = {"create_reminder", "send_message"}
  Modes = {"external"}
  PolicyMayChange = FALSE
  MaxAttempts = 2
  ClaimBound = 3
  FaultBound = 2
INVARIANTS AtMostOneSend VerdictIsTrue
SYMMETRY Symmetry
CHECK_DEADLOCK FALSE
