SPECIFICATION FairSpec
CONSTANTS
  Commands = {c1}
  NoCommand = none
  Workers = {w1}
  Intents = {"create_reminder", "send_message"}
  Modes = {"internal", "external"}
  PolicyMayChange = FALSE
  MaxAttempts = 2
  ClaimBound = 5
  FaultBound = 2
PROPERTIES EventuallySettled DeliveryIsReported
CHECK_DEADLOCK FALSE
