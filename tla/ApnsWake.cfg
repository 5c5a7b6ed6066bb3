SPECIFICATION FairSpec
CONSTANTS
  Workers = {w1, w2, w3}
  Modes = {"dev", "apns"}
  MaxAttempts = 3
  FaultBound = 4
PROPERTIES WakesOnce EventuallyDecided
CHECK_DEADLOCK FALSE
