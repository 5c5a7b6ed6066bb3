SPECIFICATION Spec
CONSTANTS
  Drains = {d1, d2}
  Modes = {"dev"}
  MaxAttempts = 3
  FaultBound = 3
INVARIANT ExhaustedIsFailed
CHECK_DEADLOCK FALSE
