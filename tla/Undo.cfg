SPECIFICATION FairSpec
CONSTANTS
  Requests = {r1, r2}
  Crons = {k1}
  ModeMayChange = TRUE
  FaultBound = 2
INVARIANTS UndoneIsReal OneCallAtATime
PROPERTIES SuccessIsKept CancelledIsReflected
CHECK_DEADLOCK FALSE
