SPECIFICATION FairSpec
CONSTANTS
  Drains = {d1, d2}
  Modes = {"dev", "apns", "both"}
  MaxAttempts = 3
  FaultBound = 4
INVARIANTS DeliveredOnce
PROPERTIES StatusIsFinal EventuallyHandled DeletedIsCancelled
CHECK_DEADLOCK FALSE
