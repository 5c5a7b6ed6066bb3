SPECIFICATION Spec
CONSTANTS
  Requests = {r1, r2}
  Drains = {d1}
  Payloads = {p}
  NoPayload = none
  Confirmed = {p}
  TokenBound = 3
  FaultBound = 1
PROPERTY ResponseTokenIsCurrent
CHECK_DEADLOCK FALSE
