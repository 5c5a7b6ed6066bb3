SPECIFICATION FairSpec
CONSTANTS
  Requests = {r1, r2}
  Drains = {d1}
  Payloads = {p, q}
  NoPayload = none
  Confirmed = {p}
  TokenBound = 3
  FaultBound = 1
INVARIANTS KeyIsOneCommand OneAuthority
PROPERTIES QueuedByNewestToken ReplayTokenIsCurrent EventuallyDecided
CHECK_DEADLOCK FALSE
