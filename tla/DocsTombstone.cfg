SPECIFICATION Spec
CONSTANTS
  Retrievals = {r1, r2}
  Keys = {x1}
  Sweeps = {s1, s2}
  Phones = {p1}
  Batch = 1
  Limit = 1
  None = None
INVARIANT DeletedIsPublished
CHECK_DEADLOCK FALSE
