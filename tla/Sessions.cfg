SPECIFICATION Spec
CONSTANTS
  Events = {e1, e2}
  Keys = {safe, risky}
  Risky = {risky}
  Offers = {{}, {safe, risky}}
  Requests = {r1, r2}
  MaxMishaps = 1
  NoOne = NoOne
INVARIANTS OneChoicePerEvent CancelledNeverDone
PROPERTIES ImplementsLifecycle DeletedIsFrozen
SYMMETRY RequestSymmetry
CHECK_DEADLOCK FALSE
