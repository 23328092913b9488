CONSTANTS
  Code = {k1, k2, k3, k4}
  Wrong = Wrong
  Req = {r1, r2}
  MaxAttempts = 1
  EventCap = 1
SPECIFICATION Spec
SYMMETRY Symmetry
INVARIANTS
  OneWinPerReset
  AttemptsBounded
PROPERTIES
  DeadCodeRefused
