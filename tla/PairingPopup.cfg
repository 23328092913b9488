CONSTANTS
  Code = {k1, k2, k3}
  Wrong = Wrong
  Req = {r1}
  MaxAttempts = 1
  EventCap = 1
SPECIFICATION FairSpec
PROPERTIES
  QrStaysUsable
