CONSTANTS
  Call = {c1, c2}
  Cooldown = 5
  Timeout = 2
  Margin = 3
  Lifetime = {5, 9}
SPECIFICATION FairSpec
INVARIANTS StallBounded
PROPERTIES JwtFresh OnePushEach CallsEnd
