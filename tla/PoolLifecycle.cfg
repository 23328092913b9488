CONSTANTS
  Token = {t1, t2}
  Conn = {c1, c2}
  Agent = {a1, a2, a3}
  None = None
  MaxAgents = 1
  IdleTimeout = 1
  BufferMessages = TRUE
  MaxBuffer = 1
  ChanCap = 1
  MaxEmit = 0
  DevicesPerToken = 2
SPECIFICATION FairSpec
INVARIANTS
  PoolBound
  NoOrphanProcess
PROPERTIES
  IdleReaped
  ImplementsOwnership
