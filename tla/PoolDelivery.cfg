CONSTANTS
  Token = {t1, t2}
  Conn = {c1, c2}
  Agent = {a1, a2}
  None = None
  MaxAgents = 1
  IdleTimeout = 0
  BufferMessages = TRUE
  MaxBuffer = 1
  ChanCap = 1
  MaxEmit = 2
  DevicesPerToken = 2
SPECIFICATION Spec
SYMMETRY Symmetry
INVARIANTS
  TypeOK
  AttachedIsConnected
  ReplayBounded
  OncePerDevice
  LinesStayWithToken
PROPERTIES
  KilledOnlyIfDeserted
  WaitingLinesHandedOver
