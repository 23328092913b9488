CONSTANTS
  MaxReq = 4
  MaxConn = 2
  RxCap = 2
SPECIFICATION FairSpec
INVARIANTS
  AnsweredOnce
  CachedSessionOfAgent
  SettledKept
PROPERTIES
  SilentHere
  HandshakeAnswered
  SuppressionEnds
CHECK_DEADLOCK FALSE
