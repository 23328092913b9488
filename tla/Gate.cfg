CONSTANTS
  Conn = {c1, c2, c3}
  IP = {a, b}
  Token = {t}
  None = None
  MaxConns = 1
  MaxAttempts = 2
  MaxEvents = 1
  Window = 2
  MaxTime = 4
SPECIFICATION Spec
SYMMETRY Symmetry
INVARIANTS
  CountIsOpen
  AttemptsPerMinute
  EventsPerMinute
CHECK_DEADLOCK FALSE
