CONSTANTS
  Bridge = {b1, b2}
  NoBridge = NoBridge
  EventCap = 1
  MaxSetups = 0
SPECIFICATION Spec
PROPERTIES
  RestartFindsLockFree
