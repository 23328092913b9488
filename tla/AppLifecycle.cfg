CONSTANTS
  Bridge = {b1, b2}
  NoBridge = NoBridge
  EventCap = 1
  MaxSetups = 1
SPECIFICATION FairSpec
INVARIANTS
  OneListener
  UpIsTrue
  LoneBridgeKeepsRoute
  PendingRestartHasCause
PROPERTIES
  AbandonedBridgeStops
