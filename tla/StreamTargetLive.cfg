SPECIFICATION StreamFairSpec
CONSTANTS
  c1 = c1
  c2 = c2
  Conn = {c1}
  MaxMsg = 1
PROPERTY StopEndsHandlers
CHECK_DEADLOCK FALSE
