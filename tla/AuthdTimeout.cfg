CONSTANTS
  a = a
  b = b
  w = w
  x = x
  Ukeys = {w}
  Type <- WebOnly
  MaxMiss = 1
  MaxRequests = 1
  MaxSent = 2
  MaxCrashes = 1
SPECIFICATION Spec
CHECK_DEADLOCK FALSE
PROPERTIES TimedOut
