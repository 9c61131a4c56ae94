CONSTANTS
  a = a
  b = b
  w = w
  x = x
  Ukeys = {a, b, w}
  Type <- AutoWeb
  MaxMiss = 1
  MaxRequests = 1
  MaxSent = 2
  MaxCrashes = 0
SPECIFICATION Spec
CHECK_DEADLOCK FALSE
INVARIANTS CacheFollowsTable OnlineHasRow
SYMMETRY AutoSymmetry
