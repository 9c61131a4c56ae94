CONSTANTS
  a = a
  b = b
  w = w
  x = x
  Ukeys = {x}
  Type <- WechatOnly
  MaxMiss = 1
  MaxRequests = 2
  MaxSent = 2
  MaxCrashes = 1
SPECIFICATION Spec
CHECK_DEADLOCK FALSE
INVARIANTS CacheFollowsTable OnlineHasRow
PROPERTIES Healed BatchTaken
