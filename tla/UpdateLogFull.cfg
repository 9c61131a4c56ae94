\* A log that fills up inside a transaction, one crash.
CONSTANTS
  t1 = t1  t2 = t2  t3 = t3
  Tx = {t1, t2, t3}
  Default = Default  None = None  Torn = Torn
  Inserts = {t1, t2}
  Autocommit = {}
  Full = {t1}
  MaxCrashes = 1
SPECIFICATION Spec
CHECK_DEADLOCK FALSE
INVARIANT NothingLost
