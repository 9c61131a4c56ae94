\* Requests of every kind, crashes at every place.
CONSTANTS
  t1 = t1  t2 = t2  t3 = t3
  Tx = {t1, t2, t3}
  Default = Default  None = None  Torn = Torn
  Inserts = {t1, t2}
  Autocommit = {t2, t3}
  Full = {t1, t3}
  MaxCrashes = 3
SPECIFICATION Spec
CHECK_DEADLOCK FALSE
INVARIANTS Durable RestoreOK TornIsLast
PROPERTY Recovers
