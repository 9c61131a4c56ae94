CONSTANTS
  p1 = p1  p2 = p2
  Producers = {p1, p2}
  NCAP_MAX_COUNT = 1
  Slots = 3
  MaxMsgs = 3
  MaxRestarts = 1
  Garbage = Garbage
SPECIFICATION Spec
CHECK_DEADLOCK FALSE
INVARIANT CountExact
PROPERTIES RingIsFifo Drained
