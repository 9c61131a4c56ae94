\* Two channels between two threads; a third thread closes them at any time.
CONSTANTS
  a = a  b = b  d = d  c1 = c1  c2 = c2
  NoThread = NoThread  NoChan = NoChan
  Threads = {a, b, d}  Chans = {c1, c2}
  Main = a
  MaxMsgs = 3
  MaxLen <- Lengths
  Readers <- TwoWayReaders
  Writers <- TwoWayWriters
  Closers <- AnyCloser
SPECIFICATION Spec
CHECK_DEADLOCK FALSE
INVARIANTS RunningOnce WakeupKept Fifo NoAssertFails
PROPERTIES Resumed
