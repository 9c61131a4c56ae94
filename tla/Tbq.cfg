CONSTANTS
  c1 = c1  c2 = c2  u1 = u1  u2 = u2  f = f  g = g
  Rules = {1, 2}
  Users = {u1, u2}
  Flows = {f, g}
  UserOf <- TwoUsers
  Mask <- Masks
  Weight <- Weights
  Rate <- Rates
  Lens = {2}
  Quantum = 2
  LatencyShift = 1
  MaxBacklog = 2
  HZ = 1
  MaxLag = 1
  Cpus = {c1}
  MaxCommands = 2
  UnloadRunning = FALSE
  None = None
SPECIFICATION Spec
CHECK_DEADLOCK FALSE
INVARIANTS NoBug Accounted NeverStranded
