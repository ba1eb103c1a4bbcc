CONSTANTS
  k1 = k1
  k2 = k2
  a = a
  b = b
  h1 = h1
  h2 = h2
  Absent = Absent
  Nothing = Nothing
  Keys = {k1, k2}
  Words = {a, b}
  Capacity = 2
  MsPerSecond = 1
  IntMax = 1
  Epoch = 2
  Horizon = 0
  Handlers = {h1}
  MaxCommands = 3
  MaxCrashes = 2
  Inputs <- Plain
SPECIFICATION Spec
SYMMETRY Symmetry
INVARIANT FullRecovery
CHECK_DEADLOCK FALSE
