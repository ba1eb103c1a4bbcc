CONSTANTS
  k1 = k1
  a = a
  h1 = h1
  h2 = h2
  s1 = s1
  Absent = Absent
  Nothing = Nothing
  Keys = {k1}
  Words = {a}
  Capacity = 2
  MsPerSecond = 1
  IntMax = 1
  Epoch = 2
  Horizon = 1
  Handlers = {h1, h2}
  MaxCommands = 2
  Sockets = {s1}
  MaxJoins = 2
  Inputs <- Expiring
SPECIFICATION Spec
SYMMETRY Symmetry
INVARIANTS TypeOK SlaveInStep
CHECK_DEADLOCK FALSE
