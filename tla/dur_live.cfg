CONSTANTS
  k1 = k1
  k2 = k2
  a = a
  b = b
  h1 = h1
  h2 = h2
  Absent = Absent
  Nothing = Nothing
  Keys = {k1}
  Words = {a, b}
  Capacity = 1
  MsPerSecond = 1
  IntMax = 3
  Epoch = 4
  Horizon = 2
  Handlers = {h1, h2}
  MaxCommands = 2
  MaxCrashes = 1
  Inputs <- Timed
SPECIFICATION FairSpec
INVARIANT ExactRecovery
PROPERTY EventuallyDurable
CHECK_DEADLOCK FALSE
