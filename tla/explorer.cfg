CONSTANTS
  k1 = k1
  k2 = k2
  Absent = Absent
  Keys = {k1, k2}
  Listings = {1, 2}
  Calls <- SmallCalls
  Loaded <- TimedCalls
  MaxCalls = 2
  MaxSaves = 1
  MaxLosses = 1
  Horizon = 1
SPECIFICATION Spec
INVARIANTS TypeOK SteadyTracked CompleteListing NoKeyTwice
CHECK_DEADLOCK FALSE
