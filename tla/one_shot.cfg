CONSTANTS
  w1 = w1
  l1 = l1
  Commands = {w1}
  Listings = {l1}
  Writes = {w1}
  TrackedKeys = 2
  LookupLines = 3
  Slots = 1
SPECIFICATION FairSpec
INVARIANTS TypeOK ReportsTrue
PROPERTIES SlotsReturn RequestsAnswered
CHECK_DEADLOCK FALSE
