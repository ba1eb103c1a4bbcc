CONSTANTS
  w1 = w1
  w2 = w2
  g1 = g1
  g2 = g2
  Hello = Hello
  Busy = Busy
  Calls = {w1, w2, g1, g2}
  Writes = {w1, w2}
SPECIFICATION FairSpec
INVARIANTS TypeOK BooksAgree ShiftedByTimeouts
PROPERTIES EveryCallResolved DeadSessionLeaves
CHECK_DEADLOCK FALSE
