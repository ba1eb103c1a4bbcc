CONSTANTS
  word = word
  k1 = k1
  k2 = k2
  k3 = k3
  Absent = Absent
  Keys = {k1, k2, k3}
  Words = {word}
  SetValues = {word}
  Capacity = 2
  MsPerSecond = 1
  IntMax = 1
  Epoch = 2
  Horizon = 1
  Ttls <- ShortTtls
  Counters = {k1, k2}
SPECIFICATION FairSpec
INVARIANTS TypeOK LruMatchesStore HeapCoversDeadlines LruIsRecency
PROPERTIES
  ImplementsMap
  OnlyOldestEvicted
  OnlyCountersOverfill
  ExpiredCollected
CHECK_DEADLOCK FALSE
