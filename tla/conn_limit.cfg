CONSTANTS
  r1 = r1
  r2 = r2
  c1 = c1
  c2 = c2
  c3 = c3
  Free = Free
  SlavePeers = {r1}
  ClientPeers = {c1, c2, c3}
  Fds <- FewFds
  MaxClients = 2
SPECIFICATION ConnFairSpec
INVARIANTS
  ConnTypeOK
  WithinLimit
  SoundWhileSlavesStay
PROPERTY EveryCallAnswered
CHECK_DEADLOCK FALSE
