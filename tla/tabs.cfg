CONSTANTS
  t1 = t1
  t2 = t2
  NoSession = NoSession
  Tabs = {t1, t2}
  MaxActivity = 1
  MaxSessions = 3
  MaxEvents = 4
SPECIFICATION TabsSpec
SYMMETRY TabSymmetry
INVARIANTS TabsTypeOK PanelTrue TimelineShared
CHECK_DEADLOCK FALSE
