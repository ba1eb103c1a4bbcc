CONSTANTS
  t1 = t1
  t2 = t2
  NoSession = NoSession
  Tabs = {t1}
  MaxActivity = 1
  MaxSessions = 2
  MaxEvents = 1
SPECIFICATION TabsFairSpec
PROPERTY StartHelps
CHECK_DEADLOCK FALSE
