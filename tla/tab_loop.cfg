CONSTANTS
  w1 = w1
  g1 = g1
  KeysFrame = KeysFrame
  Commands = {w1, g1}
  Writes = {w1}
  Lookups = {0, 1, 2}
  MaxClicks = 1
  MaxForeign = 1
  MaxFailures = 1
SPECIFICATION LoopFairSpec
INVARIANTS LoopTypeOK  ButtonReturns OrderKept
PROPERTY EveryCommandAnswered
CHECK_DEADLOCK FALSE
