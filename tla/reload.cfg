SPECIFICATION FairSpec
CONSTANTS
  r1 = r1
  k1 = k1
  k2 = k2
  Requests = {r1}
  Keys = {k1, k2}
  Timeout = 2
  Margin = 1
  LastGen = 2
INVARIANTS
  NotCutShort
  RetiredMonitorSilent
PROPERTIES
  OldClientsClosed
CHECK_DEADLOCK FALSE
