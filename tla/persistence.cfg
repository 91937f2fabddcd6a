SPECIFICATION FairSpec
CONSTANTS
  Slots = 3
  MaxCalls = 3
  MaxInFlight = 2
  Epoch = 3
  Horizon = 9
INVARIANTS
  LimitsKnowWhatUsageKnows
  OrderlyEndSavesAll
PROPERTIES
  SeriesIsWindow
  CountsReachDisk
CHECK_DEADLOCK FALSE
