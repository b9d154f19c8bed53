SPECIFICATION Spec
CONSTANTS
  Prices = {1, 2, 3, 4}
  RangeMaxBars = 2
  RangeMaxDepth = 70
  BarsPerDay = 4
  Rows <- MCRows
  Configs <- MCConfigs
  Rr = 1
  MaxBars = 9
INVARIANTS
  BlockedMeansFlat
  EntryFollowsRetest
  NoSecondEntry
PROPERTIES
  NoEntryAfterDrawdown
CHECK_DEADLOCK FALSE
