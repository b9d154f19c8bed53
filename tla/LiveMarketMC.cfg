SPECIFICATION MarketSpec
CONSTANTS
  Starts = {1, 4}
  HistoryLimit = 7
  WarmLimit = 2
  WindowSize = 6
  MinBars = 4
  Hour = 2
  QueueSize = 2
  MaxNow = 12
  MaxLoads = 3
  MaxDrops = 1
INVARIANTS
  GapsAreAccounted
  ContextIsFresh
CHECK_DEADLOCK FALSE
