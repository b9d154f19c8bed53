SPECIFICATION Spec
CONSTANTS
  Symbols = {"BTCUSDT"}
  Symbol = "BTCUSDT"
  MaxSize = 1
  StepSize = 1
  Closers = {c1}
  FailureThreshold = 2
  MaxExecs = 2
  MaxFaults = 0
  MaxLost = 0
  MaxUserTrades = 2
  MaxBrackets = 1
VIEW AllButJournal
INVARIANTS
  OrdersNeverInterleave
  LockHasLiveHolder
  WindowMatchesSubmission
PROPERTIES
  ExclusiveSpec
  MarketOrdersNeedReady
CHECK_DEADLOCK FALSE
