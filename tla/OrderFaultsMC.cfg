SPECIFICATION FairSpec
CONSTANTS
  Symbols = {"BTCUSDT"}
  Symbol = "BTCUSDT"
  MaxSize = 2
  StepSize = 1
  Closers = {c1}
  FailureThreshold = 2
  MaxExecs = 2
  MaxFaults = 1
  MaxLost = 1
  MaxUserTrades = 0
  MaxBrackets = 0
INVARIANTS
  JournalCoversOrders
  BreakerMatchesJournal
PROPERTIES
  SubmissionReturns
CHECK_DEADLOCK FALSE
