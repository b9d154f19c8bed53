SPECIFICATION FairSpec
CONSTANTS
  Clients = {c1}
  MaxSize = 1
  MaxIntents = 2
  MaxMoves = 2
  MaxRuns = 2
  Equities = {8, 9}
  MaxDay = 2
  Limit = 1
INVARIANTS
  StatusIsTrue
PROPERTIES
  ResolvedOnce
  ViewsConverge
  FailedIntentIsResolved
CONSTRAINT Bounded
CHECK_DEADLOCK FALSE
