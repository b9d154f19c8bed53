SPECIFICATION Spec
CONSTANTS
  Symbols = {A, B}
  NoSymbol = NoSymbol
  Switchers = {t1, t2}
  WsIntents = {w}
  MaxRequests = 4
  MaxTasks = 2
INVARIANTS
  OneSubmission
  AtMostOnce
  SwitchesConverge
  LastRequestWins
CONSTRAINT Bounded
SYMMETRY Symmetry
CHECK_DEADLOCK FALSE
