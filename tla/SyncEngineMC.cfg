SPECIFICATION Spec
CONSTANTS
  MaxSize = 2
  MaxOrders = 2
  MaxExecs = 1
  MaxRestarts = 1
  MaxRefusals = 1
INVARIANTS
  LocalConverges
  NeverHedged
  PendingIsResolved
CHECK_DEADLOCK FALSE
