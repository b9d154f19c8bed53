SPECIFICATION Spec
CONSTANTS
  Coroutines = {k1, k2, k3}
  Listeners = {l1, l2}
  MaxRequests = 3
SYMMETRY Symmetry
INVARIANTS
  SupervisedWhenReady
  EventsArriveOnce
CHECK_DEADLOCK FALSE
