SPECIFICATION Spec
CONSTANTS
  Sessions = {live}
  Legacy = legacy
  LegacyMode = shadow
  Prices = {p1, p2}
  MaxSize = 3
  MaxOrders = 4
  MaxCrashes = 2
  MaxStream = 2
SYMMETRY Symmetry
INVARIANTS
  ExecutionsAreRecorded
  BookedOnlyWhatClosed
  JournalAgrees
  ArchiveKeyIsUnique
CHECK_DEADLOCK FALSE
