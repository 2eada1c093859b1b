SPECIFICATION Spec
CONSTANTS
  Workers = {w1, w2}
  Period = 2  Grace = 1
  MaxOccurrences = 2  MaxHistory = 1  MaxTries = 2
  MaxGeneration = 2  MaxClock = 4  MaxFaults = 0
INVARIANTS
  TypeOK
  SlotRunsOnce
  NoOverlap
  HistoryComplete
PROPERTIES
  RevokedAdmitsNothing
CHECK_DEADLOCK FALSE
SYMMETRY AnyWorker
