SPECIFICATION LiveSpec
CONSTANTS
  Workers = {w1}
  Tabs = {t1}
  None = None
  Last = 3  Tools = {1, 2}  Gated = {2}
  Profiles = {FALSE, TRUE}
  MaxCrashes = 2  MaxRequests = 1
  Limit = 5  Bound = 2  Actuals = {1, 2, 3}  MaxQuantity = 5
INVARIANTS
  BooksBalance
  BilledBeforeReleased
PROPERTIES
  RunEnds
CHECK_DEADLOCK FALSE
