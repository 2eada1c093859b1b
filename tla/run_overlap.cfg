SPECIFICATION Spec
CONSTANTS
  Workers = {w1, w2}
  Tabs = {t1}
  None = None
  Last = 3  Tools = {1, 2}  Gated = {2}
  Profiles = {FALSE}
  MaxCrashes = 0  MaxRequests = 2
  Limit = 3  Bound = 2  Actuals = {1, 3}  MaxQuantity = 9
INVARIANT OverMeansReleased
CHECK_DEADLOCK FALSE
