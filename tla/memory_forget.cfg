SPECIFICATION Spec
CONSTANTS
  Workers = {w1, w2}
  Items = {m1, m2}
  Sessions = {}
  Documents = {d1}
  Everything = Everything
  None = None
  PageSize = 1
  MaxMoves = 2  MaxVersion = 2
INVARIANTS
  ForgottenForGood
PROPERTIES
  TombstonesHold
  AutomaticStaysOff
SYMMETRY AnyName
CHECK_DEADLOCK FALSE
