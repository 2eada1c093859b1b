SPECIFICATION LiveSpec
CONSTANTS
  Workers = {w1}
  Period = 2  Grace = 1
  MaxOccurrences = 2  MaxHistory = 1  MaxTries = 2
  MaxGeneration = 2  MaxClock = 4  MaxFaults = 1
PROPERTIES
  ClaimsResolve
CHECK_DEADLOCK FALSE
