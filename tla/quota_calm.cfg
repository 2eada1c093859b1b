SPECIFICATION CalmSpec
CONSTANTS
  t1 = t1  t2 = t2  t3 = t3  k1 = k1  k2 = k2
  Task = {t1, t2}
  Key = {t1, t2}
  KeyOf <- OwnKeys
  Payload = {"text", "compute"}
  PayloadOf <- AllCompute
  ComputePayload = {"compute"}
  Policy <- Changing
  HighestCap <- UpToTwo
  Minute = 0  Day = 1  Lease = 1  Replay = 0  HoldMinAge = 1
  CoverageStart = 0  MaxAttempts = 4  MaxEntries = 2
  RowBytes <- BytesByPhase  FullRowBytes = 3  MaxBytes = 6
  Lag = 0  MaxClock = 2
INVARIANTS
  CapsHoldAsAdmitted
PROPERTIES
  ClaimsSettle
  TasksEnd
CHECK_DEADLOCK FALSE
