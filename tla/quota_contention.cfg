SPECIFICATION CalmSpec
CONSTANTS
  t1 = t1  t2 = t2  t3 = t3  k1 = k1  k2 = k2
  Task = {t1, t2}
  Key = {t1, t2}
  KeyOf <- OwnKeys
  Payload = {"text", "compute"}
  PayloadOf <- AllText
  ComputePayload = {"compute"}
  Policy <- NoCaps
  HighestCap <- UpToThree
  Minute = 1  Day = 4  Lease = 2  Replay = 3  HoldMinAge = 4
  CoverageStart = 0  MaxAttempts = 2  MaxEntries = 3
  RowBytes <- BytesByPhase  FullRowBytes = 3  MaxBytes = 9
  Lag = 0  MaxClock = 1
PROPERTIES
  ClaimsSettle
CHECK_DEADLOCK FALSE
