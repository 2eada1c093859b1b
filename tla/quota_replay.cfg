SPECIFICATION Spec
CONSTANTS
  t1 = t1  t2 = t2  t3 = t3  k1 = k1  k2 = k2
  Task = {t1, t2}
  Key = {k1}
  KeyOf <- SharedKey
  Payload = {"text", "compute"}
  PayloadOf <- AllText
  ComputePayload = {"compute"}
  Policy <- NoCaps
  HighestCap <- UpToThree
  Minute = 1  Day = 4  Lease = 2  Replay = 3  HoldMinAge = 4
  CoverageStart = 0  MaxAttempts = 2  MaxEntries = 2
  RowBytes <- BytesByPhase  FullRowBytes = 3  MaxBytes = 6
  Lag = 0  MaxClock = 5
INVARIANTS
  AtMostOneSend
  TypeOK
  DocumentStaysReadable
PROPERTIES
  SpentStaysSpent
SYMMETRY AnyTask
CHECK_DEADLOCK FALSE
