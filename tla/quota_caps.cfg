SPECIFICATION Spec
CONSTANTS
  t1 = t1  t2 = t2  t3 = t3  k1 = k1  k2 = k2
  Task = {t1, t2}
  Key = {t1, t2}
  KeyOf <- OwnKeys
  Payload = {"text", "compute"}
  PayloadOf <- AllText
  ComputePayload = {"compute"}
  Policy <- OneRequest
  HighestCap <- UpToOne
  Minute = 2  Day = 4  Lease = 2  Replay = 3  HoldMinAge = 4
  CoverageStart = 1  MaxAttempts = 2  MaxEntries = 2
  RowBytes <- BytesByPhase  FullRowBytes = 3  MaxBytes = 6
  Lag = 1  MaxClock = 6
INVARIANTS
  CapsHold
  FenceCoversLegacy
PROPERTIES
  KeepsPromise
  FencesAdvance
SYMMETRY AnyTask
CHECK_DEADLOCK FALSE
