SPECIFICATION LiveSpec
CONSTANTS
  Writers = {w1}
  Uploaders = {u1}
  Passes = {p1, p2}
  Creator = c
  ChatHead = head
  None = None
  Page = 1
  MaxFaults = 1
INVARIANTS
  TypeOK
  EvidenceHolds
  TicketsCover
PROPERTIES
  VerifiedIsFinal
  NothingReturns
  CleanupCompletes
CHECK_DEADLOCK FALSE
