SPECIFICATION OutboxSpec
CONSTANTS
  service = service
  worker = worker
  failing = failing
  passing = passing
  None = None
  Reporter <- TwoReporters
  Body <- TwoBodies
  PageLimit = 2
  LockTime = 7
  MaxFaults = 2
  MaxChanges = 3
INVARIANTS
  OutboxTypeOK
  OneHonestComment
PROPERTY ReportCatchesUp
CHECK_DEADLOCK FALSE
