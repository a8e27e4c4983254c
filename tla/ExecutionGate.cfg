SPECIFICATION ExecSpec
CONSTANTS
  Checks <- LintAndTest
  Prepares = 1
  Attempts = 1
  Cleanups = 2
  Reports <- SomeReports
  Timeouts = {1, 2}
  Grace = 3
  Call = 1
  Drain = 1
  MaxFaults = 1
INVARIANT RequiredChecksRan
CHECK_DEADLOCK FALSE
