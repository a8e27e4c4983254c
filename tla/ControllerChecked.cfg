\* A repair that is merged on GitHub and then waits for the release checks.
SPECIFICATION ControllerSpec
CONSTANTS
  Task = {t1}
  Worker = {w1, w2}
  Repository = {"app"}
  RepoOf <- OneRepository
  Group = {}
  GroupOf <- NoGroup
  None = None
  Reported <- Stages
  TTL = 1
  MaxWait = 0
  AiLimit = 4
  MaxClock = 1
  MaxEpoch = 2
  Fleet <- ReleaseFleet
  Submitted = {"repair"}
  Attempts = 1
  MaxHead = 1
INVARIANTS QueuedWorkHadNoEffect
CHECK_DEADLOCK FALSE
