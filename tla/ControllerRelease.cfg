\* Two release deliveries for one tag, handled by two workers.
SPECIFICATION ControllerFairSpec
CONSTANTS
  Task = {t1, t2}
  Worker = {w1, w2}
  Repository = {"app"}
  RepoOf <- OneRepository
  Group = {"tag"}
  GroupOf <- OneTag
  None = None
  Reported <- Stages
  TTL = 1
  MaxWait = 0
  AiLimit = 1
  MaxClock = 1
  MaxEpoch = 1
  Fleet <- ReleaseFleet
  Submitted = {"release"}
  Attempts = 1
  MaxHead = 0
INVARIANTS OutcomeMatchesRollout
PROPERTIES RunEnds
CHECK_DEADLOCK FALSE
