\* A renewal that read the clock one tick before it got the write lock.
SPECIFICATION Spec
CONSTANTS
  Task = {t1, t2}
  Worker = {w1}
  Repository = {"app"}
  RepoOf <- OneRepository
  Group = {"pr"}
  GroupOf <- NoGroup
  None = None
  Reported <- RunStages
  TTL = 2
  MaxWait = 1
  AiLimit = 1
  MaxClock = 3
  MaxEpoch = 1
INVARIANTS RepositoryExclusive
CHECK_DEADLOCK FALSE
