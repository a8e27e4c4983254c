\* Leases, controls and recovery on two tasks of one repository; every method
\* decides on the clock value at which it commits (MaxWait = 0).
SPECIFICATION Spec
CONSTANTS
  Task = {t1, t2}
  Worker = {w1, w2}
  Repository = {"app"}
  RepoOf <- OneRepository
  Group = {"pr"}
  GroupOf <- NoGroup
  None = None
  Reported <- RunStages
  TTL = 1
  MaxWait = 0
  AiLimit = 1
  MaxClock = 2
  MaxEpoch = 2
SYMMETRY BothSymmetry
INVARIANTS TypeOK StageHasLease EpochNamesOneHandle RepositoryExclusive
PROPERTIES TerminalIsFinal FencedEffectIsUnresolved RevokedForever ImplementsFencedWork
CHECK_DEADLOCK FALSE
