\* One task, two workers that may hold it one after the other, every delivery policy.
SPECIFICATION ControllerSpec
CONSTANTS
  Task = {t1}
  Worker = {w1, w2}
  Repository = {"app"}
  RepoOf <- OneRepository
  Group = {}
  GroupOf <- NoGroup
  None = None
  Reported <- Stages
  TTL = 1
  MaxWait = 0
  AiLimit = 3
  MaxClock = 1
  MaxEpoch = 3
  Fleet <- RepairFleet
  Submitted = {"repair", "watched"}
  Attempts = 2
  MaxHead = 1
SYMMETRY WorkerSymmetry
INVARIANTS ControllerTypeOK OwnerKnowsInstructions EffectStaysVisible EffectOnce AtMostOneLateEffect MergedOntoTestedBase DeployedTreeWasVerified
PROPERTIES ImplementsTaskStore
CHECK_DEADLOCK FALSE
