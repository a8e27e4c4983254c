\* A delivery for a group whose last task is unresolved: it crashed while it was
\* deploying and was recovered before the delivery arrived.
SPECIFICATION FairSpec
CONSTANTS
  Task = {t1, t2}
  Worker = {w1}
  Repository = {"app"}
  RepoOf <- OneRepository
  Group = {"tag"}
  GroupOf <- OneTag
  None = None
  Reported <- DeployStages
  TTL = 1
  MaxWait = 0
  AiLimit = 1
  MaxClock = 1
  MaxEpoch = 1
PROPERTIES UncertainPredecessorParksReplacement
CHECK_DEADLOCK FALSE
