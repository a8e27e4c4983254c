\* One pull request, branch or tag that changes twice; two webhook threads.
SPECIFICATION IngressSpec
CONSTANTS
  Task = {t1, t2, t3}
  Worker = {w1}
  Repository = {"app"}
  RepoOf <- OneRepository
  Group = {"pr"}
  GroupOf <- OneGroup
  None = None
  Reported <- Stages
  TTL = 1
  MaxWait = 0
  AiLimit = 1
  MaxClock = 0
  MaxEpoch = 1
  Thread = {h1, h2}
  Delivery = {"d1", "d2", "d3"}
  Sent <- Deliveries
  Kinds = {"pull_request", "push", "release", "other"}
  MaxAttempts = 2
  MaxChanges = 2
SYMMETRY IngressSymmetry
INVARIANTS IngressTypeOK OneTaskPerBody NewestStateWins OpenTaskIsNewest AnsweredGroupIsCurrent
CHECK_DEADLOCK FALSE
