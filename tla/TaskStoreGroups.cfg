\* Two deliveries for one pull request, releases that may crash between the
\* success pointer and its event, AI calls charged by several leases, and methods
\* that decide on a clock value up to one tick old.
SPECIFICATION FairSpec
CONSTANTS
  Task = {t1, t2}
  Worker = {w1}
  Repository = {"app"}
  RepoOf <- OneRepository
  Group = {"pr"}
  GroupOf <- OneGroup
  None = None
  Reported <- ReleaseStages
  TTL = 1
  MaxWait = 1
  AiLimit = 1
  MaxClock = 2
  MaxEpoch = 2
INVARIANTS OneOpenTaskPerGroup AiBudget TornReleaseStaysVisible
PROPERTIES ReplacementWaits ExpiredLeaseIsCleared
CHECK_DEADLOCK FALSE
