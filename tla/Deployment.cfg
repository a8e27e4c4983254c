\* Two commits, a spec that may be edited, two faults.
SPECIFICATION DeploymentSpec
CONSTANTS
  Commit = {"A", "B"}
  Spec = {"s1", "s2"}
  Launch = {1, 2, 3, 4}
  None = None
  MaxFaults = 2
INVARIANTS DeploymentTypeOK OneOwnedApplication SettledWasProved RollbackGoesElsewhere
PROPERTY RecoveryServes
CHECK_DEADLOCK FALSE
