---------------------------- MODULE MCController ----------------------------
(***************************************************************************)
(* Small instances of Controller for TLC.                                  *)
(***************************************************************************)
EXTENDS Controller, TLC

OneRepository == [t \in Task |-> "app"]
NoGroup       == [t \in Task |-> None]
OneTag        == [t \in Task |-> "tag"]

\* The states Controller reports.
Stages == {"preparing", "testing", "diagnosing", "repairing", "verifying",
           "reviewing", "publishing", "deploying", "monitoring",
           "completed", "failed", "unresolved"}

Undelivered  == [delivery |-> "none", merge |-> FALSE, hooks |-> FALSE, checks |-> FALSE]
LocalRelease == [delivery |-> "local", merge |-> TRUE, hooks |-> TRUE, checks |-> FALSE]
PullRequest  == [delivery |-> "github", merge |-> FALSE, hooks |-> FALSE, checks |-> TRUE]
HubRelease   == [delivery |-> "github", merge |-> TRUE, hooks |-> TRUE, checks |-> FALSE]
HubChecked   == [delivery |-> "github", merge |-> TRUE, hooks |-> TRUE, checks |-> TRUE]

RepairFleet  == {Undelivered, LocalRelease, PullRequest, HubRelease}
ReleaseFleet == {HubChecked}

WorkerSymmetry == Permutations(Worker)

=============================================================================
