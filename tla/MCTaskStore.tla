---------------------------- MODULE MCTaskStore ----------------------------
(***************************************************************************)
(* Small instances of TaskStore for TLC: repositories and groups are       *)
(* strings, so that the constant functions can be written here.            *)
(***************************************************************************)
EXTENDS TaskStore, TLC

\* Two tasks of one repository, neither in an event group.
OneRepository == [t \in Task |-> "app"]
NoGroup       == [t \in Task |-> None]

\* Two tasks of one pull request.
OneGroup == [t \in Task |-> "pr"]

\* Two tasks of one release tag.
OneTag == [t \in Task |-> "tag"]

\* Which stages workers report: one with no effect outside, one with, one end.
RunStages     == {"testing", "publishing", "completed"}
ReleaseStages == {"monitoring", "completed"}
DeployStages  == {"deploying"}

WorkerSymmetry == Permutations(Worker)
TaskSymmetry   == Permutations(Task)
BothSymmetry   == WorkerSymmetry \cup TaskSymmetry

=============================================================================
