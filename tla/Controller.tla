----------------------------- MODULE Controller -----------------------------
(***************************************************************************)
(* katydid.controller.Controller: workers that claim tasks from the store  *)
(* and drive them through checks, AI repair, delivery and release, while   *)
(* operators control the tasks, leases expire, processes stop or die, and  *)
(* somebody else moves the base branch.                                    *)
(*                                                                         *)
(* Every change of the task table is an action of TaskStore; this module   *)
(* adds where each worker is in execute (run), the base branch, and what   *)
(* has really been done outside.  A run is a chain of steps; each ends at  *)
(* the next call that reads or writes something another process can change *)
(* in between.  "active()" and the store call it guards are one step: only *)
(* the lease can change in between and the store checks it again.          *)
(*                                                                         *)
(* Any call may fail: Raise is the exception handler of execute, entered   *)
(* from every point.  A rejected gate, diagnosis, review, wait, policy or  *)
(* workspace check, a cancelled wait and a changed fleet file all end      *)
(* there; so does active() once the lease is gone or a stop is requested.  *)
(***************************************************************************)
EXTENDS TaskStore

CONSTANTS
  Fleet,     \* the repository policies to consider
  Submitted, \* the request modes to consider
  Attempts,  \* repair_attempts
  MaxHead    \* bound: nobody else moves the base branch from here on

\* "watched" is a repair found by the watch loop for an auto_deploy repository.
Modes == {"check", "repair", "release", "watched"}

\* delivery.mode, delivery.auto_merge, whether there are release hooks, and
\* whether delivery.github_required_checks names any: what fleet.py accepts.
Policy ==
  {p \in [delivery : {"none", "local", "github"}, merge : BOOLEAN,
          hooks : BOOLEAN, checks : BOOLEAN] :
     /\ p.merge => p.delivery # "none"
     /\ p.hooks => p.merge
     /\ p.checks => p.delivery = "github"}

ASSUME FleetAssumption == /\ Fleet \subseteq Policy
                          /\ Submitted \subseteq Modes
                          /\ Attempts \in Nat \ {0}
                          /\ MaxHead \in Nat
\* The states execute and _release pass to transition.
ASSUME ReportedStatesAssumption ==
  {"preparing", "testing", "diagnosing", "repairing", "verifying", "reviewing",
   "publishing", "deploying", "monitoring", "completed", "failed", "unresolved"}
  \subseteq Reported

VARIABLES
  policy,  \* the fleet file: the policy of each repository
  request, \* mode and base_sha of each task's payload
  run,     \* what each worker is doing
  head,    \* number of commits on the base branch of each repository
  effects, \* external operations that have taken place
  rollout  \* what the release hooks of each task last did

outside == <<policy, request, head, effects, rollout>>
allVars == <<vars, run, outside>>

NoHandle == [task |-> None, worker |-> None, epoch |-> 0, at |-> 0]
Idle == [pc |-> "idle", lease |-> NoHandle, seen |-> 0, attempt |-> 0,
         sha |-> 0, stop |-> FALSE]

Step ==
  {"claimed", "fetched", "prepared", "baseline", "passed", "rechecking",
   "failing", "diagnosing", "diagnosed", "repairing", "proposed", "verifying",
   "reviewing", "reviewed", "candidate", "accepted", "publishing", "opened",
   "awaiting", "merging", "delivered", "release", "checking", "deploy",
   "deploying", "deployed", "health", "healthy", "unhealthy", "rollback",
   "rolling", "rolled", "recovering", "complete"}
Execution ==
  {Idle} \cup
  [pc : Step, lease : Handle, seen : Nat, attempt : Nat, sha : Nat, stop : BOOLEAN]
Effect == [task : Task, epoch : Nat, kind : {"publish", "merge", "deploy", "rollback"},
           rev : Nat, late : BOOLEAN]
Rollout == {"none", "deploying", "deployed", "healthy", "broken", "rolling back",
            "rolled back", "restored"}

ControllerTypeOK ==
  /\ TypeOK
  /\ run \in [Worker -> Execution]
  /\ head \in [Repository -> Nat]
  /\ policy \in [Repository -> Policy]
  /\ request \in [Task -> [mode : Modes, base : Nat]]
  /\ effects \subseteq Effect
  /\ rollout \in [Task -> Rollout]

ControllerInit ==
  /\ Init
  /\ run = [w \in Worker |-> Idle]
  /\ head = [r \in Repository |-> 0]
  /\ policy \in [Repository -> Fleet]
  /\ request = [t \in Task |-> [mode |-> "check", base |-> 0]]
  /\ effects = {}
  /\ rollout = [t \in Task |-> "none"]

-----------------------------------------------------------------------------
Lease(w) == run[w].lease
Job(w)   == run[w].lease.task
Base(w)  == head[RepoOf[Job(w)]]
Want(w)  == request[Job(w)].base
Mode(w)  == request[Job(w)].mode
Repo(w)  == policy[RepoOf[Job(w)]]

\* active()
Active(w) ==
  /\ ~run[w].stop
  /\ \E now \in ReadSince(Lease(w).at) : Valid(Lease(w), now)
  /\ Executable(Job(w))

\* fresh() and, inside _release, current()
Fresh(w)  == Active(w) /\ Base(w) = Want(w)
AtHead(w) == Base(w) = run[w].sha

\* state(name)
Report(w, s) ==
  /\ ~run[w].stop
  /\ \E now \in ReadSince(Lease(w).at) : Transition(Lease(w), s, now)

\* The worker goes on to its next step, or is done with the task.
Advance(w, from, to) == run[w].pc = from /\ run' = [run EXCEPT ![w].pc = to]
FinishHolding(w, from) ==                      \* slip: the lease is not let go
  run[w].pc = from /\ run' = [run EXCEPT ![w].pc = "idle"]
Finish(w, from)      == run[w].pc = from /\ run' = [run EXCEPT ![w] = Idle]

\* A step that only looks: the checks passed.
Look == UNCHANGED <<vars, outside>>

-----------------------------------------------------------------------------
\* work_once: the first queued task that can be claimed.
ClaimTask(w) ==
  \E t \in Task, now \in ReadSince(0) :
    /\ run[w].pc = "idle"
    /\ Claim(t, w, now)
    /\ run' = [run EXCEPT ![w] =
         [Idle EXCEPT !.pc = "claimed",
                      !.lease = [task |-> t, worker |-> w, epoch |-> NextEpoch(t),
                                 at |-> clock]]]
    /\ UNCHANGED outside

\* get_task: the instructions the AI will see are those of this moment.
FetchTask(w) ==
  /\ run[w].pc = "claimed"
  /\ run' = [run EXCEPT ![w].pc = "fetched", ![w].seen = instructions[Job(w)]]
  /\ Look

Prepare(w) ==
  /\ Advance(w, "fetched", "prepared")
  /\ Fresh(w)
  /\ Report(w, "preparing")
  /\ UNCHANGED outside

\* The workspace is cloned; it must still be at the requested base.
StartBaseline(w) ==
  /\ Advance(w, "prepared", "baseline")
  /\ Base(w) = Want(w)
  /\ Report(w, "testing")
  /\ UNCHANGED outside

BaselinePasses(w) == Advance(w, "baseline", "passed") /\ Active(w) /\ Look
BaselineFails(w) ==
  /\ Advance(w, "baseline", "failing")
  /\ Mode(w) \in {"repair", "watched"}
  /\ Active(w)
  /\ Look

CompleteHealthy(w) ==
  /\ Finish(w, "passed")
  /\ Mode(w) \in {"check", "repair"}
  /\ Fresh(w)
  /\ Report(w, "completed")
  /\ UNCHANGED outside

\* A task that only releases goes straight to the hooks; a watched one passes
\* the release-stage checks first.
ReleaseBase(w) ==
  /\ \/ run[w].pc = "passed" /\ Mode(w) = "release"
     \/ run[w].pc = "rechecking"
  /\ Fresh(w)
  /\ run' = [run EXCEPT ![w].pc = "release", ![w].sha = Want(w)]
  /\ Look

RecheckBase(w) ==
  /\ Advance(w, "passed", "rechecking")
  /\ Mode(w) = "watched"
  /\ Fresh(w)
  /\ Report(w, "verifying")
  /\ UNCHANGED outside

-----------------------------------------------------------------------------
\* AI repair.  ask charges the durable budget before it calls the provider.
Ask(w) ==
  /\ \/ Advance(w, "diagnosing", "diagnosed")
     \/ Advance(w, "repairing", "proposed")
     \/ Advance(w, "reviewing", "reviewed")
  /\ Active(w)
  /\ \E now \in ReadSince(Lease(w).at) : ReserveAiCall(Lease(w), now)
  /\ UNCHANGED outside

Diagnose(w) ==
  Advance(w, "failing", "diagnosing") /\ Report(w, "diagnosing") /\ UNCHANGED outside

\* The next repair attempt: the first one, or after a failed verification or a
\* rejected review.
Repair(w) ==
  /\ run[w].pc \in {"diagnosed", "verifying", "reviewed"}
  /\ run[w].attempt < Attempts
  /\ run' = [run EXCEPT ![w].pc = "repairing", ![w].attempt = @ + 1]
  /\ Report(w, "repairing")
  /\ UNCHANGED outside

VerifyEdits(w) ==
  Advance(w, "proposed", "verifying") /\ Report(w, "verifying") /\ UNCHANGED outside
Review(w) ==
  Advance(w, "verifying", "reviewing") /\ Report(w, "reviewing") /\ UNCHANGED outside

\* An approved candidate of a repository with hooks passes the release-stage
\* checks as well before it is delivered.
Approve(w) == Advance(w, "reviewed", "accepted") /\ ~Repo(w).hooks /\ Active(w) /\ Look
VerifyCandidate(w) ==
  /\ Advance(w, "reviewed", "candidate")
  /\ Repo(w).hooks
  /\ Report(w, "verifying")
  /\ UNCHANGED outside
AcceptCandidate(w) == Advance(w, "candidate", "accepted") /\ Active(w) /\ Look

-----------------------------------------------------------------------------
\* Delivery.  An external operation is a step of its own, after the last check:
\* the task may have been taken from the worker in the meantime (late).
Perform(w, kind, rev) ==
  effects' = effects \cup
    {[task |-> Job(w), epoch |-> Lease(w).epoch, kind |-> kind, rev |-> rev,
      late |-> ~(lease[Job(w)].worker = w /\ epoch[Job(w)] = Lease(w).epoch)]}

CompleteUndelivered(w) ==
  /\ Finish(w, "accepted")
  /\ Repo(w).delivery = "none"
  /\ Report(w, "completed")
  /\ UNCHANGED outside

StartPublishing(w) ==
  /\ Advance(w, "accepted", "publishing")
  /\ Repo(w).delivery # "none"
  /\ Base(w) = Want(w)
  /\ Report(w, "publishing")
  /\ UNCHANGED outside

\* publish_local, or open_pull_request
Publish(w) ==
  /\ Advance(w, "publishing", IF Repo(w).delivery = "github" THEN "opened"
                              ELSE IF Repo(w).merge THEN "awaiting" ELSE "delivered")
  /\ Perform(w, "publish", Want(w))
  /\ UNCHANGED <<vars, policy, request, head, rollout>>

RecordPullRequest(w) ==
  /\ Advance(w, "opened", IF Repo(w).merge THEN "awaiting" ELSE "delivered")
  /\ Report(w, "publishing")
  /\ UNCHANGED outside

MayMergeUnchecked(w) ==                        \* slip: no active() before the merge
  Advance(w, "awaiting", "merging") /\ Look
MayMerge(w) ==
  /\ Advance(w, "awaiting", "merging")
  /\ Active(w)
  /\ Repo(w).delivery = "github" => Base(w) = Want(w)
  /\ Look

\* merge_local moves the branch only from the tested base.  GitHub merges the
\* pull request onto whatever the base has become.
MergeBlindly(w) ==                             \* slip: no compare-and-swap
  /\ run[w].pc = "merging"
  /\ head' = [head EXCEPT ![RepoOf[Job(w)]] = @ + 1]
  /\ run' = [run EXCEPT ![w].pc = "delivered", ![w].sha = Base(w) + 1]
  /\ Perform(w, "merge", Base(w) + 1)
  /\ UNCHANGED <<vars, policy, request, rollout>>
Merge(w) ==
  /\ run[w].pc = "merging"
  /\ Repo(w).delivery = "local" => Base(w) = Want(w)
  /\ head' = [head EXCEPT ![RepoOf[Job(w)]] = @ + 1]
  /\ run' = [run EXCEPT ![w].pc = "delivered", ![w].sha = Base(w) + 1]
  /\ Perform(w, "merge", Base(w) + 1)
  /\ UNCHANGED <<vars, policy, request, rollout>>

CompleteDelivered(w) ==
  /\ Finish(w, "delivered")
  /\ ~Repo(w).hooks
  /\ Report(w, "completed")
  /\ UNCHANGED outside

\* The merged tree is the tested one exactly if nothing else was merged between.
AnyTree(w)  == TRUE                            \* slip: the trees are not compared
SameTree(w) == run[w].sha = Want(w) + 1
ReleaseMerged(w) ==
  /\ Advance(w, "delivered", "release")
  /\ Repo(w).hooks
  /\ SameTree(w)
  /\ Active(w)
  /\ Look

-----------------------------------------------------------------------------
\* _release.  Each hook runs between two checks of the lease and the base.
Mark(w, r) == rollout' = [rollout EXCEPT ![Job(w)] = r]

AwaitReleaseChecks(w) ==
  /\ Advance(w, "release", "checking")
  /\ Repo(w).checks
  /\ AtHead(w)
  /\ Report(w, "verifying")
  /\ UNCHANGED outside

StartDeploy(w) ==
  /\ \/ Advance(w, "release", "deploy") /\ ~Repo(w).checks
     \/ Advance(w, "checking", "deploy")
  /\ AtHead(w)
  /\ Report(w, "deploying")
  /\ UNCHANGED outside

\* pristine() before the hook's command
EnterHook(w) ==
  /\ \/ Advance(w, "deploy", "deploying")
     \/ Advance(w, "rollback", "rolling")
  /\ Active(w) /\ AtHead(w)
  /\ Look

Deploy(w) ==
  /\ Advance(w, "deploying", "deployed")
  /\ Perform(w, "deploy", run[w].sha)
  /\ Mark(w, "deploying")
  /\ UNCHANGED <<vars, policy, request, head>>

\* The command ended, pristine() holds again, monitoring begins.
Monitor(w, to, r) ==
  /\ Advance(w, "deployed", to)
  /\ AtHead(w)
  /\ Report(w, "monitoring")
  /\ Mark(w, r)
  /\ UNCHANGED <<policy, request, head, effects>>
DeployPasses(w) == Monitor(w, "health", "deployed")
DeployFails(w)  == Monitor(w, "unhealthy", "broken")

Probe(w, to, r) ==
  /\ Advance(w, "health", to)
  /\ Active(w) /\ AtHead(w)
  /\ Mark(w, r)
  /\ UNCHANGED <<vars, policy, request, head, effects>>
HealthPasses(w) == Probe(w, "healthy", "healthy")
HealthFails(w)  == Probe(w, "unhealthy", "broken")

RecordSuccess(w) ==
  /\ Advance(w, "healthy", "complete")
  /\ Active(w) /\ AtHead(w)
  /\ RecordReleaseSuccess(Lease(w))
  /\ UNCHANGED outside
RecordTorn(w) ==
  /\ Finish(w, "healthy")
  /\ Active(w) /\ AtHead(w)
  /\ RecordReleaseCrash(Lease(w))
  /\ UNCHANGED outside

CompleteRelease(w) ==
  Finish(w, "complete") /\ Report(w, "completed") /\ UNCHANGED outside

StartRollback(w) ==
  Advance(w, "unhealthy", "rollback") /\ Report(w, "deploying") /\ UNCHANGED outside

Rollback(w) ==
  /\ Advance(w, "rolling", "rolled")
  /\ Perform(w, "rollback", run[w].sha)
  /\ Mark(w, "rolling back")
  /\ UNCHANGED <<vars, policy, request, head>>

FailUnprobed(w) ==                             \* slip: the second probe is skipped
  /\ Finish(w, "rolled")
  /\ Report(w, "failed")
  /\ UNCHANGED outside
\* A rollback that fails, or whose probe fails, raises.
RollbackPasses(w) ==
  /\ Advance(w, "rolled", "recovering")
  /\ AtHead(w)
  /\ Report(w, "monitoring")
  /\ Mark(w, "rolled back")
  /\ UNCHANGED <<policy, request, head, effects>>

\* The restored deployment is healthy: the release has failed for certain.
FailRestored(w) ==
  /\ Finish(w, "recovering")
  /\ AtHead(w)
  /\ Report(w, "failed")
  /\ Mark(w, "restored")
  /\ UNCHANGED <<policy, request, head, effects>>

-----------------------------------------------------------------------------
\* The exception handler of execute.  A worker whose lease is gone writes nothing.
Outcome(w) == IF state[Job(w)] \in UnknownOutcome THEN "unresolved" ELSE "failed"
HandleAlwaysFailed(w, now) ==                  \* slip: the stage is not considered
  IF run[w].stop THEN Release(Lease(w), now)
                 ELSE Transition(Lease(w), "failed", now)
HandleException(w, now) ==
  IF run[w].stop /\ state[Job(w)] \notin UnknownOutcome
  THEN Release(Lease(w), now)
  ELSE Transition(Lease(w), Outcome(w), now)

RaiseOverwrites(w) ==                          \* slip: the newer epoch is ignored
  /\ run[w].pc \in Step \ {"claimed"}
  /\ run' = [run EXCEPT ![w] = Idle]
  /\ TransitionRow(Lease(w), Outcome(w))
  /\ UNCHANGED <<clock, epoch, instructions, aiCalls, issued, releaseVars, outside>>
RaiseWhileLeased(w) ==                         \* slip: StaleLease is not expected
  /\ run[w].pc \in Step \ {"claimed"}
  /\ run' = [run EXCEPT ![w] = Idle]
  /\ \E now \in ReadSince(Lease(w).at) : HandleException(w, now)
  /\ UNCHANGED outside
Raise(w) ==
  /\ run[w].pc \in Step \ {"claimed"}
  /\ run' = [run EXCEPT ![w] = Idle]
  /\ \E now \in ReadSince(Lease(w).at) :
       \/ HandleException(w, now)
       \/ ~(Valid(Lease(w), now) /\ Executable(Job(w))) /\ UNCHANGED vars
  /\ UNCHANGED outside

\* The process dies, or the handler itself fails: the lease stays behind.
Crash(w) ==
  /\ run[w].pc # "idle"
  /\ run' = [run EXCEPT ![w] = Idle]
  /\ Look

\* The heartbeat thread renews the lease while execute runs.
Heartbeat(w) ==
  /\ run[w].pc \in Step \ {"claimed"}
  /\ Active(w)
  /\ \E now \in ReadSince(Lease(w).at) : Renew(Lease(w), now)
  /\ UNCHANGED <<run, outside>>

\* SIGTERM: the stop event of the worker process is set.
RequestStop(w) ==
  /\ run[w].pc # "idle"
  /\ ~run[w].stop
  /\ run' = [run EXCEPT ![w].stop = TRUE]
  /\ Look

-----------------------------------------------------------------------------
\* _request_policy: a release needs hooks; only the watch loop of a repository
\* that deploys automatically submits a watched repair.
MaySubmit(r, m) == m \in {"release", "watched"} => policy[r].hooks

\* enqueue and discover pin the task to the head they read; so does a delivery,
\* which never asks for a repair.
Requested(t, m) == [mode |-> m, base |-> head[RepoOf[t]]]

Enqueue(t, m) ==
  /\ MaySubmit(RepoOf[t], m)
  /\ Create(t)
  /\ request' = [request EXCEPT ![t] = Requested(t, m)]
  /\ UNCHANGED <<policy, run, head, effects, rollout>>

Deliver(g, R, m) ==
  /\ m \in {"check", "release"}
  /\ \A t \in R : MaySubmit(RepoOf[t], m)
  /\ Ingest(g, R)
  /\ request' = [t \in Task |-> IF t \in R THEN Requested(t, m) ELSE request[t]]
  /\ UNCHANGED <<policy, run, head, effects, rollout>>

\* Somebody else merges.
MoveHead(r) ==
  /\ head[r] < MaxHead
  /\ head' = [head EXCEPT ![r] = @ + 1]
  /\ UNCHANGED <<vars, policy, request, run, effects, rollout>>

Pipeline(w) ==
  \/ FetchTask(w) \/ Prepare(w) \/ StartBaseline(w)
  \/ BaselinePasses(w) \/ BaselineFails(w) \/ CompleteHealthy(w)
  \/ RecheckBase(w) \/ ReleaseBase(w)
  \/ Diagnose(w) \/ Ask(w) \/ Repair(w) \/ VerifyEdits(w) \/ Review(w)
  \/ Approve(w) \/ VerifyCandidate(w) \/ AcceptCandidate(w)
  \/ CompleteUndelivered(w) \/ StartPublishing(w) \/ Publish(w)
  \/ RecordPullRequest(w) \/ MayMerge(w) \/ Merge(w)
  \/ CompleteDelivered(w) \/ ReleaseMerged(w)
  \/ AwaitReleaseChecks(w) \/ StartDeploy(w) \/ EnterHook(w) \/ Deploy(w)
  \/ DeployPasses(w) \/ DeployFails(w) \/ HealthPasses(w) \/ HealthFails(w)
  \/ RecordSuccess(w) \/ CompleteRelease(w)
  \/ StartRollback(w) \/ Rollback(w) \/ RollbackPasses(w) \/ FailRestored(w)
  \/ Raise(w)

Environment ==
  \/ \E t \in Task, m \in Submitted : Enqueue(t, m)
  \/ \E g \in Group, R \in Replacements, m \in Submitted : Deliver(g, R, m)
  \/ \E t \in Task : ControlStep(t) /\ UNCHANGED <<run, outside>>
  \/ \E now \in ReadSince(0) : RecoverExpired(now) /\ UNCHANGED <<run, outside>>
  \/ Tick /\ UNCHANGED <<run, outside>>
  \/ \E r \in Repository : MoveHead(r)

ControllerNext ==
  \/ \E w \in Worker :
       \/ ClaimTask(w) \/ Pipeline(w) \/ RecordTorn(w)
       \/ Crash(w) \/ Heartbeat(w) \/ RequestStop(w)
  \/ Environment

ControllerSpec == ControllerInit /\ [][ControllerNext]_allVars

\* Every wait inside a run has a deadline (checks, AI calls, GitHub, hooks), so a
\* worker that is not killed keeps going.
ControllerFairSpec == ControllerSpec /\ \A w \in Worker : WF_allVars(Pipeline(w))

-----------------------------------------------------------------------------
\* Everything a controller does to the task table is a step of TaskStore, so what
\* is proved of TaskStore holds of the running system.
ImplementsTaskStore == Spec

\* A worker that still owns its task has read every instruction given to it: no
\* steering command is ever overtaken by work planned without it.
OwnerKnowsInstructions ==
  \A w \in Worker :
    run[w].pc \in Step \ {"claimed"} /\ Current(Lease(w)) =>
      run[w].seen = instructions[Job(w)]

\* Once an external operation has taken place its task is never queued, parked,
\* cancelled or reported failed, unless the release was rolled back and probed.
EffectStaysVisible ==
  \A e \in effects :
    \/ state[e.task] \in UnknownOutcome \cup {"completed", "unresolved"}
    \/ state[e.task] = "failed" /\ rollout[e.task] = "restored"

\* STATE.md: "Pre-side-effect work is queued again", so queued or parked work has
\* had no side effect.
QueuedWorkHadNoEffect ==
  \A e \in effects : state[e.task] \notin {"queued", "paused"}

\* No external operation of a task is repeated under a later lease.
EffectOnce ==
  \A e, f \in effects : e.task = f.task /\ e.kind = f.kind => e.epoch = f.epoch

\* A worker that has lost its task performs at most the one external operation it
\* had already been cleared for.
AtMostOneLateEffect ==
  \A e, f \in effects :
    e.late /\ f.late /\ e.task = f.task /\ e.epoch = f.epoch => e = f

\* Local delivery only ever fast-forwards the base the candidate was tested on.
MergedOntoTestedBase ==
  \A e \in effects :
    policy[RepoOf[e.task]].delivery = "local" /\ e.kind = "merge" => e.rev = request[e.task].base + 1

\* What is deployed was checked: the requested base, or the task's own merge of a
\* candidate onto exactly that base.
DeployedTreeWasVerified ==
  \A e \in effects :
    e.kind = "deploy" =>
      \/ e.rev = request[e.task].base
      \/ /\ e.rev = request[e.task].base + 1
         /\ \E m \in effects : m.task = e.task /\ m.kind = "merge" /\ m.rev = e.rev

\* The reported outcome is what the hooks left behind: a completed release is
\* recorded and healthy, a failed one restored; a pointer names a healthy release.
OutcomeMatchesRollout ==
  /\ \A t \in Task :
       /\ state[t] = "completed" /\ rollout[t] # "none" =>
            rollout[t] = "healthy" /\ t \in released
       /\ state[t] = "failed" /\ rollout[t] # "none" => rollout[t] = "restored"
  /\ \A r \in Repository : pointer[r] # None => rollout[pointer[r]] = "healthy"

\* A run ends, whatever happens to its lease.
RunEnds == \A w \in Worker : run[w].pc # "idle" ~> run[w].pc = "idle"

=============================================================================
