# Katydid (Vultron): a TLA+ model of the release controller

Katydid watches registered repositories, runs their protected checks, lets an AI propose a
repair, delivers verified changes and releases them. What makes it hard is not the checks but
who may act on a task: workers hold leases that expire, operators pause, steer and cancel
while a worker is in the middle of an external operation, webhook deliveries supersede work,
processes die, and merges and deployments cannot be undone. Around that core three more
programs keep state of their own across failures: the managed deployment, the pull request
comment and the isolated run whose gate everything else relies on. This directory models all
four, checks them with TLC and proves their safety with TLAPS.

Paths below are relative to the repository. `store.py:824` is `src/katydid/store.py`, line 824.

## The system

| Component | State it keeps | Operations | Modelled |
|---|---|---|---|
| Task store (`store.py`) | SQLite: tasks, control epochs, leases, AI budget, events, receipts, groups; `last-success.json` | create, claim, renew, assert, reserve, transition, release, control, recover, record success, ingest | `TaskStore`, `EventIngress` |
| Controller (`controller.py`) | per worker: lease, heartbeat thread, evidence | enqueue, discover, work_once, execute, _release | `Controller` |
| Fleet policy and requests (`fleet.py`, `tasks.py`) | read-only configuration, pinned by digest | load, enforce | constants of `Controller` |
| Event ingress (`events.py`, `webhook.py`) | none of its own; receipts and groups in the store | ingest | `EventIngress` |
| Workspaces and delivery (`workspace.py`) | clones, branches, pull requests | prepare, edit, commit, publish, merge, wait | effects and base branch in `Controller` |
| Managed release (`deployment.py`) | `managed-release.json` under a file lock, artifacts, one supervised process | deploy, health, rollback, stop, recover | `Deployment` |
| Comment reporter (`reporting.py`) | SQLite outbox | collect, tick, upsert | `CommentOutbox` |
| Docker isolation, sweeper (`docker.py`) | journal of containers, labels with expiry | prepare, execute, cleanup, sweep | `Execution` |
| Runs and environments (`runner.py`, `environment.py`) | run directory with checkpoints | run_plan, prepare, readiness, cleanup | `Execution` |
| Gate (`evidence.py`), plans (`profile.py`) | none | evaluate_gate, read_junit, make_plan | `Gate` and `ReadJunit` in `Execution`; make_plan as its assumption |
| AI providers (`ai.py`, `gemini*.py`) | none | diagnose, repair, review | one step each in `Controller` |
| Service (`service.py`, `scripts/run_service.py`) | worker thread, stop event, restart counter | serve, worker, restart | worker loop and stop in `Controller`; restart loop not modelled |
| Dashboard (`dashboard.py`, `live.py`) | none | control buttons, rendering | the controls, in `TaskStore` |
| Onboarding, security scanners, CLI, demo | none that survives a call | | not modelled: sequential and stateless |

How they interact. Dashboard, CLI, watch loop and webhook create tasks in the store. A worker
claims one and drives it through `execute`, asking the store before and after every step
whether it still may; a heartbeat thread renews the lease meanwhile. A control command, an
expired lease or a newer delivery raises the task's epoch, which revokes the lease. Release
hooks are central commands, in production the `deployment.py` commands. The checks of a task are
one `run_plan` each, and its gate decides the step. The reporter reads the store and writes to
GitHub. Every arrow is either a call that takes SQLite's write lock, so
that it is atomic, or an external operation that is not.

What makes each component correct, and where it can go wrong, is the hazard list in
`PROJECT.json`: one entry per place, with the properties that watch it, or the module that
will.

## Modules

**TaskStore** is the durable task table. Each mutating method of `Store` is one action, since
each runs in one `BEGIN IMMEDIATE` transaction. `state`, `epoch` and `lease` are the columns
of the row; `issued` is the set of `Lease` objects still in some worker's memory, which is
what makes late callers possible. Two things are not atomic in the code and not in the model:
`now` is read before the write lock is waited for (`ReadSince`, with the delay bounded by
`MaxWait`), and the success pointer is replaced before its event commits
(`RecordReleaseCrash`). `record_release_success` reads the clock under the lock and so does
its action. `result` keeps what wrote `result_json`, not its text.

**FencedWork** is the promise the table makes to everybody else, without clocks, rows or
groups: an item is idle, held or finished; a token is never reused; work taken away while it
may have had an effect is finished, never idle again. `TaskStore!ImplementsFencedWork` is the
refinement.

**Controller** extends TaskStore with the workers. `run[w].pc` is where worker `w` is in
`execute`; a step ends at the next call that reads or writes something another process may
change. Every change of the task table is a TaskStore action, so a worker's step is
conjoined with `Transition`, `Claim`, `ReserveAiCall` and so on. `effects` is a history of
external operations with the epoch they were done under and whether the lease had been lost
by then; `rollout` is what the hooks last did; `head` counts commits of the base branch, so
that "the tree is the tested one" is "`head` was the base and grew by this merge". `Raise` is
the one exception handler of `execute`, enabled at every point: a rejected gate, a bad AI
answer, a failed command, a changed policy and a lost lease end there. `Crash` leaves the
lease to expire.

`active()` followed by a store call is one step: only the lease can change in between, and
the store validates it again. `active()` followed by an external operation is two steps.

**EventIngress** extends TaskStore with webhook threads. The provider is a sequence of states
per pull request, branch or tag, and a body announces one of them. A thread reads the group
version, reads the provider, and stores with that version expected. `accepted[g]` lists what
each version of group `g` stands for (its length is `event_groups.version`). Deliveries
arrive any number of times, late, and under other IDs. Receipts written before the replay-key
migration are left out, so here each receipt has its replay key and `provider_replays` is
read off the receipts. Of the release kind, the two Git reads are one, and the base reaching
the tag is a change of the tag.

**Deployment** is one release directory. A command (`deploy`, `health`, `rollback`, `stop`,
`recover`) is a process that holds the file lock; `command.pc` is where it is, and it can be
killed after every step, because a checkpoint, a signal and a process start are separate steps
in the code too. A launch is one call of `_start`: its number stands for the commit, the digest
of the spec, the boot and the two process identities that the registry entry holds.
`supervisor`, `child` and `port` are what the operating system knows; `registry`, `trees` and
`manifests` are the files. `torn`, `vouched` and `retreat` are histories.

**CommentOutbox** is the row of one task, the comments GitHub has for it and several reporter
processes. Each request of `upsert` is a step that takes at most one unit of time; the row's
lock runs out meanwhile. `task` is what `collect` would render now.

**Execution** is one call of `run_plan`. `phase` and `next` are the control of `run_plan` and
`EnvironmentSession`; `exec` is the command that is being executed, locally (`spawn`,
`process`) or in a container (`journal`, `create`, `inspect`, `start`, `wait`, `state`,
`remove`, `rm`, `collect`). `exec.spent` is what the calls of a command have taken, which is also
the age of its container; a container that nobody waits for may expire at any moment. `containers` belongs to the daemon, `disk` is what the checkpoints
tell somebody who comes after the runner's death. `Gate` and `ReadJunit` are the pure functions
of `evidence.py`. `ran`, `skipped` and `allocated` are histories of what really happened, which
the code cannot see.

**TaskStoreProofs** has the theorems about the task table, **ControllerProofs** and
**IngressProofs**, which extend it, those about the workers and the webhook threads,
**DeploymentProofs** those about the release directory, **OutboxProofs** those about the comment,
**ExecutionProofs** and **GateProofs** those about the run. The **MC** modules give the constants their values.

A definition with the comment "slip" is a plausible wrong version of the definition after it.
Nothing uses it; replacing the right one by it must make the named property fail, which
`PROJECT.json` records for every property.

## Runs

| Run | What it asks | Instance |
|---|---|---|
| `store_leases` | leases, controls, recovery and late callers of two tasks in one repository | 2 tasks, 2 workers, `MaxWait = 0` |
| `store_groups` | deliveries of one group, torn releases, AI budget, recovery liveness | 2 tasks of one group, clock one tick stale |
| `store_stale_clock` | finding: exclusivity with a stale `now` in `renew` | 2 tasks, `MaxWait = 1` |
| `store_reconcile` | finding: an outcome already unresolved parks nothing | 2 tasks of one tag |
| `controller_repair` | the whole pipeline under four delivery policies, two workers in turn | 1 task, epochs to 3, 2 repair attempts |
| `controller_release` | releases that supersede one another, rollback, success pointer, termination | 2 tasks of one tag, policy with GitHub checks |
| `controller_checked` | finding: "verifying" after a merge | as `controller_repair`, policy with GitHub checks |
| `ingress_races` | racing, repeated, reordered deliveries while the provider changes | 2 threads, 3 bodies, 2 changes |
| `deployment` | two deaths, crashes, reboots, reused PIDs, damage or edits between any steps of the commands | 2 commits, 2 specs, `MaxFaults = 2` |
| `outbox` | two reporters, failed requests, lost answers, deaths, deletions, a moving head | 2 bodies, 2 pages, `MaxFaults = 2`, `MaxChanges = 3` |
| `execution` | local or isolated, with or without an environment, one fault, cancellation and death anywhere, and the sweeper | 2 checks, 1 preparation, 1 probe, 2 cleanups, brief and longer timeouts |
| `execution_gate` | finding: a required check that never ran passes | as `execution` |

Bounds. `MaxClock` and `MaxEpoch` only stop the clock and further claims; an epoch of 3 is a
claim, a fence and a second claim, which is what every "again" property needs. Two tasks are
enough for exclusivity and supersession, which are about pairs. Two repair attempts give the
loop one repetition; three AI calls let one lease finish a repair and leave nothing to
the next. `MaxHead = 1` lets somebody else merge once, at any point. In `ingress_races`
`MaxAttempts` is 2 where the code has 3: with three changes a third attempt could never be
used up, with two the refusal is reached, and the property holds already then.
`controller_repair` leaves out the policy with GitHub release checks because it violates
`EffectStaysVisible` in the way `controller_checked` reports.

In `deployment` two faults are what it takes to leave one process behind and disturb its
successor; `MCDeployment` assumes that there are launch numbers for all of them. Two commits are
a release and its rollback target. In `outbox` the lock is as short as the code's own margin
allows (more than the requests of one upsert), so that an upsert that took longer would show;
`MaxFaults = 2` lets the answer be lost and the process that retries die. In `execution` the
second cleanup hook is there to see whether it runs when the first fails, and one of the two
checks is a test and one a command because their evidence differs. In units of a Docker call
(`Call = 1`), `Grace = 3` and `Drain = 1` are the smallest numbers with a part for each that
`GraceAssumption` allows; with them a timeout of 1 is `Brief` and one of 2 is not, and both occur.
One fault is a write, a Docker call or an
answer; the journal entry that reports it may fail with it.

Deadlock is not checked: every bounded instance stops at its bounds, a system without tasks
rightly does nothing, and a run ends.

Fairness. `FairSpec` assumes only that `recover_expired` is called with a fresh clock again and
again; `work_once` does so on every round of the service loop. `ControllerFairSpec` assumes
that a worker that is not killed takes its next step: every wait inside `execute` has a
deadline (hooks, checks, AI calls, `wait_pull_request`, `wait_commit_checks`), and the
exception handler can run at every point. Nothing is assumed of operators, deliveries,
claims, the clock or crashes. `DeploymentSpec` lets the operating system run every process
(every wait of a command has a deadline) and assumes strong fairness of `Recover`:
`maintain_release.py` calls it every minute and waits for the lock, which the other commands
hold only for a time. `OutboxSpec` assumes that `CommentReporter.run` calls `tick` again
whatever it raises, and that time passes. `ExecSpec` assumes only that the runner, the daemon,
the clock and the sweeper do not all stop together, which is enough because none of them can go
on for ever; that the sweeper runs at all is the operator's duty (`docs/ISOLATION.md`). It does
not assume that a command ends.

What the properties say is in the comment above each. The ones to read first:
`RepositoryExclusive`, `FencedEffectIsUnresolved` and `RevokedForever` (TaskStore);
`EffectStaysVisible`, `EffectOnce`, `AtMostOneLateEffect`, `DeployedTreeWasVerified` and
`OutcomeMatchesRollout` (Controller); `NewestStateWins` and `AnsweredGroupIsCurrent`
(EventIngress);
`OneOwnedApplication`, `SettledWasProved` and `RecoveryServes` (Deployment); `OneHonestComment`
and `ReportCatchesUp` (CommentOutbox); `PassedWasProved` and `NothingForgotten` (Execution).

## Disagreements between code and documentation

1. `renew` validates with a clock value from before it waited for the lock
   (`store.py:824`). A renewal that waited across the expiry commits after another task of the
   repository was claimed: two live leases, which `docs/STATE.md:26-28` excludes. The proof of
   `RepositoriesAreExclusive` shows that reading the clock under the lock is enough to
   exclude it.
2. `ingest_event` looks at open predecessors only (`store.py:549`). One that is already
   unresolved does not park its replacement, contrary to `docs/ORCHESTRATION.md:285-287`.
3. After a merge on GitHub `_release` reports "verifying" while it waits for the release
   checks (`controller.py:557`). Interrupted there, the task is queued or parked as if it had
   had no effect, contrary to `docs/STATE.md:44-47`.

4. `DockerSession.execute` takes the state of the container for the outcome of the command
   and ignores that the attached client failed (`docker.py:785`). A container that was created
   and never started reads Running false, ExitCode 0: a required "command" check passes without
   having run, contrary to `docs/RUNS.md:73-74`.

Each is a run that must fail, on one property that states what the document says.

What else the models brought to light, carried by the properties as named exceptions:

- `torn` (Deployment). A command that is killed, or gives up on a supervisor that has already
  started its child, leaves a process that no later command can find: `_start` kills the
  supervisor's process group, and the child has a session of its own. The next deploy of the
  same commit starts a second application, and while the first holds the port its answer
  satisfies the probe: the expected commit in the answer tells releases apart, not processes,
  although `docs/MANAGED_RELEASE.md:75` says it excludes a stale listener.
- `retreat` (Deployment). After a rollback that failed, deploying the restored commit again
  keeps that commit as its own rollback target. A deploy repeated after a death between the
  stop of the old application and the record of the new one has no target at all.
- An artifact whose tree was renamed into place without its manifest is refused for ever.
- `Misled` (CommentOutbox). Only a row whose body differs from the one last sent is selected.
  If the task renders A, then B, then A, and the comment shows B or the notice of a moved head
  because the answer to that write was lost or was stored under A, the comment keeps showing it.
- A `docker create` whose client timed out may be carried out after its removal was verified.
  The run's gate fails, because the error is remembered, and the sweeper takes the container.
- `Brief` (Execution). A container expires 60 s after the timeout of its command. Creating and
  inspecting it, collecting the output and reading the state may take 100 s: three calls of 30 s
  and 10 s for the output. A command with a timeout of about 40 s or less may lose its container to
  the sweeper after it has ended and before its state is read. Profiles accept timeouts from 1 s,
  and `environment.py:108-111` clips the probes of every profile to what the readiness
  deadline leaves, 1 s at least, so a late probe is always such a command. The command is
  then an error, and the gate fails (`PassedWasProved`, which has no such exception).

## What is proved

Every invariant and every action property of the passing runs, and the three refinements, for
all values of the constants. Each section names what its theorems assume and the invariant
they rest on.

### The task table

`TaskStoreProofs`, for any sets of tasks, workers, repositories and groups and any
bounds, from the assumptions named in `TaskStore` (rows belong to one repository; a group
belongs to one repository; `None` is nobody; numbers are natural numbers). Only
`RepositoriesAreExclusive` assumes more, namely `MaxWait = 0`.

- `TypeCorrect`: the type invariant, by itself inductive.
- `StagesAreLeased`, `OneHandlePerEpoch`, `AiBudgetHolds`, `OneOpenTask`, `RepositoriesAreExclusive`,
  `TornReleasesStayVisible`: invariants.
- `TerminalTasksAreFinal`, `FencedEffectsAreUnresolved`, `RevokedHandlesStayRevoked`,
  `ReplacementsWait`: action properties, each from the invariants.
- `TaskStoreImplementsFencedWork`: every step of the table is a step of FencedWork or a
  stutter.

The argument. `HandlesInv` strengthens `EpochNamesOneHandle`: a leased row carries the
row's own epoch, and no `Lease` object in memory is ahead of its row. A claim then uses an
epoch no object has, and a fence puts the row beyond every object, so that a revoked object
stays revoked and the refinement never sees a token twice. `StageHasLease` is inductive
with the types: what writes a stage validates a lease first, and what clears a lease leaves the
stages as well. For `RepositoryExclusive` the point is which steps can make a lease live that
was not: with a fresh clock only a claim can, and it looks at the whole repository.
`TornInv` adds to `TornReleaseStaysVisible` that nobody holds a current lease object on a
monitoring task whose pointer was written without its event (the process that wrote it is
gone), so only a fence can move it, and a fence makes it unresolved.

### The controller

`ControllerProofs`, for any fleet, any tasks and workers and any number of attempts and calls,
from the assumptions of TaskStore, `FleetAssumption` (policies are what `fleet.py` accepts) and
`ReportedStatesAssumption` (the states that `execute` and `_release` pass to `transition` are
states `transition` accepts).

- `ControllerTypeCorrect`: the types.
- `ControllerImplementsTaskStore`: every step of a worker, an operator or the watch loop is a step
  of TaskStore or leaves the table alone. `ControllerKeepsStorePromises` draws the conclusion:
  what is proved of the table, down to FencedWork, holds of the running controllers.
- `OwnersKnowInstructions`, `LateEffectsAreSingle`, `MergesAreFastForwards`,
  `DeployedTreesWereVerified`, `OutcomesMatchRollouts`: the invariants of the pipeline and the
  release sequence.
- `EffectsAreKept`: outside effects stay visible in the outcome, and none is repeated under a later
  lease, for every task whose repository does not have both release hooks and checks after the
  merge. `EffectsStayVisible` and `EffectsHappenOnce` say so of the properties the runs check, which
  are about all tasks, and so assume `NoChecksAfterMerge`: no policy of the fleet has both.
  `controller_checked` shows that the exception is real.

The argument. A run is a walk over a graph: `ReportEdge`, `LookEdge`, `AskEdge`, `ActEdge` and
`EndEdge` are its edges by what they do to the outside (report a state, only look, ask for an AI
call, perform an operation, finish). `StepKinds` reduces the next-state relation to them once, and
every later proof is about edges, not about the actions one by one. `ControllerInv` is what all of
them need: the types, the invariants of the table, and `Tied`: while a worker's lease is current
the row is in a state that belongs to the worker's place (`StateAt`), and a worker that lost its
task between publishing and its end left it unresolved. Each promise then has its own part.

- `LateInv`: nobody is ahead of the row's epoch, and a worker that did something late is neither
  current nor cleared for anything more. The place between `active()` and the operation is the
  only one from which a worker can still act, and it passes it once.
- `PinnedInv`: the commit of a run is none before the merge, and after it the requested base or
  the run's own merge onto it.
- `RolloutInv`: what the hooks have done is what the holder's place says (`RolloutAt`), the row's
  state admits it (`Told`), and nobody works on the release a success pointer names (`Pointed`).
- `HooksInv` and `EffectsInv`: one worker at a time is engaged with a task (`OneActor`): it holds
  the lease, or lost it where that leaves the row unresolved, so that the task can never be
  claimed again. Whatever was done was done under that worker's epoch. The step to "checking" is
  the only one that hides an effect again.

### The ingress

`IngressProofs`, for any groups, threads, deliveries and number of changes, from
`IngressAssumption` (SQL's NULL is neither a body nor a delivery).

- `IngressTypeCorrect`: the types.
- `IngressImplementsTaskStore`: a delivery touches the table by one `Ingest` of its group and not
  otherwise.
- `BodiesAreSingle`, `OpenTasksAreNewest`, `VersionsNeverGoBack`: one task per signed body; an open
  task stands for the newest version; a later version never shows an earlier reading.
- `AnsweredGroupsAreCurrent`: the delivery of the last change is only answered, or refused for a
  reason other than a moving base branch, when the group shows that change. It assumes `MaxAttempts >= 2`; the code has 3 (`events.py:16`). With one
  attempt it would be false: the refusal could be due to a thread that read before the change.

The argument. `Reading` is the order of the reads: a thread counts the version before it asks the
provider, so that what it saw is no older than any version it counted (`InOrder`). This alone
gives `VersionsNeverGoBack`. A refused delivery needs more, since it writes nothing: why is the
group current when the last attempt fails? `RacedByNewest` compares a thread that handles the
last change with everybody else: from the version it counted plus `Lag` on, all that is stored,
and all that a thread may still store, shows the last change (`NewestFrom`). `Lag` is one as long as
a thread that read earlier may win once, and none after an attempt was lost to such a
version. `LostToVersion` says that for the last change an attempt is lost to a newer version or
to the base branch and to nothing else. So a second loss is to somebody who saw the last change.

### The run

`ExecutionProofs` and `GateProofs`, for any plan, any number of hooks, probes and faults and any
reports, and any timeouts from one up, from `ExecutionAssumption`, `PlanAssumption` (there is a
required check) and `GraceAssumption`: two Docker calls fit into the grace, and one call with the
collection of the output takes less. `GraceAssumption` is about numbers that are fixed in
`docker.py`: 30 s a call (line 35), 5 s for each of the two streams (line 777) and a grace of 60 s
(line 676). It says nothing about the configuration.

- `ExecutionTypes`: the types, and that results are in the order of their checks.
- `RunForgetsNothing`: `NothingForgotten`. Of the sweeper it says that no container is taken before
  its command has ended, whatever the timeout, and none before its state is read unless the timeout
  is `Brief`. That exception is real (see above), and TLC reaches it.
- `GateFailsClosed`: `PassedWasProved`. Brief commands are no exception here: a container that was
  taken tells nothing, and `Watched` claims something of a container only while it is there.

The first two follow from `ExecutionIInv`, a conjunction of seven parts. `Types` is inductive by
itself. `Placed` says that a command belongs to the phase that launched it, which is what tells
the steps of a preparation hook from those of a cleanup hook; the others need it. `Cleaning`
counts the hooks: in the cleanup phase `next - 1` of them were tried. `Ordered` does so for the
results. `Recorded` is the write-ahead rule together with the state between the journal and the
call: the name is on disk while Docker is asked for it, and nothing is allocated before the phase
after the checkpoint. `Spent` bounds what the calls around a command have taken, step by step, which
is also the age of its container; `NotExpired` adds these bounds up against the expiry, so that the
sweeper's guard is false while a container is waited for, and `Awaited` is kept.

`GateFailsClosed` needs more, `GateIInv`, because what the code sees and what happened are
different things. `Boxes`, `Outcome` and `Credited` carry the truth of an outcome from the
container to the command and from there to the result: one that ended with exit code zero and,
for a test, with a report of a test that ran and passed did run, or its container was never
started. The exception is in the invariant only because the code has it (`RequiredChecksRan`).
`Watched` says what the state of a container tells when it is read, `Released` that nothing takes a
resource again after a hook released it, because only preparation takes any, and `Contained`
that a container which is there although its name was removed is remembered as a failure. From
these, `GateProves` shows that a gate that passes at the end has proved what it says, and
`OnlyFinalPasses` that no other checkpoint can say so.

### The deployment

`DeploymentProofs`, for any commits, specs, launches and any number of faults, from
`DeploymentAssumption` (there is a spec; `None` is no commit and no launch).

- `DeploymentTypeCorrect`: the types.
- `OneApplicationRuns`: besides what is `torn`, one application runs at most, and it is the recorded
  one or the one in the hand of the running command.
- `EstablishedWasProved`: while the registry has an established status it names a launch, and the
  commit of that launch is the one that last passed a probe. It is not about the launch itself:
  `recover` records the process it has started under the old status (`deployment.py:1357`) and
  probes it afterwards.
- `RollbackTargetsAreOld`: unless a rollback has failed (`retreat`), a rollback leads elsewhere.

The argument. `DeploymentInv` has three parts. `Books` is about the registry and the command: the
command writes alone, so what it looked at stands until it writes, and `Doing` says for each command
what that is: the rollback target a deploy has read is not its candidate, a rollback has a target,
a recovery restarts the commit that is recorded. `OwnRelease` adds that outside a failed
rollback the recorded launch is of the recorded operation, without which a second deploy could
inherit its own commit as a target. `Life` is about processes: what is not of this boot is dead,
what may run or still be started is `torn` or `Owned`, and `Cleared` says that from looking to
starting the recorded launch is dead, so that a start never makes two. A supervisor that is up
without a child counts as one that may run: it starts the child in a step of its own.
`Elsewhere` is about the files, the port and the bound.

### The comment outbox

`OutboxProofs`, for any number of reporters, any bodies and pages and whatever fails, from
`OutboxAssumption`: there is a body, and a claim lasts longer than the requests of one report,
`LockTime > PageLimit + 4`. In the code that is 300 s against at most fourteen requests of 20 s,
ten of which are pages (`reporting.py:195`, `250` and `395`): a page or a request more would
leave no margin.

- `OutboxTypeCorrect`: the types, and that a report is only made of a row that is there.
- `OneCommentForever`: `OneHonestComment`.

The argument is about time, because nothing looks at a lock when a report ends. `Spent` is the time
a report may have taken, by the requests it has made, and `Claimed` says that the row's lock
together with it is never below `LockTime`. Requests are at most `PageLimit + 4`, so whoever
is between the claim and the end still holds it and is `Alone`. Then what a reporter has seen in its
search is out of date only by deletions (`Knows`), so that it creates a comment only when there
is none, and when it stores that the report is superseded the comment says so.

### What is only model-checked

Liveness: `ExpiredLeaseIsCleared`, `RunEnds`, `ReportCatchesUp`, `RecoveryServes` and `NothingStays`
rest on fairness and so on ENABLED, which is out of the prover's reach. The four disagreements
are counterexamples of small instances, which is all a counterexample needs to be.

## What is not modelled

The text of results, evidence, prompts, diffs and comments; what checks and models answer
(a choice); HTTP, signatures, XML and YAML parsing and their validation; the polling inside
GitHub waits (a wait passes or raises); of the file system what no property is about. The
heartbeat thread and its worker are separate actors, but a failed renewal reaches the worker as
`Raise`, not as an event of its own. The backoff of the reporter and the control socket and log
rotation of the supervisor are left out, and so are the descendants that a local command leaves
in a process group of their own. A POST to GitHub that takes effect after its local timeout, and
a discussion whose pages shift while they are searched, are not among the faults of
CommentOutbox.

Onboarding, the security scanners, the command line and the demo are sequential conversions
without state that outlives a call. Of `run_service.py` the restart loop is left out: one
counter and a clock that nothing else depends on.

## Plan

Done: TaskStore with FencedWork, Controller, EventIngress, Deployment, CommentOutbox and Execution,
with proofs of all their invariants, action properties and refinements.

1. Composition: Controller with Deployment in place of its `rollout`, and with Execution in
   place of a check.
2. The kind of release deliveries whose base arrives late, in EventIngress.
3. An abstract specification of what Deployment promises, as FencedWork is for the table.
