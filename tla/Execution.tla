------------------------------ MODULE Execution ------------------------------
(***************************************************************************)
(* katydid.runner, environment, docker and evidence: one run of a plan.    *)
(* run_plan prepares the isolation and the environment, executes the       *)
(* checks one after the other, cleans up whatever happened, and keeps      *)
(* run.json, whose gate decides about the task.  With isolation every      *)
(* command gets a container of its own, which is journalled before Docker  *)
(* is asked for it and removed afterwards; the sweeper, a process of its   *)
(* own, removes what has expired.                                          *)
(*                                                                         *)
(* Signals set the cancellation event (cli.py, service.py), so no command  *)
(* is interrupted.  A container is named by the number of its command.     *)
(* Time passes only in Docker calls, while a container is waited for and   *)
(* while its output is collected.  Logs, invocation files, progress.json,  *)
(* images and mounts are left out, and so are the processes that a local   *)
(* command leaves behind.                                                  *)
(***************************************************************************)
EXTENDS Naturals, Sequences, FiniteSets

CONSTANTS
  Checks,     \* the planned checks: a sequence of [kind, required]
  Prepares,   \* number of preparation hooks
  Attempts,   \* most readiness probes; 0: no readiness
  Cleanups,   \* number of cleanup hooks
  Reports,    \* what a command may leave as its JUnit report
  Timeouts,   \* that a command may have: the profile gives each its own
  Grace,      \* from the timeout to the expiry of the container: 60 s
  Call,       \* timeout of one Docker call: 30 s
  Drain,      \* what the rest of the output may take when the client has ended: 10 s
  MaxFaults   \* bound: writes and Docker calls that fail, answers that are lost

\* "unsound": what read_junit cannot trust; "unsafe": a link, a device, a file that
\* changes, which _safe_report does not even copy.
Report == [is : {"sound", "unsound", "missing", "unsafe"},
           cases : Nat, skipped : Nat, failed : Nat]
NoReport == [is |-> "missing", cases |-> 0, skipped |-> 0, failed |-> 0]

ASSUME ExecutionAssumption ==
  /\ Checks \in Seq([kind : {"test", "command"}, required : BOOLEAN])
  /\ {Prepares, Attempts, Cleanups, Grace, Call, Drain, MaxFaults} \subseteq Nat
  /\ Timeouts \subseteq Nat \ {0}
  /\ Prepares > 0 /\ Cleanups > 0
  /\ Reports \subseteq Report
\* make_plan selects one at least.
RequiresSome == \E c \in DOMAIN Checks : Checks[c].required
ASSUME PlanAssumption == RequiresSome
\* What the code's own numbers give, whatever the timeouts of the commands are.
ASSUME GraceAssumption == 2 * Call <= Grace /\ Call + Drain < Grace

VARIABLES
  plan,        \* [isolated, environment]: what the profile asks for
  phase,       \* where run_plan is
  next,        \* the next command of the phase
  results,     \* of the checks
  session,     \* the EnvironmentSession
  docker,      \* the DockerSession
  exec,        \* the command that is executed
  error,       \* execution_error
  cancel,      \* the event, or the file cancel.request
  disk,        \* what run.json, environment.json and isolation.json tell
  containers,  \* the daemon's: name -> container
  allocated,   \* cleanup hooks whose resources exist
  ran,         \* commands that ended as they should
  skipped,     \* commands whose container was never started
  faults       \* faults so far

vars == <<plan, phase, next, results, session, docker, exec, error, cancel,
          disk, containers, allocated, ran, skipped, faults>>
runner == <<phase, next, results, session, error>>
world  == <<containers, allocated, ran, skipped>>

Stages   == {"prepare", "probe", "check", "cleanup"}
Statuses == {"passed", "failed", "error", "timed_out", "cancelled",
             "missing_evidence", "invalid_evidence", "no_tests", "skipped"}
Idle == [step |-> "idle"]

NewSession == [started |-> FALSE, ready |-> FALSE, complete |-> FALSE,
               cleaned |-> << >>, unsaved |-> FALSE]
NewDocker  == [ready |-> FALSE, failed |-> FALSE, resources |-> << >>]

ExecInit ==
  /\ plan \in [isolated : BOOLEAN, environment : BOOLEAN]
  /\ phase = "begin" /\ next = 1
  /\ results = << >>
  /\ session = NewSession /\ docker = NewDocker
  /\ exec = Idle
  /\ error = FALSE /\ cancel = FALSE
  /\ disk = [state |-> "none", passed |-> FALSE, started |-> FALSE, known |-> 0]
  /\ containers = << >>
  /\ allocated = {} /\ ran = {} /\ skipped = {}
  /\ faults = 0

-----------------------------------------------------------------------------
(***************************************************************************)
(* evidence.py: reading a report and evaluating the gate.                  *)
(***************************************************************************)
Evidence(status, r) ==
  [status |-> status, tests |-> r.cases, skipped |-> r.skipped, failures |-> r.failed]
NoEvidence == Evidence("none", NoReport)
ReadJunit(r) ==
  IF r.is = "missing" THEN Evidence("missing_evidence", NoReport)
  ELSE IF r.is # "sound" THEN Evidence("invalid_evidence", NoReport)
  ELSE Evidence(IF r.failed > 0 THEN "failed"
                ELSE IF r.cases = 0 THEN "no_tests"
                ELSE IF r.cases = r.skipped THEN "skipped"
                ELSE "passed", r)

\* evaluate_gate, over results of any kind.
Evident(result) ==
  /\ result.exit = "zero"
  /\ Checks[result.check].kind = "test" =>
       /\ result.evidence.status = "passed"
       /\ result.evidence.tests > result.evidence.skipped
       /\ result.evidence.failures = 0
Gate(rs) ==
  /\ RequiresSome
  /\ \A i, j \in DOMAIN rs : rs[i].check = rs[j].check => i = j
  /\ \A i \in DOMAIN rs :
       /\ rs[i].check \in DOMAIN Checks
       /\ rs[i].status = "passed" => Evident(rs[i])
       /\ Checks[rs[i].check].required => rs[i].status = "passed"
  /\ \A c \in DOMAIN Checks : \E i \in DOMAIN rs : rs[i].check = c

-----------------------------------------------------------------------------
(***************************************************************************)
(* Checkpoints.  checkpoint writes run.json; EnvironmentSession._changed   *)
(* writes environment.json before, DockerSession._changed isolation.json.  *)
(***************************************************************************)
Cost(n) == faults + n <= MaxFaults /\ faults' = faults + n
Fault   == Cost(1)
Calm    == UNCHANGED faults
Saves(ok) == IF ok THEN Calm ELSE Fault

AllRemoved == \A n \in DOMAIN docker.resources : docker.resources[n]
PassesRunning(state) ==                    \* slip: a run that is under way passes
  /\ Gate(results)
  /\ plan.environment => session.ready /\ session.complete
  /\ ~error
  /\ plan.isolated => docker.ready /\ AllRemoved /\ ~docker.failed
Passes(state) ==
  /\ state = "completed"
  /\ PassesRunning(state)

Checkpoint(ok, state) ==
  /\ Saves(ok)
  /\ disk' = IF ok THEN [state |-> state, passed |-> Passes(state)',
                         started |-> session'.started, known |-> Len(docker'.resources)]
             ELSE disk
Changed(ok) == Checkpoint(ok, "running")
\* isolation.json.
Journal(ok) ==
  disk' = IF ok THEN [disk EXCEPT !.known = Len(docker'.resources)] ELSE disk

\* What is raised inside run_plan's try: cleanup follows.
Abort == phase' = "cleanup" /\ next' = 0 /\ error' = TRUE
GoTo(p, n) == phase' = p /\ next' = n /\ UNCHANGED error
Either(ok, p, n) == IF ok THEN GoTo(p, n) ELSE Abort

-----------------------------------------------------------------------------
(***************************************************************************)
(* run_plan and EnvironmentSession.                                        *)
(***************************************************************************)
At(p) == phase = p /\ exec = Idle
Fresh(step, job, name) ==
  [step |-> step, job |-> job, name |-> name, status |-> "none", exit |-> "none",
   report |-> NoReport, timeout |-> 0, spent |-> 0, unsaved |-> FALSE]
Launch(stage) ==
  /\ exec' = Fresh(IF plan.isolated THEN "journal" ELSE "spawn", <<stage, next>>, 0)
  /\ UNCHANGED <<runner, docker, disk>> /\ Calm

Begin ==
  /\ At("begin")
  /\ UNCHANGED <<results, session, docker, exec>>
  /\ \E ok \in BOOLEAN : Either(ok, "docker", 1) /\ Changed(ok)

\* DockerSession.prepare: the daemon, the image and the snapshot of the sources.
PrepareDocker ==
  /\ At("docker")
  /\ UNCHANGED <<results, session, exec>>
  /\ IF ~plan.isolated \/ cancel
     THEN GoTo("environment", 1) /\ UNCHANGED <<docker, disk>> /\ Calm
     ELSE \/ \E ok \in BOOLEAN :
               /\ docker' = [docker EXCEPT !.ready = TRUE]
               /\ Either(ok, "environment", 1) /\ Changed(ok)
          \/ /\ docker' = [docker EXCEPT !.failed = TRUE]
             /\ UNCHANGED disk /\ Fault /\ Abort

\* "Persist before the first operation can allocate an external resource."
StartEnvironment ==
  /\ At("environment")
  /\ UNCHANGED <<results, docker, exec>>
  /\ IF ~plan.environment
     THEN GoTo("checks", 1) /\ UNCHANGED <<session, disk>> /\ Calm
     ELSE /\ session' = [session EXCEPT !.started = ~cancel]
          /\ \E ok \in BOOLEAN :
               /\ Either(ok, IF cancel THEN "checks" ELSE "prepare", 1)
               /\ Changed(ok)

\* A hook that is not "passed" ends the preparation; the checks are not executed.
Prepare == At("prepare") /\ next <= Prepares /\ Launch("prepare")
Prepared ==
  /\ phase = "prepare" /\ exec.step = "done"
  /\ UNCHANGED <<results, session, docker>>
  /\ exec' = Idle
  /\ \E ok \in BOOLEAN :
       /\ IF exec.status = "passed" THEN Either(ok, "prepare", next + 1)
          ELSE Either(ok, "checks", 1)
       /\ Changed(ok)
EndPrepare ==
  /\ At("prepare") /\ next > Prepares
  /\ UNCHANGED <<results, session, docker, exec>>
  /\ IF Attempts = 0 THEN GoTo("ready", 1) /\ UNCHANGED disk /\ Calm
     ELSE \E ok \in BOOLEAN : Either(ok, "probe", 1) /\ Changed(ok)

\* The readiness loop: until a probe passes, or the attempts or the time run out.
Probe == At("probe") /\ next <= Attempts /\ ~cancel /\ Launch("probe")
Probed ==
  /\ phase = "probe" /\ exec.step = "done"
  /\ UNCHANGED <<results, session, docker>>
  /\ exec' = Idle
  /\ \E ok, late \in BOOLEAN :
       /\ IF exec.status = "passed" THEN Either(ok, IF late THEN "checks" ELSE "ready", 1)
          ELSE IF exec.status \in {"cancelled", "error"} THEN Either(ok, "checks", 1)
          ELSE Either(ok, "probe", next + 1)
       /\ Changed(ok)
EndProbes ==   \* "budget exhausted", "deadline expired", or cancelled
  /\ At("probe")
  /\ GoTo("checks", 1)
  /\ UNCHANGED <<results, session, docker, exec, disk>> /\ Calm
Ready ==
  /\ At("ready")
  /\ UNCHANGED <<results, docker, exec>>
  /\ IF cancel THEN GoTo("checks", 1) /\ UNCHANGED <<session, disk>> /\ Calm
     ELSE /\ session' = [session EXCEPT !.ready = TRUE]
          /\ \E ok \in BOOLEAN : Either(ok, "checks", 1) /\ Changed(ok)

\* Every planned check gets a result, whether it was executed or not.
Append1(status, exit, evidence) ==
  /\ results' = Append(results, [check |-> next, status |-> status, exit |-> exit,
                                 evidence |-> evidence])
  /\ UNCHANGED <<session, docker>>
  /\ \E ok \in BOOLEAN : Either(ok, "checks", next + 1) /\ Changed(ok)
CheckStep ==
  /\ At("checks") /\ next \in DOMAIN Checks
  /\ IF cancel THEN Append1("cancelled", "none", NoEvidence) /\ UNCHANGED exec
     ELSE IF plan.environment /\ ~session.ready
     THEN Append1("error", "none", NoEvidence) /\ UNCHANGED exec
     ELSE Launch("check")
Checked ==
  /\ phase = "checks" /\ exec.step = "done"
  /\ exec' = Idle
  /\ Append1(exec.status, exec.exit,
             IF Checks[next].kind = "test" THEN ReadJunit(exec.report) ELSE NoEvidence)
EndChecks ==
  /\ At("checks") /\ next \notin DOMAIN Checks
  /\ GoTo("cleanup", 0)
  /\ UNCHANGED <<results, session, docker, exec, disk>> /\ Calm

\* An exception of a command leaves the phase; in cleanup it is an error result.
Raised ==
  /\ exec.step = "raised" /\ phase \notin {"cleanup", "dispose"}
  /\ exec' = Idle
  /\ Abort
  /\ UNCHANGED <<results, session, docker, disk>> /\ Calm

\* session.cleanup: a checkpoint that fails is raised at the end, after every hook.
Persist(s, ok) ==
  /\ session' = [s EXCEPT !.unsaved = @ \/ ~ok]
  /\ Changed(ok)
StartCleanup ==
  /\ At("cleanup") /\ next = 0
  /\ UNCHANGED <<results, docker, exec>>
  /\ IF plan.environment /\ session.started
     THEN /\ GoTo("cleanup", 1)
          /\ \E ok \in BOOLEAN : Persist(session, ok)
     ELSE /\ GoTo("dispose", 1)
          /\ IF ~plan.environment THEN UNCHANGED <<session, disk>> /\ Calm
             ELSE \E ok \in BOOLEAN : Persist([session EXCEPT !.complete = TRUE], ok)
Cleanup == At("cleanup") /\ next \in 1..Cleanups /\ Launch("cleanup")
StopAtFailure == Cleanups + 1              \* slip: a failure ends the cleanup
TryAgain      == next                      \* slip: a hook that failed is tried again
Onward        == next + 1
Cleaned ==
  /\ phase = "cleanup" /\ exec.step \in {"done", "raised"}
  /\ exec' = Idle
  /\ UNCHANGED <<results, docker>>
  /\ LET passed == exec.step = "done" /\ exec.status = "passed"
     IN  /\ GoTo("cleanup", IF passed THEN next + 1 ELSE Onward)
         /\ \E ok \in BOOLEAN :
              Persist([session EXCEPT !.cleaned = Append(@, passed)], ok)
EndCleanup ==
  /\ At("cleanup") /\ next > Cleanups
  /\ UNCHANGED <<results, docker, exec>>
  /\ GoTo("dispose", 1)
  /\ LET complete == \A n \in DOMAIN session.cleaned : session.cleaned[n]
     IN  \E ok \in BOOLEAN : Persist([session EXCEPT !.complete = complete], ok)

\* docker_session.cleanup tries every resource that is left once more.
Remaining == {n \in DOMAIN docker.resources : n >= next /\ ~docker.resources[n]}
Dispose ==
  /\ At("dispose")
  /\ \E n \in Remaining :
       /\ \A m \in Remaining : n <= m
       /\ next' = n
       /\ exec' = Fresh("remove", <<"dispose", n>>, n)
  /\ UNCHANGED <<phase, results, session, docker, error, disk>> /\ Calm
Disposed ==
  /\ phase = "dispose" /\ exec.step \in {"done", "raised"}
  /\ exec' = Idle
  /\ phase' = phase /\ next' = next + 1
  /\ error' = (error \/ exec.step = "raised")
  /\ UNCHANGED <<results, session, docker, disk>> /\ Calm
EndDispose ==
  /\ At("dispose") /\ Remaining = {}
  /\ phase' = "final" /\ next' = 1
  /\ error' = (error \/ session.unsaved)
  /\ UNCHANGED <<results, session, docker, exec, disk>> /\ Calm
Final ==
  /\ At("final")
  /\ UNCHANGED <<results, session, docker, exec>>
  /\ GoTo("ended", 1)
  /\ \E ok \in BOOLEAN : Checkpoint(ok, IF cancel THEN "cancelled" ELSE "completed")

-----------------------------------------------------------------------------
(***************************************************************************)
(* _execute: a command as a local process.                                 *)
(***************************************************************************)
Turn(r) == exec' = r
Step(step) == Turn([exec EXCEPT !.step = step])
Decide(status, exit, report) ==
  Turn([exec EXCEPT !.step = "remove", !.status = status, !.exit = exit,
                    !.report = report, !.timeout = 0, !.spent = 0])
Cancelled  == cancel /\ exec.job[1] # "cleanup"
\* A preparation hook may take every resource from its first moment; a cleanup hook
\* that ends well has released its own.
Taken    == IF exec.job[1] = "prepare" THEN 1..Cleanups ELSE allocated
Left(job, exit) ==
  IF exit = "zero" /\ job[1] = "cleanup" THEN allocated \ {job[2]} ELSE allocated
\* A check that is a test has run when its report shows a test that ran and passed.
Genuine(r) == r.is = "sound" /\ r.failed = 0 /\ r.cases > r.skipped
IsTest(job) == job[1] = "check" /\ Checks[job[2]].kind = "test"
\* The report of a command that fails does not count, and is left out.
Leaves(job, exit, report) == (IsTest(job) /\ exit = "zero") \/ report = NoReport
Ran(job, exit, report) ==
  IF exit = "zero" /\ (IsTest(job) => Genuine(report)) THEN ran \cup {job} ELSE ran

Spawn ==
  /\ exec.step = "spawn"
  /\ UNCHANGED <<runner, docker, disk, containers, ran, skipped>>
  /\ \/ Cancelled /\ Turn([exec EXCEPT !.step = "done", !.status = "cancelled"])
        /\ UNCHANGED allocated /\ Calm
     \/ ~Cancelled /\ Step("process") /\ allocated' = Taken /\ Calm
     \/ Step("raised") /\ UNCHANGED allocated /\ Fault       \* invocation.json
     \/ Turn([exec EXCEPT !.step = "done", !.status = "error"])
        /\ UNCHANGED allocated /\ Fault

Status(exit, report) ==
  IF exit # "zero" THEN "failed"
  ELSE IF IsTest(exec.job) THEN ReadJunit(report).status ELSE "passed"
ProcessEnds ==
  /\ exec.step = "process"
  /\ \E exit \in {"zero", "nonzero"}, report \in Reports :
       /\ Leaves(exec.job, exit, report)
       /\ Turn([exec EXCEPT !.step = "done", !.exit = exit, !.report = report,
                            !.status = Status(exit, report)])
       /\ ran' = Ran(exec.job, exit, report)
       /\ allocated' = Left(exec.job, exit)
  /\ UNCHANGED <<runner, docker, disk, containers, skipped>> /\ Calm
StopProcess ==
  /\ exec.step = "process"
  /\ \/ Turn([exec EXCEPT !.step = "done", !.status = "timed_out"]) /\ Calm
     \/ Cancelled /\ Turn([exec EXCEPT !.step = "done", !.status = "cancelled"]) /\ Calm
     \/ Turn([exec EXCEPT !.step = "done", !.status = "error"]) /\ Fault    \* logs
  /\ UNCHANGED <<runner, docker, disk, world>>

-----------------------------------------------------------------------------
(***************************************************************************)
(* DockerSession.execute and _remove.                                      *)
(***************************************************************************)
Exists(n)  == n \in DOMAIN containers /\ containers[n].state # "late"
Without(n) == [k \in DOMAIN containers \ {n} |-> containers[k]]
Put(n, c)  == [k \in DOMAIN containers \cup {n} |-> IF k = n THEN c ELSE containers[k]]
NoGrace(t)   == t                          \* slip: the container expires at the timeout
ExpiresAt(t) == t + Grace
\* The calls around a command may take longer than its container lives: the timeout is
\* about 40 s or less, as that of a readiness probe which its deadline has clipped.
Brief(t) == t + Grace <= 3 * Call + Drain

\* How long the answer of a call takes is settled when it is asked for, so that others may
\* act up to that time before it is there.
Ask(step, limit) ==
  \E d \in 0..limit : Turn([exec EXCEPT !.step = step, !.spent = @ + d])

\* What fails is remembered and journalled; a journal that fails, perhaps for the same
\* reason, is raised later.
Remember(d, cost, step) ==
  \E ok \in {TRUE, cost = 0} :
    /\ Cost(cost)
    /\ docker' = [d EXCEPT !.failed = TRUE]
    /\ Journal(ok)
    /\ Turn([exec EXCEPT !.step = step, !.status = "error", !.timeout = 0,
                         !.spent = 0, !.unsaved = @ \/ ~ok])

\* "Journal the unique name and fixed expiry before asking Docker to create anything."
\* The timeout is the profile's, or what the readiness deadline leaves of it.
JournalName ==
  /\ exec.step = "journal"
  /\ LET name == Len(docker.resources) + 1
         d == [docker EXCEPT !.resources = Append(@, FALSE)]
     IN  \/ /\ Cancelled
            /\ Turn([exec EXCEPT !.step = "done", !.status = "cancelled"])
            /\ UNCHANGED <<docker, disk>> /\ Calm
         \/ /\ ~Cancelled
            /\ docker' = d /\ Journal(TRUE) /\ Calm
            /\ \E t \in Timeouts, wait \in 0..Call :
                 Turn([exec EXCEPT !.step = "create", !.name = name, !.timeout = t,
                                   !.spent = wait])
         \/ /\ ~Cancelled
            /\ docker' = [d EXCEPT !.failed = TRUE] /\ Fault
            /\ \E again \in BOOLEAN :
                 /\ Journal(~again)
                 /\ Turn([exec EXCEPT !.step = "remove", !.name = name,
                                      !.status = "error", !.unsaved = again])
  /\ UNCHANGED <<runner, world>>

\* The answer of "create" may be lost, and the daemon may act on it late.
New(state) == [state |-> state, job |-> exec.job, exit |-> "zero", report |-> NoReport]
Create ==
  /\ exec.step = "create"
  /\ \/ /\ containers' = Put(exec.name, New("created"))
        /\ \/ Ask("inspect", Call) /\ UNCHANGED docker /\ Journal(TRUE) /\ Calm
           \/ Remember(docker, 1, "remove")
     \/ /\ containers' = Put(exec.name, New("late"))
        /\ Remember(docker, 1, "remove")
     \/ UNCHANGED containers /\ Remember(docker, 1, "remove")
  /\ UNCHANGED <<runner, allocated, ran, skipped>>
Inspect ==
  /\ exec.step = "inspect"
  /\ \/ Exists(exec.name) /\ Step("start") /\ UNCHANGED <<docker, disk>> /\ Calm
     \/ Remember(docker, IF Exists(exec.name) THEN 1 ELSE 0, "remove")
  /\ UNCHANGED <<runner, world>>
\* "docker start --attach": the client may fail before the daemon starts anything.
Start ==
  /\ exec.step = "start"
  /\ UNCHANGED <<runner, docker, disk, ran>>
  /\ \/ /\ Exists(exec.name) /\ Calm
        /\ containers' = [containers EXCEPT ![exec.name].state = "running"]
        /\ allocated' = Taken
        /\ Step("wait")
        /\ UNCHANGED skipped
     \/ /\ IF Exists(exec.name) THEN Fault ELSE Calm
        /\ Step("wait")
        /\ skipped' = skipped \cup {exec.job}
        /\ UNCHANGED <<containers, allocated>>
Over == ~Exists(exec.name) \/ containers[exec.name].state # "running"
Wait ==
  /\ exec.step = "wait"
  /\ \/ /\ Cancelled /\ UNCHANGED <<docker, disk>> /\ Calm
        /\ Decide("cancelled", "none", NoReport)
     \/ /\ exec.spent >= exec.timeout /\ ~Over /\ UNCHANGED <<docker, disk>> /\ Calm
        /\ Decide("timed_out", "none", NoReport)
     \/ Over /\ Ask("state", Call + Drain) /\ UNCHANGED <<docker, disk>> /\ Calm
     \/ ~Over /\ Remember(docker, 1, "remove")       \* logs, or the client is lost
  /\ UNCHANGED <<runner, world>>
\* The state of the container decides, not the exit code of the client; one that the
\* sweeper has taken tells nothing.
ReadState ==
  /\ exec.step = "state"
  /\ IF Exists(exec.name) /\ containers[exec.name].exit # "oom"
     THEN \/ /\ Decide("none", containers[exec.name].exit, containers[exec.name].report)
             /\ UNCHANGED <<docker, disk>> /\ Calm
          \/ Remember(docker, 1, "remove")
     ELSE Remember(docker, 0, "remove")
  /\ UNCHANGED <<runner, world>>

\* _remove: resolve the container, remove it, and verify that it is gone.
Gone(step) ==
  LET d == [docker EXCEPT !.resources[exec.name] = TRUE]
  IN  \/ docker' = d /\ Journal(TRUE) /\ Calm /\ Step(step)
      \/ Remember(d, 1, step)
Remove ==
  /\ exec.step = "remove"
  /\ \/ ~Exists(exec.name) /\ Gone("collect")
     \/ Exists(exec.name) /\ Step("rm") /\ UNCHANGED <<docker, disk>> /\ Calm
     \/ Remember(docker, 1, "collect")
  /\ UNCHANGED <<runner, world>>
ForceRemove ==
  /\ exec.step = "rm"
  /\ \/ containers' = Without(exec.name) /\ Gone("collect")
     \/ containers' \in {containers, Without(exec.name)} /\ Remember(docker, 1, "collect")
  /\ UNCHANGED <<runner, allocated, ran, skipped>>
Collect ==
  /\ exec.step = "collect"
  /\ UNCHANGED <<runner, disk, world>> /\ Calm
  /\ IF exec.unsaved THEN Step("raised") /\ UNCHANGED docker
     ELSE /\ Turn([exec EXCEPT !.step = "done",
               !.status = IF @ # "none" THEN @ ELSE Status(exec.exit, exec.report)])
          /\ docker' = [docker EXCEPT !.failed =
                          @ \/ (IsTest(exec.job) /\ exec.report.is = "unsafe")]

-----------------------------------------------------------------------------
(***************************************************************************)
(* The daemon, the containers, the sweeper, and what happens to the runner. *)
(***************************************************************************)
DaemonCreates(n) ==
  /\ containers[n].state = "late"
  /\ containers' = [containers EXCEPT ![n].state = "created"]
  /\ UNCHANGED <<allocated, ran, skipped>>
ContainerEnds(n) ==
  /\ containers[n].state = "running"
  /\ LET job == containers[n].job
     IN  \E exit \in {"zero", "nonzero", "oom"}, report \in Reports :
           /\ Leaves(job, exit, report)
           /\ containers' = [containers EXCEPT ![n].state = "exited", ![n].exit = exit,
                                               ![n].report = report]
           /\ ran' = Ran(job, exit, report)
           /\ allocated' = Left(job, exit)
  /\ UNCHANGED skipped

\* sweep: what has expired is removed, whoever may use it.  A container that is waited
\* for is as old as its command; when one expires that nobody waits for makes no
\* difference, and is left open.
Waits == {"inspect", "start", "wait", "state"}
Expired(n) ==
  exec.step \in Waits /\ n = exec.name => exec.spent >= ExpiresAt(exec.timeout)
ListedRunning(n) == Exists(n) /\ containers[n].state = "running"   \* slip: without --all
Listed(n)        == Exists(n)
Sweep(n) ==
  /\ Listed(n) /\ Expired(n)
  /\ containers' = Without(n)
  /\ UNCHANGED <<allocated, ran, skipped>>

\* A container is waited for until the command's timeout.  The calls of a removal are not
\* timed.
Ended == phase \in {"ended", "dead"}
TimePasses ==
  /\ exec.step = "wait" /\ ~Over /\ exec.spent < exec.timeout
  /\ exec' = [exec EXCEPT !.spent = @ + 1]
  /\ UNCHANGED <<plan, runner, docker, cancel, disk, world>> /\ Calm

Cancel ==
  /\ ~Ended /\ ~cancel
  /\ cancel' = TRUE
  /\ UNCHANGED <<plan, runner, docker, exec, disk, world>> /\ Calm
\* The process is killed, and its memory is lost.
Die ==
  /\ ~Ended
  /\ phase' = "dead" /\ next' = 0 /\ exec' = Idle /\ results' = << >>
  /\ session' = NewSession /\ docker' = NewDocker
  /\ error' = FALSE /\ cancel' = FALSE
  /\ UNCHANGED <<plan, disk, world>> /\ Calm

PlanStep ==
  /\ UNCHANGED <<plan, cancel, world>>
  /\ \/ Begin \/ PrepareDocker \/ StartEnvironment
     \/ Prepare \/ Prepared \/ EndPrepare
     \/ Probe \/ Probed \/ EndProbes \/ Ready
     \/ CheckStep \/ Checked \/ EndChecks \/ Raised
     \/ StartCleanup \/ Cleanup \/ Cleaned \/ EndCleanup
     \/ Dispose \/ Disposed \/ EndDispose \/ Final
CommandStep ==
  /\ \/ Spawn \/ ProcessEnds \/ StopProcess
     \/ JournalName \/ Create \/ Inspect \/ Start \/ Wait \/ ReadState
     \/ Remove \/ ForceRemove \/ Collect
  /\ UNCHANGED <<plan, cancel>>
Outside == UNCHANGED <<plan, runner, docker, exec, cancel, disk>> /\ Calm
DaemonStep    == Outside /\ \E n \in DOMAIN containers : DaemonCreates(n)
ContainerStep == Outside /\ \E n \in DOMAIN containers : ContainerEnds(n)
SweepStep     == Outside /\ \E n \in DOMAIN containers : Sweep(n)

ExecNext ==
  \/ PlanStep \/ CommandStep
  \/ DaemonStep \/ ContainerStep \/ SweepStep
  \/ TimePasses \/ Cancel \/ Die

\* The runner goes on, the daemon does what it was asked, time passes, and the sweeper,
\* which the operator keeps running, comes back.  None of them can go on for ever, so
\* it is enough that they do not stop together.  Nothing says that a container ends.
Progress == PlanStep \/ CommandStep \/ TimePasses \/ DaemonStep \/ SweepStep
ExecSpec == ExecInit /\ [][ExecNext]_vars /\ WF_vars(Progress)

-----------------------------------------------------------------------------
(***************************************************************************)
(* Properties.                                                             *)
(***************************************************************************)
\* Types.  A name is never used twice, and a result is that of its check.
Results ==
  [check : DOMAIN Checks, status : Statuses, exit : {"none", "zero", "nonzero"},
   evidence : [status : Statuses \cup {"none"}, tests : Nat, skipped : Nat, failures : Nat]]
Steps == {"spawn", "process", "journal", "create", "inspect", "start", "wait", "state",
          "remove", "rm", "collect", "done", "raised"}
ExecutionTypeOK ==
  /\ plan \in [isolated : BOOLEAN, environment : BOOLEAN]
  /\ next \in Nat /\ {error, cancel} \subseteq BOOLEAN
  /\ results \in Seq(Results)
  /\ \A i \in DOMAIN results : results[i].check = i
  /\ session \in [started : BOOLEAN, ready : BOOLEAN, complete : BOOLEAN,
                  cleaned : Seq(BOOLEAN), unsaved : BOOLEAN]
  /\ Len(session.cleaned) <= Cleanups
  /\ docker \in [ready : BOOLEAN, failed : BOOLEAN, resources : Seq(BOOLEAN)]
  /\ exec # Idle =>
       /\ exec.step \in Steps /\ exec.job[1] \in Stages \cup {"dispose"}
       /\ exec.status \in Statuses \cup {"none"} /\ exec.exit \in {"none", "zero", "nonzero"}
       /\ exec.name \in 0..Len(docker.resources) /\ exec.report \in Reports \cup {NoReport}
       /\ exec.step = "done" /\ exec.job[1] # "dispose" => exec.status # "none"
  /\ disk.known \in Nat
  /\ phase # "dead" => DOMAIN containers \subseteq 1..Len(docker.resources)
  /\ faults \in 0..MaxFaults

\* The gate fails closed: run.json says "passed" only when every planned check has a
\* result, every required one ended well with its evidence, the environment has been
\* released and no container is left, whatever failed, died or was cancelled on the
\* way.  A container that was never started is the exception (RequiredChecksRan).
PassedWasProved ==
  disk.passed =>
    /\ Len(results) = Len(Checks)
    /\ \A c \in DOMAIN Checks : Checks[c].required =>
         \/ <<"check", c>> \in ran
         \/ Checks[c].kind = "command" /\ <<"check", c>> \in skipped
    /\ \A h \in allocated : <<"cleanup", h>> \in skipped
    /\ DOMAIN containers = {}

\* Nothing is forgotten.  What may have to be cleaned up is on disk before it exists,
\* so that it can be found when the runner is gone; the sweeper does not take a
\* container before its command has ended, and not before its state is read either
\* unless the timeout is so brief that the calls can outlast it; and a run that has
\* ended attempted every cleanup hook, even when hooks or checkpoints failed.
Journalled ==
  /\ \A n \in DOMAIN containers : n <= disk.known
  /\ allocated # {} => disk.started
Awaited ==
  exec.step \in Waits =>
    Exists(exec.name) \/ (exec.step = "state" /\ Brief(exec.timeout))
Attempted ==
  phase = "ended" /\ session.started => Len(session.cleaned) = Cleanups
NothingForgotten == Journalled /\ Awaited /\ Attempted

\* Every run ends, or its process dies, and then no container stays behind, not even
\* one that the daemon creates after its removal was verified.
NothingStays == <>[](Ended /\ DOMAIN containers = {})

\* docs/RUNS.md: "A container infrastructure failure blocks the gate and AI application
\* repair even when an individual check reports success."
RequiredChecksRan ==
  disk.passed =>
    \A c \in DOMAIN Checks : Checks[c].required => <<"check", c>> \in ran
=============================================================================
