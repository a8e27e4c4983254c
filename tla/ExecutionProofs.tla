-------------------------- MODULE ExecutionProofs --------------------------
(***************************************************************************)
(* Theorems about Execution for every plan, any number of hooks, probes    *)
(* and faults, and every timeout that a command may have.  GraceAssumption *)
(* relates the lengths of the calls to the grace, as the code fixes them.  *)
(***************************************************************************)
EXTENDS Execution, SequenceTheorems, TLAPS

\* Types of everything, inductive by themselves.
Phases ==
  {"begin", "docker", "environment", "prepare", "probe", "ready", "checks",
   "cleanup", "dispose", "final", "ended", "dead"}
Jobs == (Stages \cup {"dispose"}) \X Nat
Told == Reports \cup {NoReport}
Reading ==
  [status : Statuses \cup {"none"}, tests : Nat, skipped : Nat, failures : Nat]
Command ==
  [step : Steps, job : Jobs, name : Nat, status : Statuses \cup {"none"},
   exit : {"none", "zero", "nonzero"}, report : Told, timeout : Nat, spent : Nat,
   unsaved : BOOLEAN]
Container ==
  [state : {"late", "created", "running", "exited"}, job : Jobs,
   exit : {"zero", "nonzero", "oom"}, report : Told]
DockerSteps ==
  {"create", "inspect", "start", "wait", "state", "remove", "rm", "collect"}
SessionT ==
  [started : BOOLEAN, ready : BOOLEAN, complete : BOOLEAN, cleaned : Seq(BOOLEAN),
   unsaved : BOOLEAN]
DockerT == [ready : BOOLEAN, failed : BOOLEAN, resources : Seq(BOOLEAN)]
DiskT == [state : {"none", "running", "completed", "cancelled"}, passed : BOOLEAN,
          started : BOOLEAN, known : Nat]
Types ==
  /\ plan \in [isolated : BOOLEAN, environment : BOOLEAN]
  /\ phase \in Phases
  /\ next \in Nat /\ {error, cancel} \subseteq BOOLEAN
  /\ results \in Seq(Results)
  /\ session \in SessionT
  /\ docker \in DockerT
  /\ exec \in Command \cup {Idle}
  /\ exec.step = "done" => exec.status # "none"
  /\ exec # Idle => exec.name \in 0..Len(docker.resources)
  /\ exec.step \in DockerSteps => exec.name # 0
  /\ phase = "checks" /\ exec # Idle => next \in DOMAIN Checks
  /\ disk \in DiskT
  /\ \A n \in DOMAIN containers : n \in Nat /\ containers[n] \in Container
  /\ faults \in 0..MaxFaults

\* A command is told from Idle by its step.
LEMMA CommandsAreNotIdle == \A c \in Command : c.step # "idle" /\ c # Idle
BY DEF Command, Steps, Idle

\* The outcome of a command, and what a report says, have their types.
LEMMA StatusType ==
  ASSUME NEW exit \in {"none", "zero", "nonzero"}, NEW r \in Told
  PROVE  /\ Status(exit, r) \in Statuses
         /\ ReadJunit(r) \in Reading
<1>1. r \in Report /\ NoReport \in Report
  BY ExecutionAssumption DEF Told, NoReport, Report
<1>2. ASSUME NEW status \in Statuses, NEW report \in Report
      PROVE  Evidence(status, report) \in Reading /\ Evidence(status, report).status = status
  BY <1>2 DEF Evidence, Report, Statuses, Reading
<1>3. {"missing_evidence", "invalid_evidence", "failed", "no_tests", "skipped", "passed"}
        \subseteq Statuses
  BY DEF Statuses
<1>4. ReadJunit(r) \in Reading /\ ReadJunit(r).status \in Statuses
  <2>1. CASE r.is = "missing"
    BY <1>1, <1>2, <1>3, <2>1 DEF ReadJunit
  <2>2. CASE r.is # "missing" /\ r.is # "sound"
    BY <1>1, <1>2, <1>3, <2>2 DEF ReadJunit
  <2>3. CASE r.is = "sound"
    BY <1>1, <1>2, <1>3, <2>3 DEF ReadJunit
  <2>. QED
    BY <2>1, <2>2, <2>3
<1>. QED
  BY <1>3, <1>4 DEF Status

\* A checkpoint keeps the type of what is on disk.
LEMMA CheckpointType ==
  ASSUME Types, NEW ok \in BOOLEAN, NEW state \in {"running", "completed", "cancelled"},
         Checkpoint(ok, state),
         session'.started \in BOOLEAN, Len(docker'.resources) \in Nat
  PROVE  /\ disk' \in DiskT
         /\ faults' \in 0..MaxFaults
<1>1. Passes(state)' \in BOOLEAN
  BY DEF Passes
<1>. QED
  BY <1>1, ExecutionAssumption DEF Types, DiskT, Checkpoint, Saves, Calm, Fault, Cost

\* A checkpoint of run_plan, which may fail.
Saving == \E ok \in BOOLEAN, state \in {"running", "completed", "cancelled"} :
             Checkpoint(ok, state)
\* What a step of run_plan writes to disk: nothing, or a checkpoint.
LEMMA PlanSaves == PlanStep => Saving \/ (UNCHANGED disk /\ (Calm \/ Fault))
<1>1. \A ok \in BOOLEAN : Changed(ok) => Saving
  BY DEF Changed, Saving
<1> HIDE DEF Saving
<1>. QED
BY <1>1
DEF PlanStep, Begin, PrepareDocker, StartEnvironment, Prepare, Prepared, EndPrepare, Probe,
    Probed, EndProbes, Ready, CheckStep, Checked, EndChecks, Raised, StartCleanup, Cleanup,
    Cleaned, EndCleanup, Dispose, Disposed, EndDispose, Final, Persist, Launch, Append1,
    Saving


\* Every step of run_plan keeps the types.
LEMMA PlanTypes == Types /\ PlanStep => Types'
<1> SUFFICES ASSUME Types, PlanStep PROVE Types'
  OBVIOUS
<1> USE ExecutionAssumption
<1>1. plan' = plan /\ cancel' = cancel /\ containers' = containers
  BY DEF PlanStep, world
<1>2. phase' \in Phases /\ next' \in Nat /\ error' \in BOOLEAN
  <2>1. phase' = phase \/ phase' \in Phases
    BY DEF PlanStep, Begin, PrepareDocker, StartEnvironment, Prepare, Prepared, EndPrepare,
           Probe, Probed, EndProbes, Ready, CheckStep, Checked, EndChecks, Raised,
           StartCleanup, Cleanup, Cleaned, EndCleanup, Dispose, Disposed, EndDispose,
           Final, Either, GoTo, Abort, Launch, Persist, Append1, runner, Phases
  <2>2. next' \in {next, 0, 1, next + 1} \cup DOMAIN docker.resources
    BY DEF PlanStep, Begin, PrepareDocker, StartEnvironment, Prepare, Prepared, EndPrepare,
           Probe, Probed, EndProbes, Ready, CheckStep, Checked, EndChecks, Raised,
           StartCleanup, Cleanup, Cleaned, EndCleanup, Dispose, Disposed, EndDispose,
           Final, Either, GoTo, Abort, Launch, Persist, Append1, runner, Onward, Remaining
  <2>3. error' \in {error, TRUE, error \/ session.unsaved, error \/ exec.step = "raised"}
    BY DEF PlanStep, Begin, PrepareDocker, StartEnvironment, Prepare, Prepared, EndPrepare,
           Probe, Probed, EndProbes, Ready, CheckStep, Checked, EndChecks, Raised,
           StartCleanup, Cleanup, Cleaned, EndCleanup, Dispose, Disposed, EndDispose,
           Final, Either, GoTo, Abort, Launch, Persist, Append1, runner
  <2>4. next' \in Nat
    BY <2>2 DEF Types, DockerT
  <2>5. error' \in BOOLEAN
    <3>1. error \in BOOLEAN /\ session.unsaved \in BOOLEAN
      BY DEF Types, SessionT
    <3>. QED
      BY <3>1, <2>3
  <2>. QED
    BY <2>1, <2>4, <2>5 DEF Types
<1>3. \/ exec' = exec \/ exec' = Idle
      \/ /\ exec' \in Command /\ exec'.step # "done"
         /\ exec'.name \in 0..Len(docker.resources)
         /\ exec'.step \in DockerSteps => exec'.name # 0
  <2>1. ASSUME NEW step \in {"journal", "spawn", "remove"}, NEW job \in Jobs, NEW name \in Nat
        PROVE  /\ Fresh(step, job, name) \in Command
               /\ Fresh(step, job, name).step = step /\ Fresh(step, job, name).name = name
    BY DEF Fresh, Command, Steps, Statuses, Told
  <2>2. ASSUME NEW stage \in Stages, Launch(stage)
        PROVE  /\ exec' \in Command /\ exec'.step \in {"journal", "spawn"}
               /\ exec'.name = 0
    <3>1. <<stage, next>> \in Jobs
      BY DEF Jobs, Types
    <3>2. PICK step \in {"journal", "spawn"} : exec' = Fresh(step, <<stage, next>>, 0)
      BY <2>2 DEF Launch
    <3>. QED
      BY <2>1, <3>1, <3>2
  <2>3. ASSUME Dispose
        PROVE  /\ exec' \in Command /\ exec'.step = "remove"
               /\ exec'.name \in 1..Len(docker.resources)
    <3>1. PICK n \in DOMAIN docker.resources : exec' = Fresh("remove", <<"dispose", n>>, n)
      BY <2>3 DEF Dispose, Remaining
    <3>2. n \in 1..Len(docker.resources)
      BY DEF Types, DockerT
    <3>3. <<"dispose", n>> \in Jobs
      BY <3>2 DEF Jobs
    <3>. QED
      BY <2>1, <3>1, <3>2, <3>3
  <2>4. {"prepare", "probe", "check", "cleanup"} \subseteq Stages
    BY DEF Stages
  <2>5. exec' = exec \/ exec' = Idle \/ Dispose \/ Prepare \/ Probe \/ CheckStep \/ Cleanup
    BY DEF PlanStep, Begin, PrepareDocker, StartEnvironment, Prepared, EndPrepare, Probed,
           EndProbes, Ready, Checked, EndChecks, Raised, StartCleanup, Cleaned, EndCleanup,
           Disposed, EndDispose, Final
  <2>6. exec' = exec \/ exec' = Idle \/ Dispose \/ \E stage \in Stages : Launch(stage)
    BY <2>4, <2>5 DEF Prepare, Probe, CheckStep, Cleanup
  <2>. QED
    <3>1. Len(docker.resources) \in Nat
      BY DEF Types
    <3>2. CASE Dispose
      BY <2>3, <3>1, <3>2
    <3>3. CASE \E stage \in Stages : Launch(stage)
      BY <2>2, <3>1, <3>3 DEF DockerSteps
    <3>. QED
      BY <2>6, <3>2, <3>3
<1>4. session' \in SessionT
  <2>1. CASE UNCHANGED session
    BY <2>1 DEF Types
  <2>2. CASE \E b \in BOOLEAN : session' = [session EXCEPT !.started = b]
    BY <2>2 DEF Types, SessionT
  <2>3. CASE \E b \in BOOLEAN : session' = [session EXCEPT !.ready = b]
    BY <2>3 DEF Types, SessionT
  <2>4. ASSUME NEW s \in SessionT, NEW ok \in BOOLEAN, Persist(s, ok)
        PROVE  session' \in SessionT
    BY <2>4 DEF Persist, SessionT
  <2>5. CASE StartCleanup
    BY <2>4, <2>5 DEF StartCleanup, Types, SessionT
  <2>6. CASE Cleaned
    <3>1. PICK ok \in BOOLEAN, passed \in BOOLEAN :
            Persist([session EXCEPT !.cleaned = Append(@, passed)], ok)
      BY <2>6 DEF Cleaned
    <3>2. session.cleaned \in Seq(BOOLEAN)
      BY DEF Types, SessionT
    <3>3. Append(session.cleaned, passed) \in Seq(BOOLEAN)
      BY <3>2
    <3>4. [session EXCEPT !.cleaned = Append(@, passed)] \in SessionT
      BY <3>3 DEF Types, SessionT
    <3>. QED
      BY <2>4, <3>1, <3>4
  <2>7. CASE EndCleanup
    <3>1. PICK ok \in BOOLEAN, complete \in BOOLEAN :
            Persist([session EXCEPT !.complete = complete], ok)
      BY <2>7 DEF EndCleanup
    <3>2. [session EXCEPT !.complete = complete] \in SessionT
      BY DEF Types, SessionT
    <3>. QED
      BY <2>4, <3>1, <3>2
  <2>. QED
    BY <2>1, <2>2, <2>3, <2>5, <2>6, <2>7
    DEF PlanStep, Begin, PrepareDocker, StartEnvironment, Prepare, Prepared, EndPrepare,
        Probe, Probed, EndProbes, Ready, CheckStep, Checked, EndChecks, Raised, Cleanup,
        Dispose, Disposed, EndDispose, Final, Launch, Append1, runner, Types
<1>5. docker' \in DockerT
  BY DEF Types, DockerT, PlanStep, Begin, PrepareDocker, StartEnvironment, Prepare,
         Prepared, EndPrepare, Probe, Probed, EndProbes, Ready, CheckStep, Checked,
         EndChecks, Raised, StartCleanup, Cleanup, Cleaned, EndCleanup, Dispose, Disposed,
         EndDispose, Final, Launch, Append1
<1>6. results' \in Seq(Results)
  <2>1. CASE UNCHANGED results
    BY <2>1 DEF Types
  <2>2. ASSUME NEW status \in Statuses, NEW exit \in {"none", "zero", "nonzero"},
               NEW evidence \in Reading, next \in DOMAIN Checks,
               Append1(status, exit, evidence)
        PROVE  results' \in Seq(Results)
    <3>1. [check |-> next, status |-> status, exit |-> exit, evidence |-> evidence] \in Results
      BY <2>2 DEF Results, Reading
    <3>. QED
      BY <3>1, <2>2 DEF Append1, Types
  <2>3. CASE CheckStep
    <3>1. NoEvidence \in Reading /\ {"cancelled", "error"} \subseteq Statuses
      BY DEF NoEvidence, Evidence, NoReport, Reading, Statuses
    <3>. QED
      BY <2>1, <2>2, <2>3, <3>1 DEF CheckStep, Launch, runner
  <2>4. CASE Checked
    <3>1. exec.step = "done" /\ exec \in Command
      BY <2>4 DEF Checked, Types, Idle
    <3>2. /\ exec.status \in Statuses /\ exec.exit \in {"none", "zero", "nonzero"}
          /\ exec.report \in Told
      BY <3>1 DEF Types, Command
    <3>3. NoEvidence \in Reading
      BY DEF NoEvidence, Evidence, NoReport, Reading
    <3>4. ReadJunit(exec.report) \in Reading
      BY <3>2, StatusType
    <3>5. next \in DOMAIN Checks
      BY <2>4, <3>1, CommandsAreNotIdle DEF Checked, Types
    <3>. QED
      BY <2>2, <2>4, <3>2, <3>3, <3>4, <3>5 DEF Checked
  <2>. QED
    BY <2>1, <2>3, <2>4
    DEF PlanStep, Begin, PrepareDocker, StartEnvironment, Prepare, Prepared, EndPrepare,
        Probe, Probed, EndProbes, Ready, EndChecks, Raised, StartCleanup, Cleanup, Cleaned,
        EndCleanup, Dispose, Disposed, EndDispose, Final, Launch, runner
<1>7. disk' \in DiskT
   /\ faults' \in 0..MaxFaults
  <2>1. session'.started \in BOOLEAN /\ Len(docker'.resources) \in Nat
    BY <1>4, <1>5 DEF SessionT, DockerT
  <2>2. CASE Saving
    BY <2>1, <2>2, CheckpointType DEF Saving, Types
  <2>3. CASE UNCHANGED disk /\ (Calm \/ Fault)
    BY <2>3 DEF Calm, Fault, Cost, Types
  <2>. QED
    BY <2>2, <2>3, PlanSaves
<1>8. phase' = "checks" /\ exec' # Idle => next' \in DOMAIN Checks
  BY DEF PlanStep, Begin, PrepareDocker, StartEnvironment, Prepare, Prepared, EndPrepare,
         Probe, Probed, EndProbes, Ready, CheckStep, Checked, EndChecks, Raised,
         StartCleanup, Cleanup, Cleaned, EndCleanup, Dispose, Disposed, EndDispose, Final,
         At, Launch, Append1, runner
<1>9. /\ exec'.step = "done" => exec'.status # "none"
      /\ exec' # Idle => exec'.name \in 0..Len(docker'.resources)
      /\ exec'.step \in DockerSteps => exec'.name # 0
  <2>1. docker'.resources = docker.resources
    BY DEF Types, DockerT, PlanStep, Begin, PrepareDocker, StartEnvironment, Prepare,
           Prepared, EndPrepare, Probe, Probed, EndProbes, Ready, CheckStep, Checked,
           EndChecks, Raised, StartCleanup, Cleanup, Cleaned, EndCleanup, Dispose,
           Disposed, EndDispose, Final, Launch, Append1
  <2>. QED
    BY <1>3, <2>1 DEF Types, Idle, DockerSteps
<1>. QED
  BY <1>1, <1>2, <1>3, <1>4, <1>5, <1>6, <1>7, <1>8, <1>9 DEF Types


\* A journal keeps the type of what is on disk.
LEMMA JournalType ==
  ASSUME disk \in DiskT, docker' \in DockerT, NEW ok \in BOOLEAN, Journal(ok)
  PROVE  disk' \in DiskT
<1>1. Len(docker'.resources) \in Nat
  BY DEF DockerT
<1>. QED
  BY <1>1 DEF Journal, DiskT

\* What is remembered keeps the types, and so does the journal.
LEMMA RememberTypes ==
  ASSUME Types, exec \in Command, NEW d \in DockerT, NEW cost \in {0, 1},
         NEW step \in Steps, Remember(d, cost, step)
  PROVE  /\ docker' \in DockerT /\ docker'.resources = d.resources
         /\ docker'.failed
         /\ exec' \in Command /\ exec'.step = step /\ exec'.name = exec.name
         /\ exec'.job = exec.job /\ exec'.status = "error"
         /\ disk' \in DiskT /\ faults' \in 0..MaxFaults
<1>1. PICK ok \in BOOLEAN :
        /\ Cost(cost) /\ docker' = [d EXCEPT !.failed = TRUE] /\ Journal(ok)
        /\ exec' = [exec EXCEPT !.step = step, !.status = "error", !.timeout = 0,
                                !.spent = 0, !.unsaved = @ \/ ~ok]
  BY DEF Remember, Turn
<1>2. docker' \in DockerT /\ docker'.resources = d.resources /\ docker'.failed
  BY <1>1 DEF DockerT
<1>3. /\ exec' \in Command /\ exec'.step = step /\ exec'.name = exec.name
      /\ exec'.job = exec.job /\ exec'.status = "error"
  BY <1>1 DEF Command, Statuses
<1>4. faults' \in 0..MaxFaults
  BY <1>1, ExecutionAssumption DEF Cost, Types
<1>. QED
  BY <1>1, <1>2, <1>3, <1>4, JournalType DEF Types


\* A command goes on to its next step.
LEMMA StepTypes ==
  ASSUME exec \in Command, NEW step \in Steps, Step(step)
  PROVE  /\ exec' \in Command /\ exec'.step = step /\ exec'.name = exec.name
         /\ exec'.job = exec.job /\ exec'.status = exec.status /\ exec'.exit = exec.exit
         /\ exec'.report = exec.report /\ exec'.spent = exec.spent
         /\ exec'.unsaved = exec.unsaved /\ exec'.timeout = exec.timeout
BY DEF Step, Turn, Command

\* A command waits for the answer of a call.
LEMMA AskTypes ==
  ASSUME exec \in Command, NEW step \in Steps, NEW limit \in Nat, Ask(step, limit)
  PROVE  /\ exec' \in Command /\ exec'.step = step /\ exec'.name = exec.name
         /\ exec'.job = exec.job /\ exec'.status = exec.status /\ exec'.exit = exec.exit
         /\ exec'.report = exec.report /\ exec'.timeout = exec.timeout
         /\ exec'.spent \in exec.spent..(exec.spent + limit)
<1>1. PICK d \in 0..limit : exec' = [exec EXCEPT !.step = step, !.spent = exec.spent + d]
  BY DEF Ask, Turn, Command
<1>2. /\ exec.spent \in Nat /\ exec.spent + d \in Nat
      /\ exec.spent + d \in exec.spent..(exec.spent + limit)
  BY DEF Command
<1>. QED
  BY <1>1, <1>2 DEF Command

\* What a step makes of the command, and of the rest that the runner knows and writes.
Moved == /\ exec' \in Command /\ exec'.name = exec.name
         /\ exec'.step = "done" => exec'.status # "none"
Kept  == /\ docker' \in DockerT /\ Len(docker'.resources) = Len(docker.resources)
         /\ disk' \in DiskT /\ faults' \in 0..MaxFaults
\* Every step of a command keeps the types.
LEMMA CommandTypes ==
  Types /\ CommandStep => /\ Types' /\ exec \in Command /\ exec' \in Command
                          /\ Len(docker'.resources) >= Len(docker.resources)
<1> SUFFICES ASSUME Types, CommandStep
             PROVE  /\ Types' /\ exec \in Command /\ exec' \in Command
                    /\ Len(docker'.resources) >= Len(docker.resources)
  OBVIOUS
<1> USE ExecutionAssumption
<1>1. exec \in Command
  <2>1. exec.step # "idle"
    BY DEF CommandStep, Spawn, ProcessEnds, StopProcess, JournalName, Create, Inspect,
           Start, Wait, ReadState, Remove, ForceRemove, Collect
  <2>. QED
    BY <2>1 DEF Types, Idle
<1>2. UNCHANGED <<plan, runner, cancel>>
  BY DEF CommandStep, Spawn, ProcessEnds, StopProcess, JournalName, Create, Inspect, Start,
         Wait, ReadState, Remove, ForceRemove, Collect
<1>3. /\ exec.name \in 0..Len(docker.resources) /\ Len(docker.resources) \in Nat
      /\ exec.step \in DockerSteps => exec.name \in DOMAIN docker.resources
      /\ docker \in DockerT /\ disk \in DiskT /\ faults \in 0..MaxFaults
  BY <1>1, CommandsAreNotIdle DEF Types, DockerT, Command
<1>4. UNCHANGED <<docker, disk>> /\ (Calm \/ Fault) => Kept
  BY <1>3 DEF Calm, Fault, Cost, Kept
<1>5. \/ Step("process") \/ Step("raised") \/ Step("start") \/ Step("wait")
      \/ Step("rm") \/ Step("collect") \/ Ask("inspect", Call) \/ Ask("state", Call + Drain)
      => Moved
  <2>1. Call \in Nat /\ Call + Drain \in Nat
    OBVIOUS
  <2>2. ASSUME NEW step \in {"inspect", "state"}, NEW limit \in Nat, Ask(step, limit)
        PROVE  Moved
    BY <1>1, <2>2, AskTypes DEF Moved, Steps
  <2>3. ASSUME NEW step \in {"process", "raised", "start", "wait", "rm", "collect"}, Step(step)
        PROVE  Moved
    BY <1>1, <2>3, StepTypes DEF Moved, Steps
  <2>. QED
    BY <2>1, <2>2, <2>3
<1>6. \/ Remember(docker, 0, "remove") \/ Remember(docker, 1, "remove")
      \/ Remember(docker, 1, "collect")
      => Moved /\ Kept
  BY <1>1, <1>3, RememberTypes DEF Moved, Kept, Steps
<1>7. ASSUME NEW status \in Statuses, Turn([exec EXCEPT !.step = "done", !.status = status])
      PROVE  Moved
  BY <1>1, <1>7 DEF Turn, Command, Steps, Statuses, Moved
<1>8. {"cancelled", "error", "timed_out"} \subseteq Statuses /\ NoReport \in Told
  BY DEF Statuses, Told
<1>9. ASSUME Spawn PROVE Moved /\ Kept
  BY <1>4, <1>5, <1>7, <1>8, <1>9 DEF Spawn
<1>10. ASSUME NEW status \in Statuses, NEW exit \in {"zero", "nonzero"}, NEW report \in Told,
              Turn([exec EXCEPT !.step = "done", !.exit = exit, !.report = report,
                                !.status = status])
       PROVE  Moved
  BY <1>1, <1>10 DEF Turn, Command, Steps, Statuses, Moved
<1>11. ASSUME ProcessEnds PROVE Moved /\ Kept
  <2>1. PICK exit \in {"zero", "nonzero"}, report \in Reports :
          Turn([exec EXCEPT !.step = "done", !.exit = exit, !.report = report,
                            !.status = Status(exit, report)])
    BY <1>11 DEF ProcessEnds
  <2>2. Status(exit, report) \in Statuses /\ report \in Told
    BY StatusType DEF Told
  <2>. QED
    BY <1>4, <1>10, <1>11, <2>1, <2>2 DEF ProcessEnds
<1>12. ASSUME StopProcess PROVE Moved /\ Kept
  BY <1>4, <1>7, <1>8, <1>12 DEF StopProcess
<1>13. UNCHANGED docker /\ Journal(TRUE) /\ Calm => Kept
  BY <1>3, <1>4, JournalType DEF Kept, Calm
<1>14. ASSUME Create PROVE Moved /\ Kept
  BY <1>5, <1>6, <1>13, <1>14 DEF Create
<1>15. ASSUME Inspect PROVE Moved /\ Kept
  <2>1. CASE Exists(exec.name)
    BY <1>4, <1>5, <1>6, <1>15, <2>1 DEF Inspect
  <2>2. CASE ~Exists(exec.name)
    BY <1>4, <1>5, <1>6, <1>15, <2>2 DEF Inspect
  <2>. QED
    BY <2>1, <2>2
<1>16. ASSUME Start PROVE Moved /\ Kept
  BY <1>4, <1>5, <1>16 DEF Start
<1>17. ASSUME NEW status \in Statuses \cup {"none"}, NEW exit \in {"none", "zero", "nonzero"},
              NEW report \in Told, Decide(status, exit, report)
       PROVE  Moved
  BY <1>1, <1>17 DEF Decide, Turn, Command, Steps, Moved
<1>18. ASSUME Wait PROVE Moved /\ Kept
  BY <1>4, <1>5, <1>6, <1>8, <1>17, <1>18 DEF Wait
<1>19. ASSUME ReadState PROVE Moved /\ Kept
  <2>1. CASE Exists(exec.name) /\ containers[exec.name].exit # "oom"
    <3>1. /\ containers[exec.name].exit \in {"none", "zero", "nonzero"}
          /\ containers[exec.name].report \in Told
      BY <2>1 DEF Types, Container, Exists
    <3>. QED
      BY <1>4, <1>6, <1>17, <1>19, <2>1, <3>1 DEF ReadState
  <2>2. CASE ~(Exists(exec.name) /\ containers[exec.name].exit # "oom")
    BY <1>6, <1>19, <2>2 DEF ReadState
  <2>. QED
    BY <2>1, <2>2
<1>20. ASSUME Gone("collect"), exec.name \in DOMAIN docker.resources
       PROVE  Moved /\ Kept
  <2> DEFINE d == [docker EXCEPT !.resources[exec.name] = TRUE]
  <2>1. d \in DockerT /\ Len(d.resources) = Len(docker.resources)
    <3>1. docker.resources \in Seq(BOOLEAN) /\ exec.name \in 1..Len(docker.resources)
      BY <1>3, <1>20 DEF DockerT
    <3> DEFINE resources == [docker.resources EXCEPT ![exec.name] = TRUE]
    <3>2. resources \in Seq(BOOLEAN) /\ Len(resources) = Len(docker.resources)
      BY <3>1, ExceptSeq
    <3> HIDE DEF resources
    <3>3. d = [docker EXCEPT !.resources = resources]
      BY <1>3 DEF DockerT, resources
    <3>. QED
      BY <1>3, <3>2, <3>3 DEF DockerT
  <2>2. CASE docker' = d /\ Journal(TRUE) /\ Calm /\ Step("collect")
    BY <1>3, <1>5, <2>1, <2>2, JournalType DEF Kept, Calm
  <2>3. CASE Remember(d, 1, "collect")
    BY <1>1, <2>1, <2>3, RememberTypes DEF Moved, Kept, Steps
  <2>. QED
    BY <1>20, <2>2, <2>3 DEF Gone
<1>21. ASSUME Remove PROVE Moved /\ Kept
  <2>1. exec.name \in DOMAIN docker.resources
    BY <1>3, <1>21 DEF Remove, DockerSteps
  <2>. QED
    BY <1>4, <1>5, <1>6, <1>20, <1>21, <2>1 DEF Remove
<1>22. ASSUME ForceRemove PROVE Moved /\ Kept
  <2>1. exec.name \in DOMAIN docker.resources
    BY <1>3, <1>22 DEF ForceRemove, DockerSteps
  <2>. QED
    BY <1>6, <1>20, <1>22, <2>1 DEF ForceRemove
<1>23. ASSUME Collect PROVE Moved /\ Kept
  <2>1. CASE exec.unsaved
    BY <1>4, <1>5, <1>23, <2>1 DEF Collect
  <2>2. CASE ~exec.unsaved
    <3>1. exec.exit \in {"none", "zero", "nonzero"} /\ exec.report \in Told
          /\ exec.status \in Statuses \cup {"none"}
      BY <1>1 DEF Command
    <3> DEFINE status == IF exec.status # "none" THEN exec.status
                         ELSE Status(exec.exit, exec.report)
    <3>2. status \in Statuses
      BY <3>1, StatusType
    <3>3. Turn([exec EXCEPT !.step = "done", !.status = status])
      BY <1>23, <2>2 DEF Collect
    <3>4. PICK failed \in BOOLEAN : docker' = [docker EXCEPT !.failed = failed]
      BY <1>23, <2>2 DEF Collect
    <3>5. docker' \in DockerT /\ docker'.resources = docker.resources
      BY <1>3, <3>4 DEF DockerT
    <3>. QED
      BY <1>3, <1>7, <1>23, <3>2, <3>3, <3>5 DEF Collect, Kept, Calm
  <2>. QED
    BY <2>1, <2>2
<1>24. ASSUME JournalName
       PROVE  /\ exec' \in Command /\ docker' \in DockerT
              /\ Len(docker'.resources) >= Len(docker.resources)
              /\ disk' \in DiskT /\ faults' \in 0..MaxFaults
              /\ exec'.step = "done" => exec'.status # "none"
              /\ exec'.name \in 0..Len(docker'.resources)
              /\ exec'.step \in DockerSteps => exec'.name # 0
  <2> DEFINE name == Len(docker.resources) + 1
             d == [docker EXCEPT !.resources = Append(@, FALSE)]
  <2>1. /\ d \in DockerT /\ Len(d.resources) = name /\ name \in Nat
        /\ name > Len(docker.resources)
    <3> DEFINE resources == Append(docker.resources, FALSE)
    <3>1. /\ resources \in Seq(BOOLEAN) /\ Len(resources) = name /\ name \in Nat
          /\ name > Len(docker.resources)
      BY <1>3 DEF DockerT
    <3>2. d = [docker EXCEPT !.resources = resources]
      OBVIOUS
    <3> HIDE DEF resources, d, name
    <3>. QED
      BY <1>3, <3>1, <3>2 DEF DockerT
  <2> HIDE DEF d, name
  <2>2. /\ [d EXCEPT !.failed = TRUE] \in DockerT
        /\ Len([d EXCEPT !.failed = TRUE].resources) = name
    BY <2>1 DEF DockerT
  <2>3. CASE /\ Turn([exec EXCEPT !.step = "done", !.status = "cancelled"])
             /\ UNCHANGED <<docker, disk>> /\ Calm
    <3>1. exec'.step = "done"
      BY <1>1, <2>3 DEF Turn, Command
    <3>2. Moved /\ Kept
      BY <1>4, <1>7, <1>8, <2>3
    <3>. QED
      BY <1>3, <2>3, <3>1, <3>2 DEF Moved, Kept, DockerSteps
  <2>4. CASE /\ docker' = d /\ Journal(TRUE) /\ Calm
             /\ \E t \in Timeouts, wait \in 0..Call :
                  Turn([exec EXCEPT !.step = "create", !.name = name, !.timeout = t,
                                    !.spent = wait])
    <3>1. exec' \in Command /\ exec'.step = "create" /\ exec'.name = name
      <4>1. PICK t \in Timeouts, wait \in 0..Call :
              exec' = [exec EXCEPT !.step = "create", !.name = name, !.timeout = t,
                                   !.spent = wait]
        BY <2>4 DEF Turn
      <4>2. t \in Nat /\ wait \in Nat /\ name \in Nat /\ "create" \in Steps
        BY <2>1, <4>1 DEF Steps
      <4>. QED
        BY <1>1, <4>1, <4>2 DEF Command
    <3>2. disk' \in DiskT
      BY <1>3, <2>1, <2>4, JournalType
    <3>3. name # 0
      BY <1>3 DEF name
    <3>. QED
      BY <1>3, <2>1, <2>4, <3>1, <3>2, <3>3 DEF Calm
  <2>5. CASE /\ docker' = [d EXCEPT !.failed = TRUE] /\ Fault
             /\ \E again \in BOOLEAN :
                  /\ Journal(~again)
                  /\ Turn([exec EXCEPT !.step = "remove", !.name = name,
                                       !.status = "error", !.unsaved = again])
    <3>1. exec' \in Command /\ exec'.step = "remove" /\ exec'.name = name
      BY <1>1, <2>1, <2>5 DEF Turn, Command, Steps, Statuses
    <3>2. disk' \in DiskT
      BY <1>3, <2>2, <2>5, JournalType
    <3>3. name # 0
      BY <1>3 DEF name
    <3>4. docker' \in DockerT /\ Len(docker'.resources) = name
      BY <2>2, <2>5
    <3>5. faults' \in 0..MaxFaults
      BY <1>3, <2>5 DEF Fault, Cost
    <3>. QED
      BY <2>1, <3>1, <3>2, <3>3, <3>4, <3>5
  <2>. QED
    BY <1>24, <2>3, <2>4, <2>5 DEF JournalName, d, name
<1>25. \A n \in DOMAIN containers' : n \in Nat /\ containers'[n] \in Container
  <2>1. CASE UNCHANGED containers
    BY <2>1 DEF Types
  <2>2. ASSUME NEW n \in Nat, containers' = Without(n)
        PROVE  \A m \in DOMAIN containers' : m \in Nat /\ containers'[m] \in Container
    BY <2>2 DEF Without, Types
  <2>3. CASE Create
    <3>1. ASSUME NEW state \in {"late", "created"} PROVE New(state) \in Container
      BY <1>1, <1>8 DEF New, Container, Command
    <3>2. ASSUME NEW n \in Nat, NEW c \in Container, containers' = Put(n, c)
          PROVE  \A m \in DOMAIN containers' : m \in Nat /\ containers'[m] \in Container
      BY <3>2 DEF Put, Types
    <3>3. exec.name \in Nat
      BY <1>1 DEF Command
    <3>. QED
      BY <2>1, <2>3, <3>1, <3>2, <3>3 DEF Create
  <2>4. CASE Start
    <3>1. CASE /\ Exists(exec.name)
               /\ containers' = [containers EXCEPT ![exec.name].state = "running"]
      <4>1. /\ DOMAIN containers' = DOMAIN containers
            /\ \A n \in DOMAIN containers :
                 containers'[n] \in {containers[n], [containers[n] EXCEPT !.state = "running"]}
        BY <3>1
      <4>2. \A c \in Container : [c EXCEPT !.state = "running"] \in Container
        BY DEF Container
      <4>. QED
        BY <4>1, <4>2 DEF Types
    <3>. QED
      BY <2>1, <2>4, <3>1 DEF Start
  <2>5. CASE ForceRemove
    BY <1>1, <2>1, <2>2, <2>5 DEF ForceRemove, Command
  <2>. QED
    BY <2>1, <2>3, <2>4, <2>5
    DEF CommandStep, Spawn, ProcessEnds, StopProcess, JournalName, Inspect, Wait,
        ReadState, Remove, Collect, world
<1>26. ASSUME Spawn \/ ProcessEnds \/ StopProcess PROVE exec'.step \notin DockerSteps
  <2>1. exec'.step \in {"process", "raised", "done"}
    BY <1>1, <1>26 DEF Spawn, ProcessEnds, StopProcess, Step, Turn, Command
  <2>. QED
    BY <2>1 DEF DockerSteps
<1>27. ASSUME \/ Create \/ Inspect \/ Start \/ Wait \/ ReadState
              \/ Remove \/ ForceRemove \/ Collect
       PROVE  exec.name # 0
  <2>1. exec.step \in DockerSteps
    BY <1>27
    DEF Create, Inspect, Start, Wait, ReadState, Remove, ForceRemove, Collect, DockerSteps
  <2>. QED
    BY <2>1 DEF Types
<1>28. /\ Len(docker'.resources) >= Len(docker.resources)
       /\ exec' \in Command /\ docker' \in DockerT
       /\ disk' \in DiskT /\ faults' \in 0..MaxFaults
       /\ exec'.step = "done" => exec'.status # "none"
       /\ exec'.name \in 0..Len(docker'.resources)
       /\ exec'.step \in DockerSteps => exec'.name # 0
  <2>1. CASE Spawn \/ ProcessEnds \/ StopProcess
    BY <1>3, <1>9, <1>11, <1>12, <1>26, <2>1 DEF Moved, Kept
  <2>2. CASE \/ Create \/ Inspect \/ Start \/ Wait \/ ReadState
             \/ Remove \/ ForceRemove \/ Collect
    <3>1. Moved /\ Kept
      BY <1>14, <1>15, <1>16, <1>18, <1>19, <1>21, <1>22, <1>23, <2>2
    <3>. QED
      BY <1>3, <1>27, <2>2, <3>1 DEF Moved, Kept
  <2>. QED
    BY <1>24, <2>1, <2>2 DEF CommandStep
<1>29. phase' = "checks" => next' \in DOMAIN Checks
  BY <1>1, <1>2, CommandsAreNotIdle DEF Types, runner
<1>. QED
  BY <1>1, <1>2, <1>25, <1>28, <1>29 DEF Types, runner

\* While time passes a command only grows older.
LEMMA TimeTypes ==
  ASSUME Types, TimePasses
  PROVE  /\ exec \in Command /\ exec' \in Command
         /\ exec'.step = exec.step /\ exec'.name = exec.name /\ exec'.job = exec.job
         /\ exec'.status = exec.status /\ exec'.timeout = exec.timeout
         /\ exec'.spent = exec.spent + 1
<1>1. exec \in Command
  BY DEF TimePasses, Types, Idle
<1>2. exec.spent + 1 \in Nat
  BY <1>1 DEF Command
<1>. QED
  BY <1>1, <1>2 DEF TimePasses, Command

\* So does every other step.
LEMMA TypesStep == Types /\ [ExecNext]_vars => Types'
<1> SUFFICES ASSUME Types, [ExecNext]_vars PROVE Types'
  OBVIOUS
<1> USE ExecutionAssumption
<1>1. CASE PlanStep
  BY <1>1, PlanTypes
<1>2. CASE CommandStep
  BY <1>2, CommandTypes
<1>3. ASSUME Outside, \A n \in DOMAIN containers' : n \in Nat /\ containers'[n] \in Container
      PROVE  Types'
  BY <1>3 DEF Outside, runner, Calm, Types
<1>4. CASE DaemonStep
  <2>1. PICK m \in DOMAIN containers : DaemonCreates(m)
    BY <1>4 DEF DaemonStep
  <2>2. \A n \in DOMAIN containers' : n \in Nat /\ containers'[n] \in Container
    <3>1. /\ DOMAIN containers' = DOMAIN containers
          /\ \A n \in DOMAIN containers :
               containers'[n] \in {containers[n], [containers[n] EXCEPT !.state = "created"]}
      BY <2>1 DEF DaemonCreates
    <3>2. \A c \in Container : [c EXCEPT !.state = "created"] \in Container
      BY DEF Container
    <3>. QED
      BY <3>1, <3>2 DEF Types
  <2>. QED
    BY <1>3, <1>4, <2>2 DEF DaemonStep
<1>5. CASE ContainerStep
  <2>1. PICK m \in DOMAIN containers : ContainerEnds(m)
    BY <1>5 DEF ContainerStep
  <2>2. PICK exit \in {"zero", "nonzero", "oom"}, report \in Reports :
          containers' = [containers EXCEPT ![m].state = "exited", ![m].exit = exit,
                                           ![m].report = report]
    BY <2>1 DEF ContainerEnds
  <2>3. \A n \in DOMAIN containers' : n \in Nat /\ containers'[n] \in Container
    <3> DEFINE Ending(c) == [c EXCEPT !.state = "exited", !.exit = exit, !.report = report]
    <3>1. /\ DOMAIN containers' = DOMAIN containers
          /\ \A n \in DOMAIN containers :
               containers'[n] \in {containers[n], Ending(containers[n])}
      BY <2>2
    <3>2. \A c \in Container : Ending(c) \in Container
      BY DEF Container, Told
    <3> HIDE DEF Ending
    <3>. QED
      BY <3>1, <3>2 DEF Types
  <2>. QED
    BY <1>3, <1>5, <2>3 DEF ContainerStep
<1>6. CASE SweepStep
  <2>1. PICK m \in DOMAIN containers : Sweep(m)
    BY <1>6 DEF SweepStep
  <2>2. \A n \in DOMAIN containers' : n \in Nat /\ containers'[n] \in Container
    BY <2>1 DEF Sweep, Without, Types
  <2>. QED
    BY <1>3, <1>6, <2>2 DEF SweepStep
<1>7. CASE TimePasses
  BY <1>7, TimeTypes, CommandsAreNotIdle DEF TimePasses, Types, runner, world, Calm
<1>8. CASE Cancel
  BY <1>8 DEF Cancel, Types, runner, world, Calm
<1>9. CASE Die
  <2>1. << >> \in Seq(Results) /\ NewSession \in SessionT /\ NewDocker \in DockerT
    BY DEF NewSession, NewDocker, SessionT, DockerT
  <2>. QED
    BY <1>9, <2>1 DEF Die, Types, world, Calm, Phases, Idle, DockerSteps
<1>10. CASE UNCHANGED vars
  BY <1>10 DEF vars, runner, Types
<1>. QED
  BY <1>1, <1>2, <1>4, <1>5, <1>6, <1>7, <1>8, <1>9, <1>10 DEF ExecNext

\* run_plan starts with the types.
LEMMA TypesInit == ExecInit => Types
<1> SUFFICES ASSUME ExecInit PROVE Types
  OBVIOUS
<1>1. << >> \in Seq(Results) /\ session \in SessionT /\ docker \in DockerT
  BY DEF ExecInit, NewSession, NewDocker, SessionT, DockerT
<1>2. disk \in DiskT
  BY DEF ExecInit, DiskT
<1>3. exec.step = "idle" /\ exec = Idle
  BY DEF ExecInit, Idle
<1>4. DOMAIN containers = {}
  BY DEF ExecInit
<1>. QED
  <2>1. faults \in 0..MaxFaults /\ next \in Nat
    BY ExecutionAssumption DEF ExecInit
  <2>2. \A n \in DOMAIN containers : n \in Nat /\ containers[n] \in Container
    BY <1>4
  <2>3. exec \in Command \cup {Idle} /\ exec.step # "done" /\ exec.step \notin DockerSteps
    BY <1>3 DEF DockerSteps
  <2>4. phase \in Phases /\ {error, cancel} \subseteq BOOLEAN
    BY DEF ExecInit, Phases
  <2>. QED
    BY <1>1, <1>2, <1>3, <2>1, <2>2, <2>3, <2>4, Zenon DEF ExecInit, Types

-----------------------------------------------------------------------------
\* A command belongs to the phase it is executed in.
PhaseOf == {<<"prepare", "prepare">>, <<"probe", "probe">>, <<"check", "checks">>,
            <<"cleanup", "cleanup">>, <<"dispose", "dispose">>}
Placed == exec # Idle => <<exec.job[1], phase>> \in PhaseOf

\* A step of a command leaves its job alone, and the phase.
LEMMA SameJob == Types /\ CommandStep => exec'.job = exec.job /\ UNCHANGED <<plan, runner>>
<1> SUFFICES ASSUME Types, CommandStep PROVE exec'.job = exec.job /\ UNCHANGED <<plan, runner>>
  OBVIOUS
<1>1. exec \in Command
  BY CommandTypes
<1>2. ASSUME NEW step, NEW limit, Ask(step, limit) PROVE exec'.job = exec.job
  BY <1>1, <1>2 DEF Ask, Turn, Command
<1>3. ASSUME NEW step, Step(step) PROVE exec'.job = exec.job
  BY <1>1, <1>3 DEF Step, Turn, Command
<1>4. ASSUME NEW d, NEW cost, NEW step, Remember(d, cost, step) PROVE exec'.job = exec.job
  BY <1>1, <1>4 DEF Remember, Turn, Command
<1>5. ASSUME NEW status, NEW exit, NEW report, Decide(status, exit, report)
      PROVE  exec'.job = exec.job
  BY <1>1, <1>5 DEF Decide, Turn, Command
<1>6. ASSUME NEW status, NEW exit, NEW report, NEW name, NEW unsaved, NEW t, NEW wait,
             \/ Turn([exec EXCEPT !.step = "done", !.status = status])
             \/ Turn([exec EXCEPT !.step = "done", !.exit = exit, !.report = report,
                                  !.status = status])
             \/ Turn([exec EXCEPT !.step = "create", !.name = name, !.timeout = t,
                                  !.spent = wait])
             \/ Turn([exec EXCEPT !.step = "remove", !.name = name, !.status = status,
                                  !.unsaved = unsaved])
      PROVE  exec'.job = exec.job
  BY <1>1, <1>6 DEF Turn, Command
<1>7. exec'.job = exec.job
  BY <1>2, <1>3, <1>4, <1>5, <1>6
  DEF CommandStep, Spawn, ProcessEnds, StopProcess, JournalName, Create, Inspect, Start,
      Wait, ReadState, Remove, ForceRemove, Collect, Gone
<1>8. UNCHANGED <<plan, runner>>
  BY DEF CommandStep, Spawn, ProcessEnds, StopProcess, JournalName, Create, Inspect, Start,
         Wait, ReadState, Remove, ForceRemove, Collect
<1>. QED
  BY <1>7, <1>8

\* What is neither run_plan nor its command, nor the death of the process.
Aside == DaemonStep \/ ContainerStep \/ SweepStep \/ TimePasses \/ Cancel \/ UNCHANGED vars
\* It leaves the runner alone.
LEMMA AsideKeeps ==
  Types /\ Aside =>
    /\ UNCHANGED <<plan, runner, docker, disk>>
    /\ exec'.step = exec.step /\ exec'.name = exec.name /\ exec'.job = exec.job
    /\ exec' = Idle <=> exec = Idle
<1> SUFFICES ASSUME Types, Aside
             PROVE  /\ UNCHANGED <<plan, runner, docker, disk>>
                    /\ exec'.step = exec.step /\ exec'.name = exec.name /\ exec'.job = exec.job
                    /\ exec' = Idle <=> exec = Idle
  OBVIOUS
<1>1. CASE DaemonStep \/ ContainerStep \/ SweepStep \/ Cancel \/ UNCHANGED vars
  BY <1>1 DEF DaemonStep, ContainerStep, SweepStep, Outside, Cancel, vars, runner
<1>2. CASE TimePasses
  <2>1. UNCHANGED <<plan, runner, docker, disk>>
    BY <1>2 DEF TimePasses
  <2>. QED
    BY <1>2, <2>1, TimeTypes, CommandsAreNotIdle
<1>. QED
  BY <1>1, <1>2 DEF Aside

\* Every step is one of run_plan, of its command, of another actor, or its death.
LEMMA StepKinds == [ExecNext]_vars => PlanStep \/ CommandStep \/ Aside \/ Die
BY DEF ExecNext, Aside

\* Every step keeps a command in its phase.
LEMMA PlacedStep == Types /\ Placed /\ [ExecNext]_vars => Placed'
<1> SUFFICES ASSUME Types, Placed, [ExecNext]_vars PROVE Placed'
  OBVIOUS
<1>1. CASE PlanStep
  BY <1>1
  DEF Placed, PhaseOf, PlanStep, Begin, PrepareDocker, StartEnvironment, Prepare, Prepared,
      EndPrepare, Probe, Probed, EndProbes, Ready, CheckStep, Checked, EndChecks, Raised,
      StartCleanup, Cleanup, Cleaned, EndCleanup, Dispose, Disposed, EndDispose, Final, At,
      Launch, Fresh, Append1, runner
<1>2. CASE CommandStep
  BY <1>2, SameJob, CommandTypes, CommandsAreNotIdle DEF Placed, runner
<1>3. CASE Aside
  BY <1>3, AsideKeeps DEF Placed, runner
<1>4. CASE Die
  BY <1>4 DEF Die, Placed
<1>. QED
  BY <1>1, <1>2, <1>3, <1>4, StepKinds

\* EnvironmentSession.cleanup has tried the hooks before the next one.
Early == {"begin", "docker", "environment", "prepare", "probe", "ready", "checks"}
Cleaning ==
  /\ session.started => plan.environment
  /\ phase \in Early \/ (phase = "cleanup" /\ next = 0) => session.cleaned = << >>
  /\ phase = "cleanup" => next <= Cleanups + 1
  /\ phase = "cleanup" /\ next # 0 => Len(session.cleaned) = next - 1 /\ session.started
  /\ phase = "cleanup" /\ exec # Idle => next \in 1..Cleanups
  /\ phase \in {"dispose", "final", "ended"} =>
       Len(session.cleaned) = IF session.started THEN Cleanups ELSE 0
  /\ phase = "dead" => session.cleaned = << >>
\* Every step keeps count of the cleanup hooks.
LEMMA CleaningStep == Types /\ Placed /\ Cleaning /\ [ExecNext]_vars => Cleaning'
<1> SUFFICES ASSUME Types, Placed, Cleaning, [ExecNext]_vars PROVE Cleaning'
  OBVIOUS
<1>a. /\ Cleanups \in Nat \ {0} /\ session \in SessionT /\ next \in Nat
      /\ session.cleaned \in Seq(BOOLEAN)
  BY ExecutionAssumption DEF Types, SessionT
<1>1. CASE PlanStep
  <2>p. plan' = plan
    BY <1>1 DEF PlanStep
  <2> DEFINE Onwards == /\ phase \in Early
                        /\ \/ phase' \in Early
                           \/ phase' = "cleanup" /\ next' = 0 /\ exec' = Idle
                        /\ session'.cleaned = session.cleaned
                        /\ session'.started => plan.environment
  <2>1. Onwards => Cleaning'
    BY <1>a, <2>p DEF Cleaning, Early
  <2>2. CASE \/ Begin \/ PrepareDocker \/ Prepare \/ Prepared \/ EndPrepare \/ Probe \/ Probed
             \/ EndProbes \/ CheckStep \/ Checked \/ EndChecks
    BY <2>1, <2>2
    DEF Begin, PrepareDocker, Prepare, Prepared, EndPrepare, Probe, Probed, EndProbes,
        CheckStep, Checked, EndChecks, Cleaning, Early, At, Launch, Append1, runner,
        Either, GoTo, Abort
  <2>3. CASE StartEnvironment \/ Ready
    <3>1. session'.cleaned = session.cleaned /\ (session'.started => plan.environment)
      BY <1>a, <2>3 DEF StartEnvironment, Ready, SessionT, Cleaning
    <3>. QED
      BY <2>1, <2>3, <3>1 DEF StartEnvironment, Ready, Early, At, Either, GoTo, Abort
  <2>4. CASE Raised
    <3>1. exec # Idle
      BY <2>4 DEF Raised, Idle
    <3>2. phase \in Early
      BY <2>4, <3>1 DEF Raised, Placed, PhaseOf, Early
    <3>. QED
      BY <2>1, <2>4, <3>2 DEF Raised, Abort, Cleaning
  <2>5. ASSUME NEW s \in SessionT, NEW ok \in BOOLEAN, Persist(s, ok)
        PROVE  session'.cleaned = s.cleaned /\ session'.started = s.started
    BY <2>5 DEF Persist, SessionT
  <2>6. CASE StartCleanup
    <3>1. session'.cleaned = session.cleaned /\ session'.started = session.started
      <4>1. [session EXCEPT !.complete = TRUE] \in SessionT
            /\ [session EXCEPT !.complete = TRUE].cleaned = session.cleaned
            /\ [session EXCEPT !.complete = TRUE].started = session.started
        BY <1>a DEF SessionT
      <4>. QED
        BY <1>a, <2>5, <2>6, <4>1 DEF StartCleanup
    <3>. QED
      BY <1>a, <2>p, <2>6, <3>1 DEF StartCleanup, GoTo, At, Cleaning, Early
  <2>7. CASE Cleanup
    BY <1>a, <2>p, <2>7 DEF Cleanup, At, Launch, runner, Cleaning, Early
  <2>8. CASE Cleaned
    <3>1. next \in 1..Cleanups
      BY <2>8 DEF Cleaned, Cleaning, Idle
    <3>2. PICK ok \in BOOLEAN, passed \in BOOLEAN :
            Persist([session EXCEPT !.cleaned = Append(@, passed)], ok)
      BY <2>8 DEF Cleaned
    <3>3. [session EXCEPT !.cleaned = Append(@, passed)] \in SessionT
      BY <1>a, AppendProperties DEF SessionT
    <3>4. /\ Len(session'.cleaned) = Len(session.cleaned) + 1
          /\ session'.started = session.started
      BY <1>a, <2>5, <3>2, <3>3, AppendProperties DEF SessionT
    <3>. QED
      BY <1>a, <2>p, <2>8, <3>1, <3>4 DEF Cleaned, GoTo, Onward, Cleaning, Early
  <2>9. CASE EndCleanup
    <3>1. PICK ok \in BOOLEAN, complete \in BOOLEAN :
            Persist([session EXCEPT !.complete = complete], ok)
      BY <2>9 DEF EndCleanup
    <3>2. session'.cleaned = session.cleaned /\ session'.started = session.started
      BY <1>a, <2>5, <3>1 DEF SessionT
    <3>. QED
      BY <1>a, <2>p, <2>9, <3>2 DEF EndCleanup, GoTo, At, Cleaning, Early
  <2>10. CASE Dispose \/ Disposed \/ EndDispose \/ Final
    <3>1. session' = session
      BY <2>10 DEF Dispose, Disposed, EndDispose, Final
    <3>2. phase' \in {"dispose", "final", "ended"} /\ phase \in {"dispose", "final", "ended"}
      BY <2>10 DEF Dispose, Disposed, EndDispose, Final, At, GoTo
    <3>. QED
      BY <2>p, <3>1, <3>2 DEF Cleaning, Early
  <2>. QED
    BY <1>1, <2>2, <2>3, <2>4, <2>6, <2>7, <2>8, <2>9, <2>10 DEF PlanStep
<1>2. CASE CommandStep
  BY <1>2, SameJob, CommandTypes, CommandsAreNotIdle DEF Cleaning, runner
<1>3. CASE Aside
  BY <1>3, AsideKeeps DEF Cleaning, runner
<1>4. CASE Die
  BY <1>4, ExecutionAssumption DEF Die, Cleaning, NewSession, Early
<1>. QED
  BY <1>1, <1>2, <1>3, <1>4, StepKinds

\* The checks get their results one after the other.
Ordered ==
  /\ \A i \in DOMAIN results : results[i].check = i
  /\ phase \in Early \ {"checks"} => results = << >>
  /\ phase = "checks" => Len(results) = next - 1
\* Every step keeps the results in order.
LEMMA OrderedStep == Types /\ Placed /\ Ordered /\ [ExecNext]_vars => Ordered'
<1> SUFFICES ASSUME Types, Placed, Ordered, [ExecNext]_vars PROVE Ordered'
  OBVIOUS
<1>1. CASE PlanStep
  <2>1. results \in Seq(Results) /\ next \in Nat
    BY DEF Types
  <2>2. CASE UNCHANGED results
    <3>1. /\ phase' \in Early \ {"checks"} => phase \in Early \ {"checks"}
          /\ phase' = "checks" => \/ phase = "checks" /\ next' = next
                                  \/ phase \in Early \ {"checks"} /\ next' = 1
      <4>1. exec.step = "raised" => exec # Idle
        BY DEF Idle
      <4>. QED
        BY <1>1, <2>2, <4>1
        DEF PlanStep, Begin, PrepareDocker, StartEnvironment, Prepare, Prepared,
            EndPrepare, Probe, Probed, EndProbes, Ready, CheckStep, Checked, EndChecks,
            Raised, StartCleanup, Cleanup, Cleaned, EndCleanup, Dispose, Disposed,
            EndDispose, Final, At, Launch, Append1, runner, Either, GoTo, Abort, Early
    <3>. QED
      BY <2>1, <2>2, <3>1 DEF Ordered
  <2>3. ASSUME NEW status, NEW exit, NEW evidence, phase = "checks",
               Append1(status, exit, evidence)
        PROVE  Ordered'
    <3> DEFINE r == [check |-> next, status |-> status, exit |-> exit, evidence |-> evidence]
    <3>1. results' = Append(results, r) /\ r.check = next
      BY <2>3 DEF Append1
    <3>2. \/ phase' = "checks" /\ next' = next + 1
          \/ phase' = "cleanup"
      BY <2>3 DEF Append1, Either, GoTo, Abort
    <3>3. Len(results) = next - 1
      BY <2>3 DEF Ordered
    <3> HIDE DEF r
    <3>4. /\ Len(results') = next
          /\ \A i \in DOMAIN results' : results'[i] = IF i = next THEN r ELSE results[i]
      BY <2>1, <3>1, <3>3
    <3>5. \A i \in DOMAIN results' : results'[i].check = i
      BY <2>1, <3>1, <3>3, <3>4 DEF Ordered
    <3>. QED
      BY <2>1, <3>2, <3>4, <3>5 DEF Ordered, Early
  <2>4. CASE CheckStep
    BY <2>2, <2>3, <2>4 DEF CheckStep, At, Launch, runner
  <2>5. CASE Checked
    BY <2>3, <2>5 DEF Checked
  <2>. QED
    BY <1>1, <2>2, <2>4, <2>5
    DEF PlanStep, Begin, PrepareDocker, StartEnvironment, Prepare, Prepared, EndPrepare,
        Probe, Probed, EndProbes, Ready, EndChecks, Raised, StartCleanup, Cleanup, Cleaned,
        EndCleanup, Dispose, Disposed, EndDispose, Final, Launch, runner
<1>2. CASE CommandStep
  BY <1>2, SameJob DEF Ordered, runner
<1>3. CASE Aside
  BY <1>3, AsideKeeps DEF Ordered, runner
<1>4. CASE Die
  BY <1>4 DEF Die, Ordered, Early
<1>. QED
  BY <1>1, <1>2, <1>3, <1>4, StepKinds

\* What a command leaves on disk: the journal, which only grows.
LEMMA CommandJournals ==
  Types /\ CommandStep => /\ disk'.started = disk.started
                          /\ disk'.known \in {disk.known, Len(docker'.resources)}
<1>1. CommandStep => UNCHANGED disk \/ \E ok \in BOOLEAN : Journal(ok)
  BY DEF CommandStep, Spawn, ProcessEnds, StopProcess, JournalName, Create, Inspect, Start,
         Wait, ReadState, Remove, ForceRemove, Collect, Remember, Gone
<1>. QED
  BY <1>1 DEF Journal, Types, DiskT

\* And what a step of run_plan does.
LEMMA PlanKeeps ==
  Types /\ Placed /\ PlanStep =>
    /\ phase # "dead" /\ docker'.resources = docker.resources
    /\ phase # "environment" => session'.started = session.started
    /\ disk'.known \in {disk.known, Len(docker.resources)}
    /\ disk'.started \in {disk.started, session'.started}
    /\ exec'.step \in {"idle", "journal", "spawn", "remove"}
    /\ exec'.step \in {"journal", "spawn"} => exec'.spent = 0
<1> SUFFICES ASSUME Types, Placed, PlanStep
             PROVE  /\ phase # "dead" /\ docker'.resources = docker.resources
                    /\ phase # "environment" => session'.started = session.started
                    /\ disk'.known \in {disk.known, Len(docker.resources)}
                    /\ disk'.started \in {disk.started, session'.started}
                    /\ exec'.step \in {"idle", "journal", "spawn", "remove"}
                    /\ exec'.step \in {"journal", "spawn"} => exec'.spent = 0
  OBVIOUS
<1>1. phase # "dead"
  <2>1. CASE exec # Idle
    BY <2>1 DEF Placed, PhaseOf
  <2>2. CASE exec = Idle
    BY <2>2
    DEF PlanStep, Begin, PrepareDocker, StartEnvironment, Prepare, Prepared, EndPrepare,
        Probe, Probed, EndProbes, Ready, CheckStep, Checked, EndChecks, Raised,
        StartCleanup, Cleanup, Cleaned, EndCleanup, Dispose, Disposed, EndDispose, Final,
        At, Idle
  <2>. QED
    BY <2>1, <2>2
<1>2. docker'.resources = docker.resources
  BY DEF Types, DockerT, PlanStep, Begin, PrepareDocker, StartEnvironment, Prepare,
         Prepared, EndPrepare, Probe, Probed, EndProbes, Ready, CheckStep, Checked,
         EndChecks, Raised, StartCleanup, Cleanup, Cleaned, EndCleanup, Dispose, Disposed,
         EndDispose, Final, Launch, Append1
<1>3. phase # "environment" => session'.started = session.started
  <2>1. session \in SessionT
    BY DEF Types
  <2>2. CASE \E b \in BOOLEAN : session' = [session EXCEPT !.ready = b]
    BY <2>1, <2>2 DEF SessionT
  <2>3. ASSUME NEW s \in SessionT, NEW ok \in BOOLEAN, Persist(s, ok)
        PROVE  session'.started = s.started
    BY <2>3 DEF Persist, SessionT
  <2>4. CASE StartCleanup
    <3>1. /\ [session EXCEPT !.complete = TRUE] \in SessionT
          /\ [session EXCEPT !.complete = TRUE].started = session.started
      BY <2>1 DEF SessionT
    <3>. QED
      BY <2>1, <2>3, <2>4, <3>1 DEF StartCleanup
  <2>5. CASE Cleaned
    <3>1. PICK ok \in BOOLEAN, passed \in BOOLEAN :
            Persist([session EXCEPT !.cleaned = Append(@, passed)], ok)
      BY <2>5 DEF Cleaned
    <3>2. /\ [session EXCEPT !.cleaned = Append(@, passed)] \in SessionT
          /\ [session EXCEPT !.cleaned = Append(@, passed)].started = session.started
      BY <2>1, AppendProperties DEF SessionT
    <3>. QED
      BY <2>3, <3>1, <3>2
  <2>6. CASE EndCleanup
    <3>1. PICK ok \in BOOLEAN, complete \in BOOLEAN :
            Persist([session EXCEPT !.complete = complete], ok)
      BY <2>6 DEF EndCleanup
    <3>2. /\ [session EXCEPT !.complete = complete] \in SessionT
          /\ [session EXCEPT !.complete = complete].started = session.started
      BY <2>1 DEF SessionT
    <3>. QED
      BY <2>3, <3>1, <3>2
  <2>. QED
    BY <2>2, <2>4, <2>5, <2>6
    DEF PlanStep, Begin, PrepareDocker, StartEnvironment, Prepare, Prepared, EndPrepare,
        Probe, Probed, EndProbes, Ready, CheckStep, Checked, EndChecks, Raised, Cleanup,
        Dispose, Disposed, EndDispose, Final, Launch, Append1, At, runner
<1>4. /\ disk'.known \in {disk.known, Len(docker.resources)}
      /\ disk'.started \in {disk.started, session'.started}
  <2>1. CASE Saving
    BY <1>2, <2>1 DEF Saving, Checkpoint
  <2>2. CASE UNCHANGED disk
    BY <2>2
  <2>. QED
    BY <2>1, <2>2, PlanSaves
<1>5. /\ exec'.step \in {"idle", "journal", "spawn", "remove"}
      /\ exec'.step \in {"journal", "spawn"} => exec'.spent = 0
  <2>1. ASSUME NEW stage, Launch(stage)
        PROVE  exec'.step \in {"journal", "spawn"} /\ exec'.spent = 0
    BY <2>1 DEF Launch, Fresh
  <2>2. CASE Dispose
    BY <2>2 DEF Dispose, Fresh
  <2>3. Idle.step = "idle"
    BY DEF Idle
  <2>4. exec' = Idle \/ Dispose \/ Prepare \/ Probe \/ CheckStep \/ Cleanup
    BY DEF PlanStep, Begin, PrepareDocker, StartEnvironment, Prepared, EndPrepare, Probed,
           EndProbes, Ready, Checked, EndChecks, Raised, StartCleanup, Cleaned, EndCleanup,
           Disposed, EndDispose, Final, At
  <2>5. exec' = Idle \/ Dispose \/ \E stage \in Stages : Launch(stage)
    BY <2>4 DEF Prepare, Probe, CheckStep, Cleanup, Stages, At
  <2>. QED
    BY <2>1, <2>2, <2>3, <2>5
<1>. QED
  BY <1>1, <1>2, <1>3, <1>4, <1>5

\* Written ahead: a container's name, and that the environment was started, are on
\* disk before the container or a hook's resource can exist.
Recorded ==
  /\ phase # "dead" => DOMAIN containers \subseteq 1..Len(docker.resources)
  /\ \A n \in DOMAIN containers : n <= disk.known
  /\ exec.step = "create" => exec.name <= disk.known
  /\ phase \in {"begin", "docker", "environment"} => allocated = {}
  /\ phase = "prepare" => session.started /\ disk.started
  /\ allocated # {} => disk.started
  /\ allocated # {} /\ phase # "dead" => session.started
\* Every step writes ahead.
LEMMA RecordedStep == Types /\ Placed /\ Recorded /\ [ExecNext]_vars => Recorded'
<1> SUFFICES ASSUME Types, Placed, Recorded, [ExecNext]_vars PROVE Recorded'
  OBVIOUS
<1>1. CASE PlanStep
  <2>1. UNCHANGED <<containers, allocated>>
    BY <1>1 DEF PlanStep, world
  <2>2. exec'.step # "create"
    BY <1>1, PlanKeeps
  <2>3. phase' \in {"begin", "docker", "environment"} => allocated = {}
    <3>1. phase' \in {"begin", "docker", "environment"} =>
            phase \in {"begin", "docker", "environment"}
      BY <1>1
      DEF PlanStep, Begin, PrepareDocker, StartEnvironment, Prepare, Prepared, EndPrepare,
          Probe, Probed, EndProbes, Ready, CheckStep, Checked, EndChecks, Raised,
          StartCleanup, Cleanup, Cleaned, EndCleanup, Dispose, Disposed, EndDispose, Final,
          At, Launch, Append1, runner, Either, GoTo, Abort
    <3>. QED
      BY <3>1 DEF Recorded
  <2>4. phase' = "prepare" => session'.started /\ disk'.started
    <3>1. CASE StartEnvironment
      <4>1. phase' = "prepare" =>
              /\ session' = [session EXCEPT !.started = TRUE]
              /\ Checkpoint(TRUE, "running")
        BY <3>1 DEF StartEnvironment, Either, GoTo, Abort, Changed, At
      <4>. QED
        BY <4>1 DEF Checkpoint, Types, SessionT
    <3>2. CASE ~StartEnvironment
      <4>1. phase' = "prepare" => phase = "prepare"
        BY <1>1, <3>2
        DEF PlanStep, Begin, PrepareDocker, Prepare, Prepared, EndPrepare, Probe, Probed,
            EndProbes, Ready, CheckStep, Checked, EndChecks, Raised, StartCleanup, Cleanup,
            Cleaned, EndCleanup, Dispose, Disposed, EndDispose, Final, At, Launch, Append1,
            runner, Either, GoTo, Abort
      <4>. QED
        BY <1>1, <4>1, PlanKeeps DEF Recorded
    <3>. QED
      BY <3>1, <3>2
  <2>5. allocated # {} => session'.started /\ disk'.started
    BY <1>1, PlanKeeps DEF Recorded, Types, DiskT, SessionT
  <2>6. DOMAIN containers \subseteq 1..Len(docker'.resources)
    BY <1>1, PlanKeeps DEF Recorded
  <2>7. \A n \in DOMAIN containers : n <= disk'.known
    BY <1>1, <2>6, PlanKeeps DEF Recorded, Types
  <2>. QED
    BY <2>1, <2>2, <2>3, <2>4, <2>5, <2>6, <2>7 DEF Recorded
<1>2. CASE CommandStep
  <2>1. exec \in Command /\ phase' = phase /\ session' = session /\ phase # "dead"
    BY <1>2, SameJob, CommandTypes, CommandsAreNotIdle DEF Placed, PhaseOf, runner
  <2>2. phase' \notin {"begin", "docker", "environment"}
    BY <2>1, CommandsAreNotIdle DEF Placed, PhaseOf
  <2>3. disk'.started = disk.started
    BY <1>2, CommandJournals
  <2>4. allocated' # {} => allocated # {} \/ phase = "prepare"
    <3>1. allocated' \subseteq allocated \/ exec.job[1] = "prepare"
      BY <1>2
      DEF CommandStep, Spawn, ProcessEnds, StopProcess, JournalName, Create, Inspect,
          Start, Wait, ReadState, Remove, ForceRemove, Collect, Taken, Left, world
    <3>. QED
      BY <2>1, <3>1, CommandsAreNotIdle DEF Placed, PhaseOf
  <2>5. exec'.step = "create" => exec'.name <= disk'.known
    <3>1. CASE JournalName
      <4>1. exec'.step = "create" => Journal(TRUE)
        BY <2>1, <3>1 DEF JournalName, Turn, Command
      <4>2. exec'.step = "create" => disk'.known = Len(docker'.resources)
        BY <4>1 DEF Journal, Types, DiskT
      <4>3. exec'.name \in 0..Len(docker'.resources) /\ Len(docker'.resources) \in Nat
        BY <1>2, CommandTypes, CommandsAreNotIdle DEF Types, DockerT
      <4>. QED
        BY <4>2, <4>3
    <3>2. CASE ~JournalName
      BY <1>2, <2>1, <3>2
      DEF CommandStep, Spawn, ProcessEnds, StopProcess, Create, Inspect, Start, Wait,
          ReadState, Remove, ForceRemove, Collect, Turn, Step, Ask, Decide, Remember, Gone,
          Command
    <3>. QED
      BY <3>1, <3>2
  <2>6. \A n \in DOMAIN containers' :
          n \in DOMAIN containers \/ (exec.step = "create" /\ n = exec.name)
    BY <1>2
    DEF CommandStep, Spawn, ProcessEnds, StopProcess, JournalName, Create, Inspect, Start,
        Wait, ReadState, Remove, ForceRemove, Collect, Put, Without, world
  <2>7. /\ Len(docker.resources) \in Nat /\ Len(docker'.resources) \in Nat
        /\ Len(docker'.resources) >= Len(docker.resources)
        /\ disk.known \in Nat /\ disk'.known \in {disk.known, Len(docker'.resources)}
        /\ exec.step = "create" => exec.name \in 1..Len(docker.resources)
    <3>1. docker \in DockerT /\ docker' \in DockerT /\ disk \in DiskT
      BY <1>2, CommandTypes DEF Types
    <3>2. exec.step = "create" => exec.name \in 1..Len(docker.resources)
      BY <2>1, <3>1, CommandsAreNotIdle DEF Types, DockerT, DockerSteps, Command
    <3>3. disk'.known \in {disk.known, Len(docker'.resources)}
      BY <1>2, CommandJournals
    <3>. QED
      BY <1>2, <3>1, <3>2, <3>3, CommandTypes DEF DockerT, DiskT
  <2>8. /\ DOMAIN containers' \subseteq 1..Len(docker'.resources)
        /\ \A n \in DOMAIN containers' : n <= disk'.known
    BY <2>1, <2>6, <2>7 DEF Recorded
  <2>. QED
    BY <2>1, <2>2, <2>3, <2>4, <2>5, <2>8 DEF Recorded
<1>3. CASE Aside
  <2>1. DOMAIN containers' \subseteq DOMAIN containers
    BY <1>3
    DEF Aside, DaemonStep, DaemonCreates, ContainerStep, ContainerEnds, SweepStep, Sweep,
        Without, TimePasses, Cancel, vars, world
  <2>2. allocated' \subseteq allocated
    BY <1>3
    DEF Aside, DaemonStep, DaemonCreates, ContainerStep, ContainerEnds, SweepStep, Sweep,
        Left, TimePasses, Cancel, vars, world
  <2>. QED
    BY <1>3, <2>1, <2>2, AsideKeeps DEF Recorded, runner
<1>4. CASE Die
  BY <1>4 DEF Die, Recorded, world, Idle
<1>. QED
  BY <1>1, <1>2, <1>3, <1>4, StepKinds

\* What the calls around a command have taken is bounded, call by call.
Spent ==
  /\ exec.step \in {"create"} \cup Waits => exec.timeout \in Timeouts
  /\ exec.step = "create" => exec.spent <= Call
  /\ exec.step \in {"inspect", "start"} => exec.spent <= 2 * Call
  /\ exec.step = "wait" => exec.spent <= 2 * Call \/ exec.spent <= exec.timeout
  /\ exec.step = "state" => \/ exec.spent <= 3 * Call + Drain
                            \/ exec.spent <= exec.timeout + Call + Drain

\* The container of a command that waits has not expired, unless the timeout is brief
\* and only the state is left to be read.
LEMMA NotExpired ==
  ASSUME Types, Spent, exec.step \in Waits, ~(exec.step = "state" /\ Brief(exec.timeout))
  PROVE  exec.spent < ExpiresAt(exec.timeout)
<1>1. exec \in Command
  BY DEF Types, Idle, Waits
<1>2. /\ {exec.spent, exec.timeout, Call, Drain, Grace} \subseteq Nat
      /\ exec.timeout > 0 /\ 2 * Call <= Grace /\ Call + Drain < Grace
  BY <1>1, ExecutionAssumption, GraceAssumption DEF Command, Spent
<1>3. CASE exec.step = "state"
  <2>1. 3 * Call + Drain < exec.timeout + Grace
    BY <1>2, <1>3 DEF Brief
  <2>. QED
    BY <1>2, <1>3, <2>1 DEF Spent, ExpiresAt
<1>4. CASE exec.step # "state"
  <2>1. exec.spent <= 2 * Call \/ exec.spent <= exec.timeout
    BY <1>4 DEF Spent, Waits
  <2>. QED
    BY <1>2, <2>1 DEF ExpiresAt
<1>. QED
  BY <1>3, <1>4

\* Every step of a command keeps the bounds, and the container that is waited for.
LEMMA CommandAwaits ==
  Types /\ Spent /\ Awaited /\ CommandStep => Spent' /\ Awaited'
<1> SUFFICES ASSUME Types, Spent, Awaited, CommandStep PROVE Spent' /\ Awaited'
  OBVIOUS
<1>1. /\ exec \in Command /\ exec.spent \in Nat /\ exec.timeout \in Nat
      /\ Call \in Nat /\ Drain \in Nat
  BY CommandTypes, ExecutionAssumption DEF Command
<1>2. ASSUME exec'.step \notin {"create"} \cup Waits PROVE Spent' /\ Awaited'
  BY <1>2 DEF Spent, Awaited, Waits
<1>3. ASSUME NEW step \in Steps, Step(step)
      PROVE  /\ exec'.step = step /\ exec'.spent = exec.spent
             /\ exec'.name = exec.name /\ exec'.timeout = exec.timeout
  BY <1>1, <1>3, StepTypes
<1>4. ASSUME NEW d, NEW cost, Remember(d, cost, "remove") PROVE exec'.step = "remove"
  BY <1>1, <1>4 DEF Remember, Turn, Command
<1>5. CASE \/ Spawn \/ ProcessEnds \/ StopProcess \/ ReadState
           \/ Remove \/ ForceRemove \/ Collect
  <2>1. exec'.step \in {"process", "raised", "done", "remove", "rm", "collect"}
    BY <1>1, <1>5
    DEF Spawn, ProcessEnds, StopProcess, ReadState, Remove, ForceRemove, Collect, Turn,
        Step, Decide, Remember, Gone, Command
  <2>. QED
    BY <1>2, <2>1 DEF Waits
<1>6. CASE JournalName
  <2>2. \/ exec'.step \in {"done", "remove"}
        \/ /\ exec'.step = "create" /\ exec'.timeout \in Timeouts
           /\ exec'.spent \in 0..Call
    BY <1>1, <1>6 DEF JournalName, Turn, Command
  <2>3. CASE exec'.step = "create"
    BY <1>1, <2>2, <2>3 DEF Spent, Awaited, Waits
  <2>. QED
    BY <1>2, <2>2, <2>3 DEF Waits
<1>7. CASE Create
  <2>1. CASE containers' = Put(exec.name, New("created")) /\ Ask("inspect", Call)
    <3>1. /\ exec'.step = "inspect" /\ exec'.spent \in exec.spent..(exec.spent + Call)
          /\ exec'.name = exec.name /\ exec'.timeout = exec.timeout
      BY <1>1, <2>1, AskTypes DEF Steps
    <3>2. exec'.name \in DOMAIN containers' /\ containers'[exec'.name].state # "late"
      BY <2>1, <3>1 DEF Put, New
    <3>3. exec.step = "create" /\ exec.spent <= Call /\ exec.timeout \in Timeouts
      BY <1>7 DEF Create, Spent
    <3>4. Spent'
      BY <1>1, <3>1, <3>3 DEF Spent, Waits
    <3>5. Awaited'
      BY <3>1, <3>2 DEF Awaited, Exists
    <3>. QED
      BY <3>4, <3>5
  <2>. QED
    BY <1>2, <1>4, <1>7, <2>1 DEF Create, Waits
<1>8. CASE Inspect
  <2>1. CASE Step("start")
    <3>1. /\ exec'.step = "start" /\ exec'.spent = exec.spent /\ exec'.name = exec.name
          /\ exec'.timeout = exec.timeout
      BY <1>3, <2>1 DEF Steps
    <3>2. /\ exec.step = "inspect" /\ Exists(exec.name) /\ UNCHANGED containers
          /\ exec.spent <= 2 * Call /\ exec.timeout \in Timeouts
      BY <1>8 DEF Inspect, Awaited, Spent, Waits, world
    <3>3. Spent'
      BY <1>1, <3>1, <3>2 DEF Spent, Waits
    <3>4. Awaited'
      BY <3>1, <3>2 DEF Awaited, Exists
    <3>. QED
      BY <3>3, <3>4
  <2>. QED
    BY <1>2, <1>4, <1>8, <2>1 DEF Inspect, Waits
<1>9. CASE Start
  <2>1. /\ exec'.step = "wait" /\ exec'.spent = exec.spent /\ exec'.name = exec.name
        /\ exec'.timeout = exec.timeout
    BY <1>3, <1>9 DEF Start, Steps
  <2>2. /\ exec.step = "start" /\ Exists(exec.name) /\ exec.spent <= 2 * Call
        /\ exec.timeout \in Timeouts
    BY <1>9 DEF Start, Awaited, Spent, Waits
  <2>3. exec.name \in DOMAIN containers' /\ containers'[exec.name].state # "late"
    BY <1>9, <2>2 DEF Start, Exists, Types, Container
  <2>4. Spent'
    BY <1>1, <2>1, <2>2 DEF Spent, Waits
  <2>5. Awaited'
    BY <2>1, <2>3 DEF Awaited, Exists
  <2>. QED
    BY <2>4, <2>5
<1>10. CASE Wait
  <2>1. CASE Ask("state", Call + Drain)
    <3>1. /\ exec'.step = "state" /\ exec'.spent \in exec.spent..(exec.spent + (Call + Drain))
          /\ exec'.name = exec.name /\ exec'.timeout = exec.timeout
      BY <1>1, <2>1, AskTypes DEF Steps
    <3>2. /\ exec.step = "wait" /\ Exists(exec.name) /\ UNCHANGED containers
          /\ exec.spent <= 2 * Call \/ exec.spent <= exec.timeout
          /\ exec.timeout \in Timeouts
      BY <1>10 DEF Wait, Awaited, Spent, Waits, world
    <3>3. Spent'
      BY <1>1, <3>1, <3>2 DEF Spent, Waits
    <3>4. Awaited'
      BY <3>1, <3>2 DEF Awaited, Exists
    <3>. QED
      BY <3>3, <3>4
  <2>2. ASSUME NEW status, NEW exit, NEW report, Decide(status, exit, report)
        PROVE  exec'.step = "remove"
    BY <1>1, <2>2 DEF Decide, Turn, Command
  <2>. QED
    BY <1>2, <1>4, <1>10, <2>1, <2>2 DEF Wait, Waits
<1>. QED
  BY <1>5, <1>6, <1>7, <1>8, <1>9, <1>10 DEF CommandStep

\* The passing of time keeps the bounds.
LEMMA TimeAwaits ==
  Types /\ Spent /\ Awaited /\ TimePasses => Spent' /\ Awaited'
<1> SUFFICES ASSUME Types, Spent, Awaited, TimePasses PROVE Spent' /\ Awaited'
  OBVIOUS
<1>1. /\ exec \in Command /\ exec'.step = exec.step /\ exec'.name = exec.name
      /\ exec'.timeout = exec.timeout /\ exec'.spent = exec.spent + 1
  BY TimeTypes
<1>2. /\ exec.step = "wait" /\ exec.spent < exec.timeout /\ UNCHANGED containers
      /\ {exec.spent, exec.timeout, Call} \subseteq Nat
  BY <1>1, ExecutionAssumption DEF TimePasses, world, Command
<1>3. Spent'
  BY <1>1, <1>2 DEF Spent, Waits
<1>4. Awaited'
  BY <1>1, <1>2 DEF Awaited, Exists
<1>. QED
  BY <1>3, <1>4

\* The sweeper does not reach a container that a command waits for: it has not expired.
LEMMA AwaitedStep ==
  Types /\ Placed /\ Spent /\ Awaited /\ [ExecNext]_vars => Spent' /\ Awaited'
<1> SUFFICES ASSUME Types, Placed, Spent, Awaited, [ExecNext]_vars PROVE Spent' /\ Awaited'
  OBVIOUS
<1>1. CASE PlanStep
  BY <1>1, PlanKeeps DEF Spent, Awaited, Waits
<1>2. CASE CommandStep
  BY <1>2, CommandAwaits
<1>3. CASE DaemonStep \/ ContainerStep \/ SweepStep \/ Cancel \/ UNCHANGED vars
  <2>1. exec' = exec
    BY <1>3 DEF DaemonStep, ContainerStep, SweepStep, Outside, Cancel, vars
  <2> SUFFICES ASSUME exec.step \in Waits, Exists(exec.name),
                      ~(exec.step = "state" /\ Brief(exec.timeout))
               PROVE  /\ exec.name \in DOMAIN containers'
                      /\ containers'[exec.name].state # "late"
    BY <2>1 DEF Spent, Awaited, Exists
  <2>2. /\ exec.name \in DOMAIN containers /\ containers[exec.name] \in Container
        /\ containers[exec.name].state # "late"
    BY DEF Exists, Types
  <2>3. CASE DaemonStep
    BY <2>2, <2>3 DEF DaemonStep, DaemonCreates
  <2>4. CASE ContainerStep
    <3>1. PICK m \in DOMAIN containers : ContainerEnds(m)
      BY <2>4 DEF ContainerStep
    <3>2. PICK exit \in {"zero", "nonzero", "oom"}, report \in Reports :
            containers' = [containers EXCEPT ![m].state = "exited", ![m].exit = exit,
                                             ![m].report = report]
      BY <3>1 DEF ContainerEnds
    <3>. QED
      BY <2>2, <3>2 DEF Container
  <2>5. CASE SweepStep
    <3>1. PICK m \in DOMAIN containers : Sweep(m)
      BY <2>5 DEF SweepStep
    <3>2. m # exec.name
      <4>1. exec.spent < ExpiresAt(exec.timeout)
        BY NotExpired
      <4>2. {exec.spent, ExpiresAt(exec.timeout)} \subseteq Nat
        BY ExecutionAssumption DEF Types, Command, Idle, Waits, ExpiresAt
      <4>. QED
        BY <3>1, <4>1, <4>2 DEF Sweep, Expired
    <3>. QED
      BY <2>2, <3>1, <3>2 DEF Sweep, Without
  <2>6. CASE Cancel \/ UNCHANGED vars
    BY <2>2, <2>6 DEF Cancel, vars, world
  <2>. QED
    BY <1>3, <2>3, <2>4, <2>5, <2>6
<1>4. CASE TimePasses
  BY <1>4, TimeAwaits
<1>5. CASE Die
  BY <1>5 DEF Die, Spent, Awaited, Waits, Idle
<1>. QED
  BY <1>1, <1>2, <1>3, <1>4, <1>5 DEF ExecNext

-----------------------------------------------------------------------------
(***************************************************************************)
(* The inductive invariant and what follows from it.                       *)
(***************************************************************************)
ExecutionIInv == Types /\ Placed /\ Cleaning /\ Ordered /\ Recorded /\ Spent /\ Awaited

\* It holds when run_plan starts.
LEMMA ExecutionIInvInit == ExecInit => ExecutionIInv
<1> SUFFICES ASSUME ExecInit PROVE ExecutionIInv
  OBVIOUS
<1>1. Types
  BY TypesInit
<1>2. exec = Idle /\ exec.step = "idle" /\ DOMAIN containers = {}
  BY DEF ExecInit, Idle
<1>3. Placed /\ Spent /\ Awaited
  BY <1>2 DEF Placed, Spent, Awaited, Waits
<1>4. Recorded
  BY <1>2 DEF ExecInit, Recorded
<1>5. Cleaning /\ Ordered
  BY <1>2 DEF ExecInit, Cleaning, Ordered, NewSession, Early
<1>. QED
  BY <1>1, <1>3, <1>4, <1>5 DEF ExecutionIInv

\* It is inductive.
LEMMA ExecutionIInvStep == ExecutionIInv /\ [ExecNext]_vars => ExecutionIInv'
BY TypesStep, PlacedStep, CleaningStep, OrderedStep, RecordedStep, AwaitedStep
DEF ExecutionIInv

\* It holds in every reachable state.
THEOREM ExecutionInvariant == ExecSpec => []ExecutionIInv
BY ExecutionIInvInit, ExecutionIInvStep, PTL DEF ExecSpec

\* The values of run_plan, of the environment's and the Docker session's state, of the
\* command that is executed and of the containers have their types, and no container
\* has a name that the journal did not reserve.
THEOREM ExecutionTypes == ExecSpec => []ExecutionTypeOK
<1>1. ExecutionIInv => ExecutionTypeOK
  <2> SUFFICES ASSUME ExecutionIInv PROVE ExecutionTypeOK
    BY DEF ExecutionIInv
  <2>1. Len(session.cleaned) <= Cleanups
    <3>1. next \in Nat /\ Cleanups \in Nat /\ session.cleaned \in Seq(BOOLEAN)
      BY ExecutionAssumption DEF ExecutionIInv, Types, SessionT
    <3>2. CASE phase \in Early \cup {"dead"} \/ (phase = "cleanup" /\ next = 0)
      BY <3>1, <3>2 DEF ExecutionIInv, Cleaning
    <3>3. CASE phase = "cleanup" /\ next # 0
      BY <3>1, <3>3 DEF ExecutionIInv, Cleaning
    <3>4. CASE phase \in {"dispose", "final", "ended"}
      BY <3>1, <3>4 DEF ExecutionIInv, Cleaning
    <3>. QED
      BY <3>2, <3>3, <3>4 DEF ExecutionIInv, Types, Phases, Early
  <2>2. ASSUME exec # Idle
        PROVE  /\ exec.step \in Steps /\ exec.job[1] \in Stages \cup {"dispose"}
               /\ exec.status \in Statuses \cup {"none"}
               /\ exec.exit \in {"none", "zero", "nonzero"}
               /\ exec.name \in 0..Len(docker.resources)
               /\ exec.report \in Reports \cup {NoReport}
               /\ exec.step = "done" /\ exec.job[1] # "dispose" => exec.status # "none"
    BY <2>2 DEF ExecutionIInv, Types, Command, Jobs, Told
  <2>. QED
    BY <2>1, <2>2
    DEF ExecutionIInv, Types, Ordered, Recorded, ExecutionTypeOK, SessionT, DockerT, DiskT
<1>. QED
  BY <1>1, ExecutionInvariant, PTL

\* Nothing that may have to be cleaned up is forgotten (NothingForgotten): the journal is
\* written ahead of every container and the environment's file ahead of every hook, and a
\* run that has ended attempted every cleanup hook.  The sweeper takes no container
\* before its command has ended, whatever the timeout, and none before its state is read
\* unless the timeout is Brief: then the calls may outlast the container, and the command
\* may be left without an outcome.
THEOREM RunForgetsNothing == ExecSpec => []NothingForgotten
<1>1. ExecutionIInv => NothingForgotten
  BY DEF ExecutionIInv, NothingForgotten, Journalled, Attempted, Recorded, Cleaning
<1>. QED
  BY <1>1, ExecutionInvariant, PTL

=============================================================================
