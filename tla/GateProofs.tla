------------------------------ MODULE GateProofs ------------------------------
(***************************************************************************)
(* The theorem that the gate of Execution fails closed, for every plan,    *)
(* any number of hooks, probes and faults, and every timeout that a        *)
(* command may have, even when the sweeper takes its container.            *)
(***************************************************************************)
EXTENDS ExecutionProofs

\* What an outcome claims, and what must have happened for it to be true.
Credible(job, exit, report) == exit = "zero" /\ (IsTest(job) => Genuine(report))
Vouched(job) == job \in ran \/ (~IsTest(job) /\ job \in skipped)

\* A command is the one its phase counts, and an outcome is true: in a container, in
\* the command that is executed, and in the results.
Counted == exec # Idle => exec.job[2] = next
Boxes == \A n \in DOMAIN containers :
  IF containers[n].state = "exited"
  THEN Credible(containers[n].job, containers[n].exit, containers[n].report)
         => containers[n].job \in ran
  ELSE containers[n].exit = "zero" /\ containers[n].report = NoReport
Outcome == exec # Idle =>
  /\ exec.status = "passed" => exec.exit = "zero"
  /\ Credible(exec.job, exec.exit, exec.report) => Vouched(exec.job)
Credited == \A i \in DOMAIN results :
  results[i].status = "passed" /\ Evident(results[i]) => Vouched(<<"check", i>>)

\* The container that a command waits for, if the sweeper has not taken it, is its own,
\* and what its state tells.
Watched == exec.step \in Waits /\ exec.name \in DOMAIN containers =>
  /\ containers[exec.name].job = exec.job
  /\ containers[exec.name].state # "late"
  /\ exec.step \in {"inspect", "start"} => containers[exec.name].state = "created"
  /\ exec.step = "state" => containers[exec.name].state # "running"
  /\ exec.step \in {"wait", "state"} /\ containers[exec.name].state = "created"
       => exec.job \in skipped

\* What a cleanup hook that ended well has released stays released.
Freed(h) == h \notin allocated \/ <<"cleanup", h>> \in skipped
Released ==
  /\ allocated \subseteq 1..Cleanups
  /\ phase \in Early => \A n \in DOMAIN containers : containers[n].job[1] # "cleanup"
  /\ \A n \in DOMAIN containers :
       containers[n].state = "exited" /\ containers[n].exit = "zero"
         /\ containers[n].job[1] = "cleanup" => containers[n].job[2] \notin allocated
  /\ exec # Idle => (exec.job[1] = "cleanup" /\ exec.exit = "zero" => Freed(exec.job[2]))
  /\ \A h \in DOMAIN session.cleaned : session.cleaned[h] => Freed(h)
  /\ session.complete => /\ phase \in {"dispose", "final", "ended"}
                         /\ \A h \in DOMAIN session.cleaned : session.cleaned[h]

\* A container that is there although it was removed, or may come, is a failure.
Contained ==
  /\ phase # "dead" => \A n \in DOMAIN containers :
       docker.resources[n] \/ containers[n].state = "late" => docker.failed
  /\ exec.step = "create" => ~docker.resources[exec.name]
  /\ ~plan.isolated => /\ DOMAIN containers = {} /\ docker.resources = << >>
                       /\ exec.step \notin DockerSteps \cup {"journal"}

-----------------------------------------------------------------------------
\* A step of run_plan leaves no command, or a new one that its phase counts.
LEMMA PlanLaunches ==
  PlanStep => /\ UNCHANGED <<plan, world>>
              /\ \/ exec' = Idle
                 \/ \E step, stage, name : exec' = Fresh(step, <<stage, next'>>, name)
BY DEF PlanStep, Begin, PrepareDocker, StartEnvironment, Prepare, Prepared, EndPrepare, Probe,
       Probed, EndProbes, Ready, CheckStep, Checked, EndChecks, Raised, StartCleanup,
       Cleanup, Cleaned, EndCleanup, Dispose, Disposed, EndDispose, Final, At, Launch,
       Append1, runner

\* Every step counts the commands.
LEMMA CountedStep == Types /\ Counted /\ [ExecNext]_vars => Counted'
<1> SUFFICES ASSUME Types, Counted, [ExecNext]_vars PROVE Counted'
  OBVIOUS
<1>1. CASE PlanStep
  BY <1>1, PlanLaunches DEF Counted, Fresh
<1>2. CASE CommandStep
  BY <1>2, SameJob, CommandTypes, CommandsAreNotIdle DEF Counted, runner
<1>3. CASE Aside
  BY <1>3, AsideKeeps DEF Counted, runner
<1>4. CASE Die
  BY <1>4 DEF Die, Counted
<1>. QED
  BY <1>1, <1>2, <1>3, <1>4, StepKinds

\* What has run, or was skipped, stays so.
LEMMA Histories == [ExecNext]_vars => ran \subseteq ran' /\ skipped \subseteq skipped'
<1> SUFFICES ASSUME [ExecNext]_vars PROVE ran \subseteq ran' /\ skipped \subseteq skipped'
  OBVIOUS
<1>1. CASE PlanStep \/ Die
  BY <1>1 DEF PlanStep, Die, world
<1>2. CASE CommandStep
  BY <1>2 DEF CommandStep, Spawn, ProcessEnds, StopProcess, JournalName, Create, Inspect,
              Start, Wait, ReadState, Remove, ForceRemove, Collect, world, Ran
<1>3. CASE Aside
  BY <1>3 DEF Aside, DaemonStep, DaemonCreates, ContainerStep, ContainerEnds, SweepStep,
              Sweep, TimePasses, Cancel, vars, world, Ran
<1>. QED
  BY <1>1, <1>2, <1>3, StepKinds

\* What is vouched for stays so.
LEMMA VouchedStep ==
  ASSUME [ExecNext]_vars, NEW job, Vouched(job)
  PROVE  job \in ran' \/ (~IsTest(job) /\ job \in skipped')
BY Histories DEF Vouched

\* What a step can make of a container.
Same(n) ==
  /\ n \in DOMAIN containers
  /\ containers'[n].exit = containers[n].exit /\ containers'[n].job = containers[n].job
  /\ containers'[n].report = containers[n].report
Stays(n)   == Same(n) /\ containers'[n].state = containers[n].state
Comes(n)   == Same(n) /\ containers[n].state = "late" /\ containers'[n].state = "created"
Starts(n)  == /\ Same(n) /\ n = exec.name /\ exec.step = "start" /\ exec'.step = "wait"
              /\ CommandStep /\ containers'[n].state = "running"
Created(n) ==
  /\ n = exec.name /\ exec.step = "create" /\ CommandStep
  /\ containers'[n].job = exec.job /\ containers'[n].exit = "zero"
  /\ containers'[n].report = NoReport
  /\ \/ containers'[n].state = "late" /\ docker'.failed
     \/ containers'[n].state = "created"
Ends(n) ==
  /\ n \in DOMAIN containers /\ containers[n].state = "running"
  /\ containers'[n].state = "exited" /\ containers'[n].job = containers[n].job
  /\ ran' = Ran(containers'[n].job, containers'[n].exit, containers'[n].report)
  /\ allocated' = Left(containers'[n].job, containers'[n].exit)
  /\ ContainerStep

\* A command that is executed makes, starts and removes its container only.
LEMMA CommandBoxes ==
  ASSUME Types, CommandStep, NEW n \in DOMAIN containers'
  PROVE  Stays(n) \/ Starts(n) \/ Created(n)
<1>1. exec \in Command /\ exec' \in Command
  BY CommandTypes
<1>2. CASE UNCHANGED containers
  BY <1>2 DEF Stays, Same
<1>3. CASE Create
  <2>1. n \in DOMAIN containers \/ n = exec.name
    BY <1>2, <1>3 DEF Create, Put
  <2>2. CASE n # exec.name
    BY <1>2, <1>3, <2>1, <2>2 DEF Create, Put, Stays, Same
  <2>3. ASSUME n = exec.name, NEW state, containers' = Put(exec.name, New(state))
        PROVE  /\ containers'[n].job = exec.job /\ containers'[n].exit = "zero"
               /\ containers'[n].report = NoReport /\ containers'[n].state = state
    BY <2>3 DEF Put, New
  <2>4. ASSUME NEW step, Remember(docker, 1, step) PROVE docker'.failed
    BY <2>4 DEF Remember, Types, DockerT
  <2>5. CASE n = exec.name /\ ~(UNCHANGED containers)
    BY <1>3, <2>3, <2>4, <2>5 DEF Create, Created
  <2>. QED
    BY <1>2, <2>2, <2>5
<1>4. CASE Start /\ ~(UNCHANGED containers)
  <2>1. /\ containers' = [containers EXCEPT ![exec.name].state = "running"]
        /\ exec' = [exec EXCEPT !.step = "wait"] /\ exec.step = "start"
    BY <1>4 DEF Start, Step, Turn
  <2>2. exec'.step = "wait"
    BY <1>1, <2>1 DEF Command
  <2>3. n \in DOMAIN containers /\ containers[n] \in Container
    BY <2>1 DEF Types
  <2>4. CASE n = exec.name
    <3>1. containers'[n] = [containers[n] EXCEPT !.state = "running"]
      BY <2>1, <2>3, <2>4
    <3>. QED
      BY <2>1, <2>2, <2>3, <2>4, <3>1 DEF Starts, Same, Container
  <2>5. CASE n # exec.name
    BY <2>1, <2>3, <2>5 DEF Stays, Same
  <2>. QED
    BY <2>4, <2>5
<1>5. CASE ForceRemove
  BY <1>5 DEF ForceRemove, Without, Stays, Same
<1>. QED
  BY <1>2, <1>3, <1>4, <1>5
  DEF CommandStep, Spawn, ProcessEnds, StopProcess, JournalName, Inspect, Wait, ReadState,
      Remove, Collect, world

\* The daemon, the containers and the sweeper.
LEMMA AsideBoxes ==
  ASSUME Types, Aside, NEW n \in DOMAIN containers'
  PROVE  Stays(n) \/ Comes(n) \/ Ends(n)
<1>1. CASE UNCHANGED containers
  BY <1>1 DEF Stays, Same
<1>2. CASE TimePasses
  BY <1>2 DEF TimePasses, world, Stays, Same
<1>3. ASSUME NEW m \in DOMAIN containers, DaemonCreates(m)
      PROVE  Stays(n) \/ Comes(n)
  <2>1. /\ containers' = [containers EXCEPT ![m].state = "created"]
        /\ containers[m].state = "late"
    BY <1>3 DEF DaemonCreates
  <2>2. n \in DOMAIN containers /\ containers[n] \in Container
    BY <2>1 DEF Types
  <2>3. CASE n = m
    <3>1. containers'[n] = [containers[n] EXCEPT !.state = "created"]
      BY <2>1, <2>2, <2>3
    <3>. QED
      BY <2>1, <2>2, <2>3, <3>1 DEF Comes, Same, Container
  <2>4. CASE n # m
    BY <2>1, <2>2, <2>4 DEF Stays, Same
  <2>. QED
    BY <2>3, <2>4
<1>4. ASSUME NEW m \in DOMAIN containers, ContainerStep, ContainerEnds(m)
      PROVE  Stays(n) \/ Ends(n)
  <2>1. PICK exit, report :
          /\ containers' = [containers EXCEPT ![m].state = "exited", ![m].exit = exit,
                                              ![m].report = report]
          /\ ran' = Ran(containers[m].job, exit, report)
          /\ allocated' = Left(containers[m].job, exit)
          /\ containers[m].state = "running"
    BY <1>4 DEF ContainerEnds
  <2>2. n \in DOMAIN containers /\ containers[n] \in Container
    BY <2>1 DEF Types
  <2>3. CASE n = m
    <3>1. containers'[n] = [[[containers[n] EXCEPT !.state = "exited"] EXCEPT !.exit = exit]
                              EXCEPT !.report = report]
      BY <2>1, <2>2, <2>3
    <3>2. /\ containers'[n].state = "exited" /\ containers'[n].exit = exit
          /\ containers'[n].report = report /\ containers'[n].job = containers[n].job
      BY <2>2, <3>1 DEF Container
    <3>. QED
      BY <1>4, <2>1, <2>2, <2>3, <3>2 DEF Ends
  <2>4. CASE n # m
    BY <2>1, <2>2, <2>4 DEF Stays, Same
  <2>. QED
    BY <2>3, <2>4
<1>5. CASE SweepStep
  BY <1>5 DEF SweepStep, Sweep, Without, Stays, Same
<1>. QED
  BY <1>1, <1>2, <1>3, <1>4, <1>5
  DEF Aside, DaemonStep, ContainerStep, Cancel, vars, world

\* What containers tell of their commands stays true.
LEMMA BoxesStep ==
  Types /\ Boxes /\ Watched /\ [ExecNext]_vars => Boxes'
<1> SUFFICES ASSUME Types, Boxes, Watched, [ExecNext]_vars, NEW n \in DOMAIN containers'
             PROVE  IF containers'[n].state = "exited"
                    THEN Credible(containers'[n].job, containers'[n].exit,
                                  containers'[n].report) => containers'[n].job \in ran'
                    ELSE containers'[n].exit = "zero" /\ containers'[n].report = NoReport
  BY DEF Boxes, Credible, IsTest, Genuine
<1>1. ran \subseteq ran'
  BY Histories
<1>2. CASE PlanStep \/ Die
  BY <1>1, <1>2, PlanLaunches DEF Die, world, Boxes
<1>3. CASE CommandStep
  <2>1. CASE Stays(n)
    BY <1>1, <2>1 DEF Stays, Same, Boxes
  <2>2. CASE Starts(n)
    BY <2>2 DEF Starts, Same, Boxes, Watched, Waits
  <2>3. CASE Created(n)
    BY <2>3 DEF Created
  <2>. QED
    BY <1>3, <2>1, <2>2, <2>3, CommandBoxes
<1>4. CASE Aside
  <2>1. CASE Stays(n)
    BY <1>1, <2>1 DEF Stays, Same, Boxes
  <2>2. CASE Comes(n)
    BY <2>2 DEF Comes, Same, Boxes
  <2>3. CASE Ends(n)
    BY <2>3 DEF Ends, Ran, Credible
  <2>. QED
    BY <1>4, <2>1, <2>2, <2>3, AsideBoxes
<1>. QED
  BY <1>2, <1>3, <1>4, StepKinds

\* Every step keeps the container of a command that waits.
LEMMA WatchedStep == ExecutionIInv /\ Watched /\ [ExecNext]_vars => Watched'
<1> SUFFICES ASSUME ExecutionIInv, Watched, [ExecNext]_vars, exec'.step \in Waits,
                    exec'.name \in DOMAIN containers'
             PROVE  /\ containers'[exec'.name].job = exec'.job
                    /\ containers'[exec'.name].state # "late"
                    /\ exec'.step \in {"inspect", "start"} =>
                         containers'[exec'.name].state = "created"
                    /\ exec'.step = "state" => containers'[exec'.name].state # "running"
                    /\ exec'.step \in {"wait", "state"}
                         /\ containers'[exec'.name].state = "created" => exec'.job \in skipped'
  BY DEF Watched
<1>1. Types
  BY DEF ExecutionIInv
<1>2. CASE PlanStep \/ Die
  BY <1>1, <1>2, PlanKeeps DEF ExecutionIInv, Die, Idle, Waits
<1>3. CASE CommandStep
  <2>1. exec \in Command /\ exec' \in Command /\ exec'.job = exec.job
    BY <1>1, <1>3, CommandTypes, SameJob
  <2>2. CASE Create
    <3>1. Ask("inspect", Call) /\ containers' = Put(exec.name, New("created"))
      BY <2>1, <2>2 DEF Create, Remember, Turn, Command, Waits
    <3>2. exec'.name = exec.name /\ exec'.step = "inspect"
      BY <2>1, <3>1 DEF Ask, Turn, Command
    <3>. QED
      BY <2>1, <3>1, <3>2 DEF Put, New
  <2>3. CASE Inspect
    <3>1. exec.step = "inspect" /\ Step("start") /\ UNCHANGED containers
      BY <2>1, <2>3 DEF Inspect, Remember, Turn, Command, Waits, world
    <3>2. exec'.name = exec.name /\ exec'.step = "start"
      BY <2>1, <3>1 DEF Step, Turn, Command
    <3>. QED
      BY <2>1, <3>1, <3>2 DEF Watched, Waits
  <2>4. CASE Start
    <3>1. /\ exec.step = "start" /\ Step("wait")
          /\ \/ containers' = [containers EXCEPT ![exec.name].state = "running"]
             \/ UNCHANGED containers /\ skipped' = skipped \cup {exec.job}
      BY <2>4 DEF Start
    <3>2. exec'.name = exec.name /\ exec'.step = "wait"
      BY <2>1, <3>1 DEF Step, Turn, Command
    <3>3. /\ exec.name \in DOMAIN containers /\ containers[exec.name] \in Container
          /\ containers[exec.name].job = exec.job /\ containers[exec.name].state # "late"
      BY <1>1, <3>1, <3>2 DEF Watched, Waits, Types
    <3>4. CASE UNCHANGED containers /\ skipped' = skipped \cup {exec.job}
      BY <2>1, <3>2, <3>3, <3>4
    <3>5. CASE containers' = [containers EXCEPT ![exec.name].state = "running"]
      <4>1. containers'[exec.name] = [containers[exec.name] EXCEPT !.state = "running"]
        BY <1>1, <3>2, <3>5
      <4>. QED
        BY <2>1, <3>2, <3>3, <4>1 DEF Container
    <3>. QED
      BY <3>1, <3>4, <3>5
  <2>5. CASE Wait
    <3>1. /\ exec.step = "wait" /\ Ask("state", Call + Drain) /\ Over
          /\ UNCHANGED <<containers, skipped>>
      BY <2>1, <2>5 DEF Wait, Decide, Remember, Turn, Command, Waits, world
    <3>2. exec'.name = exec.name /\ exec'.step = "state"
      BY <2>1, <3>1 DEF Ask, Turn, Command
    <3>3. containers[exec.name].state # "running"
      BY <3>1, <3>2 DEF Watched, Waits, Over, Exists
    <3>. QED
      BY <2>1, <3>1, <3>2, <3>3 DEF Watched, Waits
  <2>6. CASE Remove \/ ForceRemove
    BY <2>1, <2>6 DEF Remove, ForceRemove, Gone, Remember, Step, Turn, Command, Waits
  <2>7. CASE Spawn \/ ProcessEnds \/ StopProcess \/ JournalName
    BY <2>1, <2>7
    DEF Spawn, ProcessEnds, StopProcess, JournalName, Step, Turn, Command, Waits
  <2>8. CASE ReadState \/ Collect
    BY <2>1, <2>8 DEF ReadState, Collect, Decide, Remember, Step, Turn, Command, Waits
  <2>. QED
    BY <1>3, <2>2, <2>3, <2>4, <2>5, <2>6, <2>7, <2>8 DEF CommandStep
<1>4. CASE Aside
  <2> DEFINE n == exec.name
  <2>1. exec'.step = exec.step /\ exec'.name = n /\ exec'.job = exec.job
    BY <1>1, <1>4, AsideKeeps
  <2>2. skipped \subseteq skipped'
    BY Histories
  <2>3. Stays(n) \/ Comes(n) \/ Ends(n)
    BY <1>1, <1>4, <2>1, AsideBoxes
  <2>4. containers[n].state # "late" /\ containers[n].job = exec.job
    BY <2>1, <2>3 DEF Stays, Comes, Ends, Same, Watched
  <2> HIDE DEF n
  <2>5. CASE Stays(n)
    BY <2>1, <2>2, <2>4, <2>5 DEF Stays, Same, Watched, n
  <2>6. CASE Ends(n)
    BY <2>1, <2>4, <2>6 DEF Ends, Watched, n
  <2>. QED
    BY <2>3, <2>4, <2>5, <2>6 DEF Comes
<1>. QED
  BY <1>2, <1>3, <1>4, StepKinds

\* A step of another actor leaves what a command has told.
LEMMA AsideTells ==
  Types /\ Aside /\ exec # Idle =>
    exec'.status = exec.status /\ exec'.exit = exec.exit /\ exec'.report = exec.report
<1> SUFFICES ASSUME Types, Aside, exec # Idle
             PROVE  /\ exec'.status = exec.status /\ exec'.exit = exec.exit
                    /\ exec'.report = exec.report
  OBVIOUS
<1>1. exec \in Command
  BY DEF Types
<1>2. CASE TimePasses
  <2>1. \E k : exec' = [exec EXCEPT !.spent = k]
    BY <1>2 DEF TimePasses
  <2>. QED
    BY <1>1, <2>1 DEF Command
<1>. QED
  BY <1>2 DEF Aside, DaemonStep, ContainerStep, SweepStep, Outside, TimePasses, Cancel, vars

\* What a step of a command makes of its outcome.
Unmoved == /\ exec'.exit = exec.exit /\ exec'.report = exec.report
           /\ exec'.status \in {exec.status, "cancelled", "error", "timed_out",
                                Status(exec.exit, exec.report)}
Stopped == exec'.exit = "none" /\ exec'.status \in {"cancelled", "timed_out"}
Local   == /\ exec'.status = Status(exec'.exit, exec'.report)
           /\ ran' = Ran(exec.job, exec'.exit, exec'.report)
           /\ allocated' = Left(exec.job, exec'.exit)
Read    == /\ exec.step = "state" /\ exec.name \in DOMAIN containers
           /\ exec'.status = "none"
           /\ exec'.exit = containers[exec.name].exit
           /\ exec'.report = containers[exec.name].report
           /\ UNCHANGED world
\* Every step of a command does one of these.
LEMMA CommandTells ==
  ASSUME Types, CommandStep
  PROVE  Unmoved \/ Stopped \/ Local \/ Read
<1>1. exec \in Command
  BY CommandTypes
<1>2. CASE Spawn \/ StopProcess \/ JournalName
  BY <1>1, <1>2 DEF Spawn, StopProcess, JournalName, Step, Turn, Command, Unmoved
<1>3. CASE Create \/ Inspect \/ Start \/ Remove \/ ForceRemove
  BY <1>1, <1>3
  DEF Create, Inspect, Start, Remove, ForceRemove, Gone, Remember, Ask, Step, Turn, Command,
      Unmoved
<1>4. CASE Collect
  BY <1>1, <1>4 DEF Collect, Step, Turn, Command, Unmoved
<1>5. CASE Wait
  BY <1>1, <1>5 DEF Wait, Decide, Remember, Ask, Step, Turn, Command, Unmoved, Stopped
<1>6. CASE ProcessEnds
  <2>1. PICK exit, report :
          /\ exec' = [exec EXCEPT !.step = "done", !.exit = exit, !.report = report,
                                  !.status = Status(exit, report)]
          /\ ran' = Ran(exec.job, exit, report) /\ allocated' = Left(exec.job, exit)
    BY <1>6 DEF ProcessEnds, Turn
  <2>2. exec'.exit = exit /\ exec'.report = report /\ exec'.status = Status(exit, report)
    BY <1>1, <2>1 DEF Command
  <2>. QED
    BY <2>1, <2>2 DEF Local
<1>7. CASE ReadState
  BY <1>1, <1>7 DEF ReadState, Exists, Decide, Remember, Turn, Command, Unmoved, Read
<1>. QED
  BY <1>2, <1>3, <1>4, <1>5, <1>6, <1>7 DEF CommandStep

\* A container whose state is read has ended, or was never started.
LEMMA ReadBox ==
  ASSUME ExecutionIInv, Watched, exec.step = "state", exec.name \in DOMAIN containers
  PROVE  LET c == containers[exec.name]
         IN  /\ exec.name \in DOMAIN containers /\ c.job = exec.job
             /\ c.state = "exited" \/ (c.state = "created" /\ exec.job \in skipped)
<1>1. Types
  BY DEF ExecutionIInv
<1>2. /\ exec.name \in DOMAIN containers /\ containers[exec.name] \in Container
      /\ containers[exec.name].state \notin {"late", "running"}
  BY <1>1 DEF Watched, Waits, Types
<1>. QED
  BY <1>2 DEF Container, Watched, Waits

\* Every step keeps the outcome of a command true.
LEMMA OutcomeStep ==
  ExecutionIInv /\ Boxes /\ Watched /\ Outcome /\ [ExecNext]_vars => Outcome'
<1> SUFFICES ASSUME ExecutionIInv, Boxes, Watched, Outcome, [ExecNext]_vars, exec' # Idle
             PROVE  /\ exec'.status = "passed" => exec'.exit = "zero"
                    /\ Credible(exec'.job, exec'.exit, exec'.report) =>
                         exec'.job \in ran' \/ (~IsTest(exec'.job) /\ exec'.job \in skipped')
  BY DEF Outcome, Credible, IsTest, Genuine, Vouched
<1>1. Types
  BY DEF ExecutionIInv
<1>2. CASE PlanStep \/ Die
  BY <1>2, PlanLaunches DEF Fresh, Die, Credible
<1>3. ASSUME exec'.job = exec.job, Vouched(exec.job)
      PROVE  exec'.job \in ran' \/ (~IsTest(exec'.job) /\ exec'.job \in skipped')
  BY <1>3, VouchedStep DEF Vouched
<1>4. ASSUME NEW exit, NEW report, Status(exit, report) = "passed" PROVE exit = "zero"
  BY <1>4 DEF Status
<1>5. CASE CommandStep
  <2>1. exec'.job = exec.job /\ exec # Idle
    BY <1>1, <1>5, CommandTypes, SameJob, CommandsAreNotIdle
  <2>2. CASE Unmoved
    BY <1>3, <1>4, <2>1, <2>2 DEF Unmoved, Outcome
  <2>3. CASE Stopped
    BY <2>3 DEF Stopped, Credible
  <2>4. CASE Local
    <3>1. Credible(exec.job, exec'.exit, exec'.report) => exec.job \in ran'
      BY <2>4 DEF Local, Ran, Credible
    <3>. QED
      BY <1>4, <2>1, <2>4, <3>1 DEF Local
  <2>5. CASE Read
    <3> DEFINE c == containers[exec.name]
    <3>1. /\ exec.name \in DOMAIN containers /\ c.job = exec.job
          /\ c.state = "exited" \/ (c.state = "created" /\ exec.job \in skipped)
      BY <2>5, ReadBox DEF Read
    <3>2. ~Genuine(NoReport)
      BY DEF Genuine, NoReport
    <3>3. Credible(exec.job, c.exit, c.report) => Vouched(exec.job)
      BY <3>1, <3>2 DEF Boxes, Credible, Vouched
    <3>. QED
      BY <1>3, <2>1, <2>5, <3>3 DEF Read
  <2>. QED
    BY <1>1, <1>5, <2>2, <2>3, <2>4, <2>5, CommandTells
<1>6. CASE Aside
  BY <1>1, <1>3, <1>6, AsideKeeps, AsideTells DEF Outcome
<1>. QED
  BY <1>2, <1>5, <1>6, StepKinds

\* Every step keeps the results true: evaluate_gate demands of a report what makes it
\* genuine.
LEMMA CreditedStep ==
  ExecutionIInv /\ Counted /\ Outcome /\ Credited /\ [ExecNext]_vars => Credited'
<1> SUFFICES ASSUME ExecutionIInv, Counted, Outcome, Credited, [ExecNext]_vars
             PROVE  Credited'
  OBVIOUS
<1>1. Types /\ Placed /\ Ordered
  BY DEF ExecutionIInv
<1>2. CASE UNCHANGED results
  BY <1>2, VouchedStep DEF Credited, Evident, Vouched, IsTest
<1>3. ASSUME NEW status, NEW exit, NEW evidence, phase = "checks",
             Append1(status, exit, evidence),
             status = "passed" /\ exit = "zero"
               /\ (Checks[next].kind = "test" => /\ evidence.status = "passed"
                                                 /\ evidence.tests > evidence.skipped
                                                 /\ evidence.failures = 0)
               => Vouched(<<"check", next>>)
      PROVE  Credited'
  <2> DEFINE r == [check |-> next, status |-> status, exit |-> exit, evidence |-> evidence]
  <2>1. results' = Append(results, r)
    BY <1>3 DEF Append1
  <2>2. /\ r.check = next /\ r.status = status /\ r.exit = exit /\ r.evidence = evidence
    OBVIOUS
  <2>3. results \in Seq(Results) /\ next \in Nat /\ Len(results) = next - 1
    BY <1>1, <1>3 DEF Types, Ordered
  <2> HIDE DEF r
  <2>4. \A i \in DOMAIN results' : \/ i = next /\ results'[i] = r
                                   \/ i \in DOMAIN results /\ results'[i] = results[i]
    BY <2>1, <2>3
  <2>5. r.status = "passed" /\ Evident(r) => Vouched(<<"check", next>>)
    BY <1>3, <2>2 DEF Evident
  <2>. QED
    BY <2>4, <2>5, VouchedStep DEF Credited, Evident, Vouched, IsTest
<1>4. CASE CheckStep
  BY <1>2, <1>3, <1>4 DEF CheckStep, At, Launch, runner
<1>5. CASE Checked
  <2>1. exec \in Command /\ phase = "checks" /\ exec # Idle
    BY <1>1, <1>5, CommandsAreNotIdle DEF Checked, Types, Idle
  <2>2. exec.job = <<"check", next>>
    <3>1. exec.job[1] = "check" /\ exec.job[2] = next
      BY <1>1, <2>1 DEF Counted, Placed, PhaseOf
    <3>. QED
      BY <2>1, <3>1 DEF Command, Jobs
  <2> DEFINE evidence == IF Checks[next].kind = "test" THEN ReadJunit(exec.report)
                         ELSE NoEvidence
  <2>3. ASSUME Checks[next].kind = "test", evidence.status = "passed",
               evidence.tests > evidence.skipped, evidence.failures = 0
        PROVE  Genuine(exec.report)
    BY <2>3 DEF ReadJunit, Evidence, Genuine
  <2>4. Append1(exec.status, exec.exit, evidence)
    BY <1>5 DEF Checked
  <2> HIDE DEF evidence
  <2>5. IsTest(exec.job) <=> Checks[next].kind = "test"
    BY <2>2 DEF IsTest
  <2>6. exec.status = "passed" /\ exec.exit = "zero"
          /\ (Checks[next].kind = "test" => /\ evidence.status = "passed"
                                            /\ evidence.tests > evidence.skipped
                                            /\ evidence.failures = 0)
          => Vouched(<<"check", next>>)
    BY <2>1, <2>2, <2>3, <2>5 DEF Outcome, Credible
  <2>. QED
    BY <1>3, <2>1, <2>4, <2>6
<1>6. CASE PlanStep
  BY <1>2, <1>4, <1>5, <1>6
  DEF PlanStep, Begin, PrepareDocker, StartEnvironment, Prepare, Prepared, EndPrepare,
      Probe, Probed, EndProbes, Ready, EndChecks, Raised, StartCleanup, Cleanup, Cleaned,
      EndCleanup, Dispose, Disposed, EndDispose, Final, Launch, runner
<1>7. CASE CommandStep
  BY <1>1, <1>2, <1>7, SameJob DEF runner
<1>8. CASE Aside
  BY <1>1, <1>2, <1>8, AsideKeeps DEF runner
<1>9. CASE Die
  BY <1>9 DEF Die, Credited
<1>. QED
  BY <1>6, <1>7, <1>8, <1>9, StepKinds

-----------------------------------------------------------------------------
\* run_plan does not come back to an earlier part.
LEMMA EarlyBefore == Types /\ [ExecNext]_vars /\ phase' \in Early => phase \in Early
<1> SUFFICES ASSUME Types, [ExecNext]_vars, phase' \in Early PROVE phase \in Early
  OBVIOUS
<1>1. CASE PlanStep
  BY <1>1
  DEF PlanStep, Begin, PrepareDocker, StartEnvironment, Prepare, Prepared, EndPrepare, Probe,
      Probed, EndProbes, Ready, CheckStep, Checked, EndChecks, Raised, StartCleanup, Cleanup,
      Cleaned, EndCleanup, Dispose, Disposed, EndDispose, Final, At, Launch, Append1, runner,
      Either, GoTo, Abort, Early
<1>2. CASE CommandStep \/ Aside
  BY <1>2, SameJob, AsideKeeps DEF runner
<1>3. CASE Die
  BY <1>3 DEF Die, Early
<1>. QED
  BY <1>1, <1>2, <1>3, StepKinds

\* Only a preparation hook takes resources, and only those of the hooks there are.
LEMMA OnlyPrepareTakes ==
  ASSUME Types, Placed, [ExecNext]_vars
  PROVE  \/ allocated' \subseteq allocated
         \/ phase = "prepare" /\ CommandStep /\ allocated' = 1..Cleanups
<1>1. CASE PlanStep \/ Die
  BY <1>1, PlanLaunches DEF Die, world
<1>2. CASE CommandStep
  <2>1. exec # Idle
    BY <1>2, CommandTypes, CommandsAreNotIdle
  <2>2. \/ allocated' \subseteq allocated
        \/ exec.job[1] = "prepare" /\ allocated' = 1..Cleanups
    BY <1>2
    DEF CommandStep, Spawn, ProcessEnds, StopProcess, JournalName, Create, Inspect, Start,
        Wait, ReadState, Remove, ForceRemove, Collect, Taken, Left, world
  <2>. QED
    BY <1>2, <2>1, <2>2 DEF Placed, PhaseOf
<1>3. CASE Aside
  BY <1>3
  DEF Aside, DaemonStep, DaemonCreates, ContainerStep, ContainerEnds, SweepStep, Sweep, Left,
      TimePasses, Cancel, vars, world
<1>. QED
  BY <1>1, <1>2, <1>3, StepKinds

\* After the preparation, what has been released stays so.
LEMMA FreedStep ==
  ASSUME Types, Placed, [ExecNext]_vars, phase # "prepare", NEW h, Freed(h)
  PROVE  h \notin allocated' \/ <<"cleanup", h>> \in skipped'
BY OnlyPrepareTakes, Histories DEF Freed

\* The results of the cleanup hooks are changed by Cleaned only.
LEMMA SessionKeeps ==
  ASSUME Types, [ExecNext]_vars, ~Cleaned
  PROVE  session'.cleaned = session.cleaned \/ session'.cleaned = << >>
<1>1. session \in SessionT
  BY DEF Types
<1>2. ASSUME NEW s \in SessionT, NEW ok, Persist(s, ok)
      PROVE  session'.cleaned = s.cleaned
  BY <1>2 DEF Persist, SessionT
<1>3. CASE StartCleanup
  <2>1. [session EXCEPT !.complete = TRUE] \in SessionT
        /\ [session EXCEPT !.complete = TRUE].cleaned = session.cleaned
    BY <1>1 DEF SessionT
  <2>. QED
    BY <1>1, <1>2, <1>3, <2>1 DEF StartCleanup
<1>4. CASE EndCleanup
  <2> DEFINE complete == \A n \in DOMAIN session.cleaned : session.cleaned[n]
  <2>1. [session EXCEPT !.complete = complete] \in SessionT
        /\ [session EXCEPT !.complete = complete].cleaned = session.cleaned
    BY <1>1 DEF SessionT
  <2>2. \E ok : Persist([session EXCEPT !.complete = complete], ok)
    BY <1>4 DEF EndCleanup
  <2>. QED
    BY <1>2, <2>1, <2>2
<1>5. CASE PlanStep
  BY <1>1, <1>3, <1>4, <1>5
  DEF PlanStep, Begin, PrepareDocker, StartEnvironment, Prepare, Prepared, EndPrepare, Probe,
      Probed, EndProbes, Ready, CheckStep, Checked, EndChecks, Raised, Cleanup, Dispose,
      Disposed, EndDispose, Final, Launch, Append1, runner, SessionT
<1>6. CASE CommandStep \/ Aside
  BY <1>6, SameJob, AsideKeeps DEF runner
<1>7. CASE Die
  BY <1>7 DEF Die, NewSession
<1>. QED
  BY <1>5, <1>6, <1>7, StepKinds

\* What Cleaned appends.
LEMMA CleanedTells ==
  Cleaned => \E p \in BOOLEAN, ok \in BOOLEAN :
               /\ Persist([session EXCEPT !.cleaned = Append(@, p)], ok)
               /\ p => exec.status = "passed"
BY DEF Cleaned

\* The cleanup is complete only when every hook that was tried succeeded.
LEMMA Completes ==
  ASSUME Types, Placed, Cleaning, [ExecNext]_vars, ~session.complete, session'.complete
  PROVE  /\ phase' \in {"dispose", "final", "ended"}
         /\ \A h \in DOMAIN session'.cleaned : session'.cleaned[h]
<1>1. session \in SessionT
  BY DEF Types
<1>2. ASSUME NEW s \in SessionT, NEW ok, Persist(s, ok)
      PROVE  session'.cleaned = s.cleaned /\ session'.complete = s.complete
  BY <1>2 DEF Persist, SessionT
<1>3. CASE StartCleanup
  <2>1. session.cleaned = << >>
    BY <1>3 DEF StartCleanup, At, Cleaning
  <2>2. /\ [session EXCEPT !.complete = TRUE] \in SessionT
        /\ [session EXCEPT !.complete = TRUE].cleaned = session.cleaned
    BY <1>1 DEF SessionT
  <2>3. phase' = "dispose" /\ session'.cleaned = session.cleaned
    BY <1>1, <1>2, <1>3, <2>2 DEF StartCleanup, GoTo
  <2>. QED
    BY <2>1, <2>3
<1>4. CASE EndCleanup
  <2> DEFINE complete == \A n \in DOMAIN session.cleaned : session.cleaned[n]
  <2>1. /\ [session EXCEPT !.complete = complete] \in SessionT
        /\ [session EXCEPT !.complete = complete].cleaned = session.cleaned
        /\ [session EXCEPT !.complete = complete].complete = complete
    BY <1>1 DEF SessionT
  <2>2. (\E ok : Persist([session EXCEPT !.complete = complete], ok)) /\ phase' = "dispose"
    BY <1>4 DEF EndCleanup, GoTo
  <2>3. session'.cleaned = session.cleaned /\ session'.complete = complete
    BY <1>2, <2>1, <2>2
  <2>. QED
    BY <2>2, <2>3
<1>5. CASE Cleaned
  <2>1. PICK p \in BOOLEAN, ok \in BOOLEAN :
          Persist([session EXCEPT !.cleaned = Append(@, p)], ok)
    BY <1>5, CleanedTells
  <2>2. /\ [session EXCEPT !.cleaned = Append(@, p)] \in SessionT
        /\ [session EXCEPT !.cleaned = Append(@, p)].complete = session.complete
    BY <1>1 DEF SessionT
  <2>. QED
    BY <1>2, <2>1, <2>2
<1>6. CASE PlanStep
  BY <1>1, <1>3, <1>4, <1>5, <1>6
  DEF PlanStep, Begin, PrepareDocker, StartEnvironment, Prepare, Prepared, EndPrepare, Probe,
      Probed, EndProbes, Ready, CheckStep, Checked, EndChecks, Raised, Cleanup, Dispose,
      Disposed, EndDispose, Final, Launch, Append1, runner, SessionT
<1>7. CASE CommandStep \/ Aside
  BY <1>7, SameJob, AsideKeeps DEF runner
<1>8. CASE Die
  BY <1>8 DEF Die, NewSession
<1>. QED
  BY <1>6, <1>7, <1>8, StepKinds

\* After the cleanup the session is not touched.
LEMMA LatePhases ==
  ASSUME Types, Placed, [ExecNext]_vars, phase \in {"dispose", "final", "ended"},
         session'.complete
  PROVE  phase' \in {"dispose", "final", "ended"} /\ session' = session
<1>1. CASE PlanStep
  <2>1. exec.step = "raised" => phase \notin {"final", "ended"}
    BY DEF Placed, PhaseOf, Idle
  <2>. QED
    BY <1>1, <2>1
    DEF PlanStep, Begin, PrepareDocker, StartEnvironment, Prepare, Prepared, EndPrepare,
        Probe, Probed, EndProbes, Ready, CheckStep, Checked, EndChecks, Raised,
        StartCleanup, Cleanup, Cleaned, EndCleanup, Dispose, Disposed, EndDispose, Final,
        At, Launch, Append1, runner, GoTo
<1>2. CASE CommandStep \/ Aside
  BY <1>2, SameJob, AsideKeeps DEF runner
<1>3. CASE Die
  BY <1>3 DEF Die, NewSession
<1>. QED
  BY <1>1, <1>2, <1>3, StepKinds

\* Every step keeps what the cleanup hooks released.
LEMMA ReleasedStep ==
  ExecutionIInv /\ Counted /\ Watched /\ Outcome /\ Released /\ [ExecNext]_vars => Released'
<1> SUFFICES ASSUME ExecutionIInv, Counted, Watched, Outcome, Released, [ExecNext]_vars
             PROVE  Released'
  OBVIOUS
<1>1. Types /\ Placed /\ Cleaning
  BY DEF ExecutionIInv
<1>2. allocated' \subseteq 1..Cleanups
  BY <1>1, OnlyPrepareTakes DEF Released
<1>3. ASSUME NEW n \in DOMAIN containers'
      PROVE  \/ Stays(n) \/ Comes(n) \/ Ends(n) \/ Starts(n) \/ Created(n)
  <2>1. CASE PlanStep \/ Die
    BY <2>1, PlanLaunches DEF Die, world, Stays, Same
  <2>. QED
    BY <1>1, <2>1, StepKinds, CommandBoxes, AsideBoxes
<1>4. phase' \in Early => \A n \in DOMAIN containers' : containers'[n].job[1] # "cleanup"
  <2> SUFFICES ASSUME phase' \in Early, NEW n \in DOMAIN containers'
               PROVE  containers'[n].job[1] # "cleanup"
    OBVIOUS
  <2>1. phase \in Early
    BY <1>1, EarlyBefore
  <2>2. CASE Created(n)
    <3>1. exec # Idle /\ containers'[n].job = exec.job
      BY <2>2 DEF Created, Idle
    <3>. QED
      BY <1>1, <2>1, <3>1 DEF Placed, PhaseOf, Early
  <2>3. CASE Stays(n) \/ Comes(n) \/ Ends(n) \/ Starts(n)
    BY <2>1, <2>3 DEF Stays, Comes, Ends, Starts, Same, Released
  <2>. QED
    BY <1>3, <2>2, <2>3
<1>5. \A n \in DOMAIN containers' :
        containers'[n].state = "exited" /\ containers'[n].exit = "zero"
          /\ containers'[n].job[1] = "cleanup" => containers'[n].job[2] \notin allocated'
  <2> SUFFICES ASSUME NEW n \in DOMAIN containers', containers'[n].state = "exited",
                      containers'[n].exit = "zero", containers'[n].job[1] = "cleanup"
               PROVE  containers'[n].job[2] \notin allocated'
    OBVIOUS
  <2>1. CASE Stays(n)
    <3>1. /\ containers[n].job[1] = "cleanup" /\ n \in DOMAIN containers
          /\ containers'[n].job[2] = containers[n].job[2]
          /\ containers[n].job[2] \notin allocated
      BY <2>1 DEF Stays, Same, Released
    <3>2. phase # "prepare"
      BY <3>1 DEF Released, Early
    <3>. QED
      BY <1>1, <3>1, <3>2, OnlyPrepareTakes
  <2>2. CASE Ends(n)
    BY <2>2 DEF Ends, Left
  <2>. QED
    BY <1>3, <2>1, <2>2 DEF Comes, Starts, Created
<1>6. ASSUME exec' # Idle, exec'.job[1] = "cleanup", exec'.exit = "zero"
      PROVE  \/ exec'.job[2] \notin allocated'
             \/ <<"cleanup", exec'.job[2]>> \in skipped'
  <2>1. ASSUME exec # Idle, exec'.job = exec.job, Freed(exec.job[2])
        PROVE  \/ exec'.job[2] \notin allocated'
               \/ <<"cleanup", exec'.job[2]>> \in skipped'
    <3>1. phase # "prepare"
      BY <1>1, <1>6, <2>1 DEF Placed, PhaseOf
    <3>. QED
      BY <1>1, <2>1, <3>1, FreedStep
  <2>2. CASE PlanStep \/ Die
    BY <1>6, <2>2, PlanLaunches DEF Fresh, Die
  <2>3. CASE CommandStep
    <3>1. exec'.job = exec.job /\ exec # Idle /\ exec \in Command
      BY <1>1, <2>3, CommandTypes, SameJob, CommandsAreNotIdle
    <3>2. CASE Unmoved
      BY <1>6, <2>1, <3>1, <3>2 DEF Unmoved, Released
    <3>3. CASE Stopped
      BY <1>6, <3>3 DEF Stopped
    <3>4. CASE Local
      BY <1>6, <3>1, <3>4 DEF Local, Left
    <3>5. CASE Read
      <4> DEFINE c == containers[exec.name]
      <4>1. /\ exec.name \in DOMAIN containers /\ c.job = exec.job
            /\ c.state = "exited" \/ (c.state = "created" /\ exec.job \in skipped)
        BY <3>5, ReadBox DEF Read
      <4>2. c.exit = "zero"
        BY <1>6, <3>5 DEF Read
      <4>3. exec.job[1] = "cleanup" /\ exec.job = <<"cleanup", exec.job[2]>>
        BY <1>6, <3>1 DEF Command, Jobs
      <4>4. Freed(exec.job[2])
        BY <4>1, <4>2, <4>3 DEF Released, Freed
      <4>. QED
        BY <2>1, <3>1, <4>4
    <3>. QED
      BY <1>1, <2>3, <3>2, <3>3, <3>4, <3>5, CommandTells
  <2>4. CASE Aside
    BY <1>1, <1>6, <2>1, <2>4, AsideKeeps, AsideTells DEF Released
  <2>. QED
    BY <2>2, <2>3, <2>4, StepKinds
<1>7. \A h \in DOMAIN session'.cleaned :
        session'.cleaned[h] => h \notin allocated' \/ <<"cleanup", h>> \in skipped'
  <2>1. CASE session'.cleaned = session.cleaned
    <3>1. session.cleaned # << >> => phase # "prepare"
      BY <1>1 DEF Cleaning, Early
    <3>. QED
      BY <1>1, <2>1, <3>1, FreedStep DEF Released
  <2>2. CASE session'.cleaned = << >>
    BY <2>2
  <2>3. CASE Cleaned
    <3>1. phase = "cleanup" /\ exec # Idle
      BY <2>3 DEF Cleaned, Idle
    <3>2. session \in SessionT /\ exec \in Command
      BY <1>1, <3>1 DEF Types
    <3>10. PICK p \in BOOLEAN, ok \in BOOLEAN :
            /\ Persist([session EXCEPT !.cleaned = Append(@, p)], ok)
            /\ p => exec.status = "passed"
      BY <2>3, CleanedTells
    <3>3. session'.cleaned = Append(session.cleaned, p)
      BY <3>2, <3>10 DEF Persist, SessionT
    <3>4. next \in 1..Cleanups /\ Len(session.cleaned) = next - 1
      BY <1>1, <3>1 DEF Cleaning
    <3>5. exec.job[1] = "cleanup" /\ exec.job[2] = next
      BY <1>1, <3>1 DEF Counted, Placed, PhaseOf
    <3>6. p => Freed(next)
      BY <3>1, <3>10, <3>5 DEF Outcome, Released
    <3>7. session.cleaned \in Seq(BOOLEAN) /\ next \in Nat /\ next >= 1
      BY <1>1, <3>2, <3>4 DEF SessionT, Types
    <3>8. \A h \in DOMAIN session'.cleaned :
            \/ h = next /\ session'.cleaned[h] = p
            \/ h \in DOMAIN session.cleaned /\ session'.cleaned[h] = session.cleaned[h]
      BY <3>3, <3>4, <3>7
    <3>9. \A h \in DOMAIN session'.cleaned : session'.cleaned[h] => Freed(h)
      BY <3>6, <3>8 DEF Released
    <3>. QED
      BY <1>1, <3>1, <3>9, FreedStep
  <2>4. CASE ~Cleaned
    BY <1>1, <2>1, <2>2, <2>4, SessionKeeps
  <2>. QED
    BY <2>3, <2>4
<1>8. session'.complete => /\ phase' \in {"dispose", "final", "ended"}
                           /\ \A h \in DOMAIN session'.cleaned : session'.cleaned[h]
  <2>1. CASE session'.complete /\ ~session.complete
    BY <1>1, <2>1, Completes
  <2>2. CASE session'.complete /\ session.complete
    <3>1. phase \in {"dispose", "final", "ended"}
      BY <2>2 DEF Released
    <3>2. phase' \in {"dispose", "final", "ended"} /\ session' = session
      BY <1>1, <2>2, <3>1, LatePhases
    <3>. QED
      BY <2>2, <3>2 DEF Released
  <2>. QED
    BY <2>1, <2>2
<1>. QED
  BY <1>2, <1>4, <1>5, <1>6, <1>7, <1>8 DEF Released, Freed

-----------------------------------------------------------------------------
\* The Docker session when a resource is gone.
LEMMA Clearing ==
  ASSUME Types, exec \in Command, exec.name # 0
  PROVE  LET d == [docker EXCEPT !.resources[exec.name] = TRUE]
         IN  /\ d \in DockerT /\ d.failed = docker.failed
             /\ \A n \in DOMAIN docker.resources \ {exec.name} :
                  d.resources[n] = docker.resources[n]
<1> DEFINE resources == [docker.resources EXCEPT ![exec.name] = TRUE]
<1>1. docker \in DockerT
  BY DEF Types
<1>2. docker.resources \in Seq(BOOLEAN) /\ exec.name \in 1..Len(docker.resources)
  BY <1>1, CommandsAreNotIdle DEF DockerT, Types, Command
<1>3. resources \in Seq(BOOLEAN) /\ Len(resources) = Len(docker.resources)
  BY <1>2, ExceptSeq
<1>4. \A n \in DOMAIN docker.resources \ {exec.name} : resources[n] = docker.resources[n]
  BY <1>2
<1> HIDE DEF resources
<1>5. [docker EXCEPT !.resources[exec.name] = TRUE] = [docker EXCEPT !.resources = resources]
  BY <1>1 DEF DockerT, resources
<1>. QED
  BY <1>1, <1>3, <1>4, <1>5 DEF DockerT
\* And with a new one.
LEMMA Adding ==
  ASSUME Types
  PROVE  LET d == [docker EXCEPT !.resources = Append(@, FALSE)]
         IN  /\ d \in DockerT /\ d.failed = docker.failed
             /\ d.resources = Append(docker.resources, FALSE)
<1> DEFINE resources == Append(docker.resources, FALSE)
<1>1. docker \in DockerT
  BY DEF Types
<1>2. resources \in Seq(BOOLEAN)
  BY <1>1 DEF DockerT
<1>3. [docker EXCEPT !.resources = Append(@, FALSE)] = [docker EXCEPT !.resources = resources]
  OBVIOUS
<1> HIDE DEF resources
<1>. QED
  BY <1>1, <1>2, <1>3 DEF DockerT

\* A failure of Docker is remembered until the process dies.
LEMMA FailureStays ==
  ASSUME Types, [ExecNext]_vars, phase' # "dead", docker.failed
  PROVE  docker'.failed
<1>1. docker \in DockerT
  BY DEF Types
<1>2. CASE PlanStep
  BY <1>1, <1>2
  DEF PlanStep, Begin, PrepareDocker, StartEnvironment, Prepare, Prepared, EndPrepare, Probe,
      Probed, EndProbes, Ready, CheckStep, Checked, EndChecks, Raised, StartCleanup, Cleanup,
      Cleaned, EndCleanup, Dispose, Disposed, EndDispose, Final, Launch, Append1, DockerT
<1>3. CASE CommandStep
  <2>1. ASSUME NEW d \in DockerT, NEW cost, NEW step, Remember(d, cost, step)
        PROVE  docker'.failed
    BY <2>1 DEF Remember, DockerT
  <2>2. ASSUME NEW step, Gone(step), exec.name # 0 PROVE docker'.failed
    <3> DEFINE d == [docker EXCEPT !.resources[exec.name] = TRUE]
    <3>1. d.failed = docker.failed /\ d \in DockerT
      BY <1>1, <1>3, <2>2, CommandTypes, Clearing
    <3> HIDE DEF d
    <3>2. docker' = d \/ Remember(d, 1, step)
      BY <2>2 DEF Gone, d
    <3>. QED
      BY <2>1, <3>1, <3>2
  <2>3. CASE JournalName
    BY <1>1, <2>3 DEF JournalName, DockerT
  <2>4. CASE Collect
    BY <1>1, <2>4 DEF Collect, DockerT
  <2>5. CASE Remove \/ ForceRemove
    <3>1. exec.name # 0
      BY <2>5 DEF Remove, ForceRemove, Types, DockerSteps
    <3>. QED
      BY <1>1, <2>1, <2>2, <2>5, <3>1 DEF Remove, ForceRemove
  <2>. QED
    BY <1>1, <1>3, <2>1, <2>3, <2>4, <2>5
    DEF CommandStep, Spawn, ProcessEnds, StopProcess, Create, Inspect, Start, Wait, ReadState
<1>4. CASE Aside
  BY <1>4, AsideKeeps
<1>5. CASE Die
  BY <1>5 DEF Die
<1>. QED
  BY <1>2, <1>3, <1>4, <1>5, StepKinds

\* What a command makes of the resources: a new one, or its own is gone.
Unclaimed == docker'.resources = docker.resources
Claims    == /\ exec.step = "journal" /\ docker'.resources = Append(docker.resources, FALSE)
             /\ UNCHANGED containers
             /\ exec'.step = "create" => exec'.name = Len(docker.resources) + 1
Clears    ==
  /\ exec.name # 0 /\ exec.step \in {"remove", "rm"} /\ exec'.step # "create"
  /\ \A n \in DOMAIN docker.resources \ {exec.name} :
       docker'.resources[n] = docker.resources[n]
  /\ \/ docker'.failed
     \/ UNCHANGED containers /\ ~Exists(exec.name)
     \/ exec.name \notin DOMAIN containers'
\* Every step of a command does one of these, and only a claim leads to "create".
LEMMA CommandClaims ==
  ASSUME Types, CommandStep
  PROVE  (Unclaimed /\ exec'.step # "create") \/ Claims \/ Clears
<1>1. exec \in Command /\ docker \in DockerT
  BY CommandTypes DEF Types
<1>2. ASSUME NEW cost \in {0, 1}, NEW step \in Steps, step # "create",
             Remember(docker, cost, step)
      PROVE  Unclaimed /\ exec'.step # "create"
  BY <1>1, <1>2, RememberTypes DEF Unclaimed
<1>3. ASSUME NEW step \in Steps, step # "create",
             Step(step) \/ \E limit \in Nat : Ask(step, limit)
      PROVE  exec'.step # "create"
  BY <1>1, <1>3 DEF Ask, Step, Turn, Command
<1>4. CASE JournalName
  <2>1. CASE UNCHANGED docker /\ exec' = [exec EXCEPT !.step = "done", !.status = "cancelled"]
    BY <1>1, <2>1 DEF Unclaimed, Command
  <2> DEFINE d == [docker EXCEPT !.resources = Append(@, FALSE)]
  <2>2. d.resources = Append(docker.resources, FALSE) /\ d \in DockerT
    BY Adding
  <2>3. ~(UNCHANGED docker /\ exec' = [exec EXCEPT !.step = "done", !.status = "cancelled"])
          => /\ docker' = d \/ docker' = [d EXCEPT !.failed = TRUE]
             /\ exec.step = "journal" /\ UNCHANGED containers
    BY <1>4 DEF JournalName, world, Turn
  <2>4. exec'.step = "create" => exec'.name = Len(docker.resources) + 1
    BY <1>1, <1>4 DEF JournalName, Turn, Command
  <2> HIDE DEF d
  <2>5. [d EXCEPT !.failed = TRUE].resources = d.resources
    BY <2>2 DEF DockerT
  <2>. QED
    BY <2>1, <2>2, <2>3, <2>4, <2>5 DEF Claims
<1>5. ASSUME NEW step \in Steps, step # "create", Gone(step), exec.name # 0
      PROVE  /\ \A n \in DOMAIN docker.resources \ {exec.name} :
                  docker'.resources[n] = docker.resources[n]
             /\ exec'.step # "create"
  <2> DEFINE d == [docker EXCEPT !.resources[exec.name] = TRUE]
  <2>1. /\ d \in DockerT
        /\ \A n \in DOMAIN docker.resources \ {exec.name} :
             d.resources[n] = docker.resources[n]
    BY <1>1, <1>5, Clearing
  <2> HIDE DEF d
  <2>2. (docker' = d /\ Step(step)) \/ Remember(d, 1, step)
    BY <1>5 DEF Gone, d
  <2>. QED
    BY <1>1, <1>3, <1>5, <2>1, <2>2, RememberTypes
<1>6. CASE Remove \/ ForceRemove
  <2>1. exec.name # 0 /\ exec.step \in {"remove", "rm"}
    BY <1>6 DEF Remove, ForceRemove, Types, DockerSteps
  <2>2. CASE Gone("collect") /\ UNCHANGED containers /\ ~Exists(exec.name)
    BY <1>5, <2>1, <2>2 DEF Clears, Steps
  <2>3. CASE Gone("collect") /\ containers' = Without(exec.name)
    <3>1. exec.name \notin DOMAIN containers'
      BY <2>3 DEF Without
    <3>. QED
      BY <1>5, <2>1, <2>3, <3>1 DEF Clears, Steps
  <2>4. CASE Remember(docker, 1, "collect")
    BY <1>2, <2>4 DEF Steps
  <2>5. CASE Step("rm") /\ UNCHANGED docker
    BY <1>3, <2>5 DEF Unclaimed, Steps
  <2>. QED
    BY <1>6, <2>2, <2>3, <2>4, <2>5 DEF Remove, ForceRemove, world
<1>7. CASE Create
  BY <1>2, <1>3, <1>7, ExecutionAssumption DEF Create, Unclaimed, Steps
<1>8. CASE Inspect \/ Start \/ Wait \/ ReadState
  <2>1. ASSUME NEW status, NEW exit, NEW report, Decide(status, exit, report)
        PROVE  exec'.step # "create"
    BY <1>1, <2>1 DEF Decide, Turn, Command
  <2>. QED
    BY <1>2, <1>3, <1>8, <2>1, ExecutionAssumption
    DEF Inspect, Start, Wait, ReadState, Unclaimed, Steps
<1>9. CASE Spawn \/ ProcessEnds \/ StopProcess \/ Collect
  BY <1>1, <1>9
  DEF Spawn, ProcessEnds, StopProcess, Collect, Step, Turn, Command, Unclaimed, DockerT
<1>. QED
  BY <1>4, <1>6, <1>7, <1>8, <1>9 DEF CommandStep

\* Without isolation nothing is asked of Docker.
LEMMA LocalStep ==
  ASSUME Types, Placed, Contained, [ExecNext]_vars, ~plan'.isolated
  PROVE  /\ DOMAIN containers' = {}
         /\ docker'.resources = << >>
         /\ exec'.step \notin DockerSteps \cup {"journal"}
<1>1. ~plan.isolated
  BY PlanLaunches, SameJob, AsideKeeps, StepKinds DEF Die
<1>2. /\ DOMAIN containers = {} /\ docker.resources = << >>
      /\ exec.step \notin DockerSteps \cup {"journal"}
  BY <1>1 DEF Contained
<1>3. CASE PlanStep
  <2>1. Remaining = {}
    BY <1>2 DEF Remaining
  <2>2. UNCHANGED containers /\ docker'.resources = docker.resources
    BY <1>3, PlanLaunches, PlanKeeps DEF world
  <2>3. exec'.step \in {"idle", "spawn"}
    <3>1. exec' = Idle \/ \E stage : Launch(stage)
      BY <1>3, <2>1
      DEF PlanStep, Begin, PrepareDocker, StartEnvironment, Prepare, Prepared, EndPrepare,
          Probe, Probed, EndProbes, Ready, CheckStep, Checked, EndChecks, Raised,
          StartCleanup, Cleanup, Cleaned, EndCleanup, Dispose, Disposed, EndDispose, Final, At
    <3>. QED
      BY <1>1, <3>1 DEF Launch, Fresh, Idle
  <2>. QED
    BY <1>2, <2>2, <2>3 DEF DockerSteps
<1>4. CASE CommandStep
  <2>1. exec \in Command
    BY <1>4, CommandTypes
  <2>2. /\ UNCHANGED <<docker, containers>>
        /\ exec'.step \in {"process", "done", "raised"}
    BY <1>2, <1>4, <2>1
    DEF CommandStep, Spawn, ProcessEnds, StopProcess, JournalName, Create, Inspect, Start,
        Wait, ReadState, Remove, ForceRemove, Collect, DockerSteps, Ask, Step, Turn, Command,
        world
  <2>. QED
    BY <1>2, <2>2 DEF DockerSteps
<1>5. CASE Aside
  <2>1. DOMAIN containers' = {}
    BY <1>2, <1>5
    DEF Aside, DaemonStep, ContainerStep, SweepStep, TimePasses, Cancel, vars, world
  <2>. QED
    BY <1>2, <1>5, <2>1, AsideKeeps
<1>6. CASE Die
  BY <1>2, <1>6 DEF Die, world, Idle, DockerSteps, NewDocker
<1>. QED
  BY <1>3, <1>4, <1>5, <1>6, StepKinds

\* Every step keeps the account of the containers.
LEMMA ContainedStep ==
  ExecutionIInv /\ Contained /\ [ExecNext]_vars => Contained'
<1> SUFFICES ASSUME ExecutionIInv, Contained, [ExecNext]_vars PROVE Contained'
  OBVIOUS
<1>1. Types /\ Placed /\ Recorded /\ docker \in DockerT
  BY DEF ExecutionIInv, Types
<1>2. phase # "dead" => \A n \in DOMAIN containers : n \in DOMAIN docker.resources
  BY <1>1 DEF Recorded, DockerT
<1>3. ASSUME phase' # "dead", NEW n \in DOMAIN containers',
             docker'.resources[n] \/ containers'[n].state = "late"
      PROVE  docker'.failed
  <2>1. docker.failed => docker'.failed
    BY <1>1, <1>3, FailureStays
  <2>2. CASE PlanStep
    <3>1. docker'.resources = docker.resources /\ containers' = containers /\ phase # "dead"
      BY <1>1, <2>2, PlanKeeps, PlanLaunches DEF world
    <3>. QED
      BY <1>3, <2>1, <3>1 DEF Contained
  <2>3. CASE CommandStep
    <3>1. phase # "dead"
      BY <1>1, <1>3, <2>3, SameJob DEF runner
    <3>2. CASE Created(n)
      <4>1. ~docker.resources[n] /\ docker'.resources = docker.resources
        BY <2>3, <3>2, <1>1, CommandClaims DEF Created, Contained, Claims, Clears, Unclaimed
      <4>. QED
        BY <1>3, <3>2, <4>1 DEF Created
    <3>3. CASE Stays(n) \/ Starts(n)
      <4>1. /\ n \in DOMAIN containers
            /\ containers'[n].state = "late" => containers[n].state = "late"
        BY <3>3 DEF Stays, Starts, Same
      <4>2. docker'.resources[n] => docker.resources[n] \/ docker'.failed
                                     \/ containers[n].state = "late"
        <5>1. CASE Unclaimed
          BY <5>1 DEF Unclaimed
        <5>2. CASE Claims
          BY <1>1, <1>2, <3>1, <4>1, <5>2 DEF Claims, DockerT
        <5>3. CASE Clears
          BY <1>2, <1>3, <3>1, <4>1, <5>3 DEF Clears, Exists
        <5>. QED
          BY <1>1, <2>3, <5>1, <5>2, <5>3, CommandClaims
      <4>. QED
        BY <1>3, <2>1, <3>1, <4>1, <4>2 DEF Contained
    <3>. QED
      BY <1>1, <2>3, <3>2, <3>3, CommandBoxes
  <2>4. CASE Aside
    <3>1. /\ phase # "dead" /\ docker' = docker /\ n \in DOMAIN containers
          /\ containers'[n].state = "late" => containers[n].state = "late"
      BY <1>1, <1>3, <2>4, AsideKeeps, AsideBoxes DEF Stays, Comes, Ends, Same, runner
    <3>. QED
      BY <1>3, <3>1 DEF Contained
  <2>5. CASE Die
    BY <1>3, <2>5 DEF Die
  <2>. QED
    BY <2>2, <2>3, <2>4, <2>5, StepKinds
<1>4. exec'.step = "create" => ~docker'.resources[exec'.name]
  <2>1. CASE PlanStep
    BY <1>1, <2>1, PlanKeeps
  <2>2. CASE CommandStep
    <3>1. exec'.step = "create" => Claims
      BY <1>1, <2>2, CommandClaims DEF Clears
    <3>2. docker.resources \in Seq(BOOLEAN)
      BY <1>1 DEF DockerT
    <3>3. ASSUME NEW s \in Seq(BOOLEAN) PROVE Append(s, FALSE)[Len(s) + 1] = FALSE
      OBVIOUS
    <3>. QED
      BY <3>1, <3>2, <3>3 DEF Claims
  <2>3. CASE Aside
    BY <1>1, <2>3, AsideKeeps DEF Contained
  <2>4. CASE Die
    BY <2>4 DEF Die, Idle
  <2>. QED
    BY <2>1, <2>2, <2>3, <2>4, StepKinds
<1>. QED
  BY <1>1, <1>3, <1>4, LocalStep DEF Contained

-----------------------------------------------------------------------------
(***************************************************************************)
(* The verdict.                                                            *)
(***************************************************************************)
\* What "passed" says, and when run.json may say it.
Proved ==
  /\ Len(results) = Len(Checks)
  /\ \A c \in DOMAIN Checks : Checks[c].required =>
       \/ <<"check", c>> \in ran
       \/ Checks[c].kind = "command" /\ <<"check", c>> \in skipped
  /\ \A h \in allocated : <<"cleanup", h>> \in skipped
  /\ DOMAIN containers = {}
Verdict == disk.passed => phase = "ended" /\ Proved
GateIInv ==
  Counted /\ Boxes /\ Outcome /\ Credited /\ Watched /\ Released /\ Contained /\ Verdict

\* A gate that passes when everything has ended has proved what it says.
LEMMA GateProves ==
  ASSUME ExecutionIInv, Credited, Released, Contained, phase = "final",
         PassesRunning("completed")
  PROVE  Proved
<1>1. Types /\ Cleaning /\ Ordered /\ Recorded
  BY DEF ExecutionIInv
<1>2. /\ results \in Seq(Results)
      /\ Checks \in Seq([kind : {"test", "command"}, required : BOOLEAN])
  BY <1>1, ExecutionAssumption DEF Types
<1>3. Gate(results)
  BY DEF PassesRunning
<1>4. \A c \in DOMAIN Checks : c \in DOMAIN results
  BY <1>1, <1>3 DEF Gate, Ordered
<1>5. Len(results) = Len(Checks)
  <2>1. \A i \in DOMAIN results : i \in DOMAIN Checks
    BY <1>1, <1>3 DEF Gate, Ordered
  <2>2. 1..Len(results) = 1..Len(Checks) /\ Len(results) \in Nat /\ Len(Checks) \in Nat
    BY <1>2, <1>4, <2>1
  <2>. QED
    BY <2>2
<1>6. ASSUME NEW c \in DOMAIN Checks, Checks[c].required
      PROVE  \/ <<"check", c>> \in ran
             \/ Checks[c].kind = "command" /\ <<"check", c>> \in skipped
  <2>1. c \in DOMAIN results /\ results[c].check = c
    BY <1>1, <1>4, <1>6 DEF Ordered
  <2>2. results[c].status = "passed" /\ Evident(results[c])
    BY <1>3, <1>6, <2>1 DEF Gate
  <2>3. Vouched(<<"check", c>>)
    BY <2>1, <2>2 DEF Credited
  <2>4. Checks[c].kind \in {"test", "command"}
    <3>1. Checks[c] \in [kind : {"test", "command"}, required : BOOLEAN]
      BY <1>2, c \in 1..Len(Checks), ElementOfSeq
    <3>. QED
      BY <3>1
  <2>. QED
    BY <2>3, <2>4 DEF Vouched, IsTest
<1>7. ASSUME NEW h \in allocated PROVE <<"cleanup", h>> \in skipped
  <2>1. session.started /\ plan.environment
    BY <1>1, <1>7 DEF Recorded, Cleaning
  <2>2. session.complete /\ Len(session.cleaned) = Cleanups
    BY <1>1, <2>1 DEF PassesRunning, Cleaning
  <2>3. session.cleaned \in Seq(BOOLEAN) /\ h \in 1..Cleanups
    BY <1>1, <1>7 DEF Types, SessionT, Released
  <2>4. h \in DOMAIN session.cleaned
    BY <2>2, <2>3
  <2>. QED
    BY <1>7, <2>2, <2>4 DEF Released, Freed
<1>8. DOMAIN containers = {}
  <2>1. CASE plan.isolated
    <3>1. \A n \in DOMAIN docker.resources : docker.resources[n]
      BY <2>1 DEF PassesRunning, AllRemoved
    <3>2. DOMAIN containers \subseteq DOMAIN docker.resources
      BY <1>1 DEF Recorded, Types, DockerT
    <3>. QED
      BY <2>1, <3>1, <3>2 DEF PassesRunning, Contained
  <2>2. CASE ~plan.isolated
    BY <2>2 DEF Contained
  <2>. QED
    BY <2>1, <2>2
<1>. QED
  BY <1>5, <1>6, <1>7, <1>8 DEF Proved

\* A run that has ended is left alone.
LEMMA EndedStays ==
  ASSUME ExecutionIInv, [ExecNext]_vars, phase = "ended"
  PROVE  Aside
<1>1. exec = Idle /\ exec.step = "idle"
  BY DEF ExecutionIInv, Placed, PhaseOf, Idle
<1>2. ~PlanStep
  BY <1>1
  DEF PlanStep, Begin, PrepareDocker, StartEnvironment, Prepare, Prepared, EndPrepare, Probe,
      Probed, EndProbes, Ready, CheckStep, Checked, EndChecks, Raised, StartCleanup, Cleanup,
      Cleaned, EndCleanup, Dispose, Disposed, EndDispose, Final, At
<1>3. ~CommandStep
  BY <1>1 DEF CommandStep, Spawn, ProcessEnds, StopProcess, JournalName, Create, Inspect,
              Start, Wait, ReadState, Remove, ForceRemove, Collect
<1>4. ~Die
  BY DEF Die, Ended
<1>. QED
  BY <1>2, <1>3, <1>4, StepKinds

\* Only the last checkpoint of run_plan can say that the gate passed.
LEMMA OnlyFinalPasses ==
  ASSUME Types, [ExecNext]_vars, disk'.passed
  PROVE  \/ disk.passed
         \/ /\ phase = "final" /\ phase' = "ended" /\ PassesRunning("completed")
            /\ UNCHANGED <<plan, results, session, docker, world>>
<1>1. disk \in DiskT
  BY DEF Types
<1>2. ASSUME NEW ok \in BOOLEAN, Changed(ok) PROVE disk.passed
  BY <1>2 DEF Changed, Checkpoint, Passes
<1>3. CASE Final /\ PlanStep
  <2>1. PICK ok \in BOOLEAN : Checkpoint(ok, IF cancel THEN "cancelled" ELSE "completed")
    BY <1>3 DEF Final
  <2>2. /\ phase = "final" /\ phase' = "ended" /\ error' = error
        /\ UNCHANGED <<plan, cancel, results, session, docker, world>>
    BY <1>3 DEF Final, At, GoTo, PlanStep
  <2>3. ok => PassesRunning("completed")'
    BY <2>1 DEF Checkpoint, Passes, PassesRunning
  <2>4. ~ok => disk.passed
    BY <2>1 DEF Checkpoint
  <2>5. PassesRunning("completed")' => PassesRunning("completed")
    BY <2>2 DEF PassesRunning, Gate, AllRemoved, Evident
  <2>. QED
    BY <2>2, <2>3, <2>4, <2>5
<1>4. CASE PlanStep /\ ~Final
  <2>1. UNCHANGED disk \/ \E ok \in BOOLEAN : Changed(ok)
    BY <1>4
    DEF PlanStep, Begin, PrepareDocker, StartEnvironment, Prepare, Prepared, EndPrepare,
        Probe, Probed, EndProbes, Ready, CheckStep, Checked, EndChecks, Raised,
        StartCleanup, Cleanup, Cleaned, EndCleanup, Dispose, Disposed, EndDispose, Launch,
        Append1, Persist
  <2>. QED
    BY <1>2, <2>1
<1>5. CASE CommandStep
  <2>1. UNCHANGED disk \/ \E ok \in BOOLEAN : Journal(ok)
    BY <1>5 DEF CommandStep, Spawn, ProcessEnds, StopProcess, JournalName, Create, Inspect,
                Start, Wait, ReadState, Remove, ForceRemove, Collect, Remember, Gone
  <2>. QED
    BY <1>1, <2>1 DEF Journal, DiskT
<1>6. CASE Aside \/ Die
  BY <1>6, AsideKeeps DEF Die
<1>. QED
  BY <1>3, <1>4, <1>5, <1>6, StepKinds

\* Every step keeps the verdict true.
LEMMA VerdictStep ==
  ExecutionIInv /\ GateIInv /\ [ExecNext]_vars => Verdict'
<1> SUFFICES ASSUME ExecutionIInv, GateIInv, [ExecNext]_vars, disk'.passed
             PROVE  phase' = "ended" /\ Proved'
  BY DEF Verdict
<1>1. Types /\ Placed
  BY DEF ExecutionIInv
<1>2. CASE disk.passed
  <2>1. Aside /\ phase = "ended" /\ Proved
    BY <1>2, EndedStays DEF GateIInv, Verdict
  <2>2. phase' = phase /\ results' = results
    BY <1>1, <2>1, AsideKeeps DEF runner
  <2>3. ran \subseteq ran' /\ skipped \subseteq skipped' /\ allocated' \subseteq allocated
    BY <1>1, <2>1, Histories, OnlyPrepareTakes
  <2>4. DOMAIN containers' = {}
    BY <1>1, <2>1, AsideBoxes DEF Proved, Stays, Comes, Ends, Same
  <2>. QED
    BY <2>1, <2>2, <2>3, <2>4 DEF Proved
<1>3. CASE ~disk.passed
  <2>1. /\ phase = "final" /\ phase' = "ended" /\ PassesRunning("completed")
        /\ UNCHANGED <<plan, results, session, docker, world>>
    BY <1>1, <1>3, OnlyFinalPasses
  <2>2. Proved
    BY <2>1, GateProves DEF GateIInv
  <2>. QED
    BY <2>1, <2>2 DEF Proved, world
<1>. QED
  BY <1>2, <1>3

-----------------------------------------------------------------------------
(***************************************************************************)
(* The inductive invariant and the theorem.                                *)
(***************************************************************************)
\* It holds when run_plan starts.
LEMMA GateIInvInit == ExecInit => GateIInv
<1> SUFFICES ASSUME ExecInit PROVE GateIInv
  OBVIOUS
<1>1. exec = Idle /\ exec.step = "idle" /\ DOMAIN containers = {} /\ results = << >>
  BY DEF ExecInit, Idle
<1>2. session.cleaned = << >> /\ ~session.complete /\ docker.resources = << >> /\ ~disk.passed
  BY DEF ExecInit, NewSession, NewDocker
<1>3. allocated = {}
  BY DEF ExecInit
<1>. QED
  BY <1>1, <1>2, <1>3
  DEF GateIInv, Counted, Boxes, Outcome, Credited, Watched, Waits, Released, Contained,
      DockerSteps, Verdict

\* It is inductive, with ExecutionIInv.
LEMMA GateIInvStep == ExecutionIInv /\ GateIInv /\ [ExecNext]_vars => GateIInv'
<1> SUFFICES ASSUME ExecutionIInv, GateIInv, [ExecNext]_vars PROVE GateIInv'
  OBVIOUS
<1>1. Types
  BY DEF ExecutionIInv
<1>2. Counted' /\ Boxes' /\ Outcome' /\ Credited'
  BY <1>1, CountedStep, BoxesStep, OutcomeStep, CreditedStep DEF GateIInv
<1>3. Watched' /\ Released' /\ Contained' /\ Verdict'
  BY WatchedStep, ReleasedStep, ContainedStep, VerdictStep DEF GateIInv
<1>. QED
  BY <1>2, <1>3 DEF GateIInv

\* The gate fails closed (PassedWasProved): whatever fails, is cancelled or dies on the
\* way, run.json says "passed" only when every planned check has a result, every required
\* one ended well with its evidence, the hooks released what the preparation took and no
\* container is left.  What was skipped is the exception that RequiredChecksRan is about.
THEOREM GateFailsClosed == ExecSpec => []PassedWasProved
<1>1. GateIInv => PassedWasProved
  BY DEF GateIInv, Verdict, Proved, PassedWasProved
<1>. QED
  BY <1>1, ExecutionInvariant, GateIInvInit, GateIInvStep, PTL DEF ExecSpec

=============================================================================
