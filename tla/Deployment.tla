----------------------------- MODULE Deployment -----------------------------
(***************************************************************************)
(* katydid.deployment: releases of one application on one host.  The       *)
(* commands deploy, health, rollback, stop and recover are processes of    *)
(* their own that share a registry file under a file lock, so one of them  *)
(* acts at a time; a command is modelled from the moment it has the lock.  *)
(* It starts a detached supervisor, which starts the application; both     *)
(* outlive the command.  Every step of a command is one it can be killed   *)
(* after, by a timeout of its caller or a reboot.                          *)
(*                                                                         *)
(* A launch is one call of _start.  Its number stands for the registry     *)
(* entry: the commit, the digest of the spec, the boot and the identities  *)
(* of its two processes.  The number of a launch that has ended and that   *)
(* nothing names is used again.                                            *)
(*                                                                         *)
(* Left out: what an artifact contains, log rotation, and the control      *)
(* socket: a supervisor that gets the token ends its child in that step.   *)
(***************************************************************************)
EXTENDS Naturals, FiniteSets

CONSTANTS
  Commit,    \* release commits
  Spec,      \* digests the host-owned deployment spec may have
  Launch,    \* launch numbers
  None,      \* no commit, no launch
  MaxFaults  \* bound: faults of all kinds together

ASSUME DeploymentAssumption ==
  /\ None \notin Commit /\ None \notin Launch /\ Spec # {}
  /\ Launch \subseteq Nat
  /\ MaxFaults \in Nat

VARIABLES
  registry,    \* managed-release.json
  trees,       \* releases/COMMIT: artifacts present and unaltered
  manifests,   \* manifests/COMMIT.json
  origin,      \* launch -> commit and spec it was made for
  thisBoot,    \* launches of the present boot
  supervisor,  \* launch -> its supervisor process
  child,       \* launch -> its application process
  port,        \* the launch whose application holds the health port
  spec,        \* the digest of the spec on the host now
  command,     \* the command that holds the lock
  faults,      \* faults so far
  vouched,     \* the commit a probe passed for since the registry last named nothing
  retreat,     \* a rollback was begun and none has succeeded since
  torn         \* launches their command gave up or died over before recording them

vars == <<registry, trees, manifests, origin, thisBoot, supervisor, child, port,
          spec, command, faults, vouched, retreat, torn>>
files     == <<trees, manifests>>
processes == <<origin, thisBoot, supervisor, child, port>>
host      == <<spec, faults>>
history   == <<vouched, retreat>>

Established == {"healthy", "rolled-back"}
Status ==
  Established \cup {"none", "starting", "restarting", "probing", "unhealthy",
    "rolling-back", "probing-rollback", "rollback-unhealthy", "stopped"}

Idle == [do |-> "none"]
Pc ==
  {"manifest", "decide", "reprobe", "stop", "checkpoint", "start", "ready", "probe", "undo"}
CommandRecord ==
  [do : {"deploy", "health", "rollback", "stop", "recover"}, pc : Pc,
   commit : Commit \cup {None}, spec : Spec, previous : Commit \cup {None},
   recovering : BOOLEAN, launch : Launch \cup {None}]

\* "early": the application runs, the supervisor has not written its ready file.
\* "taken": it has ended and somebody else's process has its PID.
Process     == {"none", "up", "down", "taken"}
Application == Process \cup {"early"}

DeploymentTypeOK ==
  /\ registry \in
       [status : Status, operation : Commit \cup {None}, active : Launch \cup {None},
        previous : Commit \cup {None}, spec : Spec \cup {None}]
  /\ trees \subseteq Commit /\ manifests \subseteq Commit
  /\ origin \in [Launch -> [commit : Commit, spec : Spec] \cup {None}]
  /\ thisBoot \subseteq Launch
  /\ supervisor \in [Launch -> Process]
  /\ child \in [Launch -> Application]
  /\ port \in Launch \cup {None}
  /\ spec \in Spec
  /\ command \in CommandRecord \cup {Idle}
  /\ faults \in 0..MaxFaults
  /\ vouched \in Commit \cup {None}
  /\ retreat \in BOOLEAN
  /\ torn \subseteq Launch

DeploymentInit ==
  /\ registry = [status |-> "none", operation |-> None, active |-> None,
                 previous |-> None, spec |-> None]
  /\ trees = {} /\ manifests = {}
  /\ origin = [l \in Launch |-> None]
  /\ thisBoot = {}
  /\ supervisor = [l \in Launch |-> "none"]
  /\ child = [l \in Launch |-> "none"]
  /\ port = None
  /\ spec = CHOOSE s \in Spec : TRUE
  /\ command = Idle
  /\ faults = 0
  /\ vouched = None /\ retreat = FALSE
  /\ torn = {}

-----------------------------------------------------------------------------
CommitOf(l) == origin[l].commit
SpecOf(l)   == origin[l].spec

\* _verify_release
Verified(c) == c \in trees \cap manifests

\* _identity_matches raises when the PID belongs to another process.
Alive(l)    == child[l] \in {"early", "up"}
Mismatch(l) == supervisor[l] = "taken" \/ child[l] = "taken"
BothLive(l) == supervisor[l] = "up" /\ Alive(l)
OneLive(l)  == supervisor[l] = "up" \/ Alive(l)

\* A process started before the last reboot is not looked at.
AnyBoot(l)  == TRUE                        \* slip: identities outlive a reboot
SameBoot(l) == l \in thisBoot

\* The expected body or header contains the commit, and whoever holds the port
\* answers with its own.
Expected(l) == port # None /\ CommitOf(port) = CommitOf(l)
\* _probe looks at the processes of the entry before and after.
Answered(l) == BothLive(l) /\ Expected(l)
\* Waiting longer is of no use.
Hopeless(l) == ~BothLive(l) \/ (port \notin {None, l} /\ ~Answered(l))

Fault == faults < MaxFaults /\ faults' = faults + 1 /\ UNCHANGED spec

At(pc) == command # Idle /\ command.pc = pc
Goto(pc) == command' = [command EXCEPT !.pc = pc]
Quit == command' = Idle
Write(r) == registry' = r

-----------------------------------------------------------------------------
\* A command that gets the lock.  One that refuses to act changes nothing and is
\* not modelled.  recover takes no commit.
Run(do, c, pc) ==
  [do |-> do, pc |-> pc, commit |-> c, spec |-> spec, previous |-> None,
   recovering |-> FALSE, launch |-> None]
Begin(r) ==
  /\ command = Idle
  /\ command' = r
  /\ UNCHANGED <<registry, files, processes, host, history, torn>>

\* _materialize: the tree is renamed into place, then the manifest is written.
\* One without the other is refused from then on.
Materialize(c) ==
  /\ command = Idle
  /\ c \notin trees \cup manifests
  /\ trees' = trees \cup {c}
  /\ command' = Run("deploy", c, "manifest")
  /\ UNCHANGED <<registry, manifests, processes, host, history, torn>>
PublishManifest ==
  /\ At("manifest")
  /\ manifests' = manifests \cup {command.commit}
  /\ Goto("decide")
  /\ UNCHANGED <<registry, trees, processes, host, history, torn>>

\* What deploy and recover do about an application that should be running.
Check(l) ==
  IF ~SameBoot(l) THEN "restart"
  ELSE IF Mismatch(l) THEN "refuse"
  ELSE IF BothLive(l) THEN "reprobe"
  ELSE IF OneLive(l) THEN "stop" ELSE "restart"

\* deploy: what becomes of the recorded application.
ForgetfulPrevious(l, c) == CommitOf(l)     \* slip: also when deploying it again
PreviousAfter(l, c) == IF CommitOf(l) = c THEN registry.previous ELSE CommitOf(l)
Replace(l) == IF SameBoot(l) THEN "stop" ELSE "checkpoint"
Deploying(r) ==
  LET l    == registry.active
      same == CommitOf(l) = r.commit
      how  == IF l = None THEN "checkpoint"
              ELSE IF ~Verified(CommitOf(l)) THEN "refuse"
              ELSE IF same THEN Check(l) ELSE Replace(l)
  IN  IF how = "refuse" THEN Idle
      ELSE [r EXCEPT
              !.pc = IF how = "restart" THEN "checkpoint" ELSE how,
              !.previous = IF l = None THEN None ELSE PreviousAfter(l, r.commit),
              !.recovering = l # None /\ same]
Deploy(c) == Verified(c) /\ Begin(Deploying(Run("deploy", c, "decide")))
Decide ==
  /\ At("decide")
  /\ command' = Deploying(command)
  /\ UNCHANGED <<registry, files, processes, host, history, torn>>

\* health and stop act on a running application of their own release operation,
\* launched under the spec as it is; rollback needs a verified target.
OwnOperation(c) == registry.operation = c
EntryValid      == registry.active # None /\ SpecOf(registry.active) = spec
Running(l)      == BothLive(l) /\ ~Mismatch(l)
Health(c) ==
  /\ OwnOperation(c) /\ EntryValid /\ Running(registry.active)
  /\ Verified(CommitOf(registry.active))
  /\ Begin([Run("health", c, "probe") EXCEPT !.launch = registry.active])
StopCommand(c) ==
  /\ OwnOperation(c) /\ EntryValid /\ Running(registry.active)
  /\ Begin(Run("stop", c, "stop"))
Rollback(c) ==
  /\ OwnOperation(c)
  /\ registry.spec = spec
  /\ registry.previous # None /\ Verified(registry.previous)
  /\ registry.active # None => EntryValid
  /\ Begin(Run("rollback", c, IF registry.active = None THEN "checkpoint" ELSE "stop"))

\* recover leaves everything alone that is not an established release.
Recover ==
  LET l == registry.active
  IN  /\ registry.status \in Established
      /\ registry.spec = spec /\ EntryValid /\ Verified(CommitOf(l))
      /\ Check(l) # "refuse"
      /\ Begin(Run("recover", None, IF Check(l) = "restart" THEN "start" ELSE Check(l)))

\* The live application is probed before it is restarted; if it answers, the
\* command is over and the registry stays as it is.
Reprobe ==
  /\ At("reprobe")
  /\ LET l == registry.active
     IN  \/ Answered(l) /\ Quit /\ UNCHANGED host
         \/ Hopeless(l) /\ Goto("stop") /\ UNCHANGED host
         \/ ~Hopeless(l) /\ Fault /\ Goto("stop")
  /\ UNCHANGED <<registry, files, processes, history, torn>>

-----------------------------------------------------------------------------
\* _stop_owned ends the child by the token or a kill of its group and waits for
\* both processes; the supervisor ends by itself once its child is gone.
EndChild(l) ==
  /\ child' = [child EXCEPT ![l] = "down"]
  /\ port' = IF port = l THEN None ELSE port
StopChild(l) ==
  /\ ~Mismatch(l) /\ Alive(l)
  /\ EndChild(l)
  /\ UNCHANGED <<registry, files, origin, thisBoot, supervisor, host, command, history, torn>>
Ended(l) == ~Mismatch(l) /\ ~OneLive(l)

\* It fails without having signalled anything, or cannot confirm the end.
StopRefused(l) ==
  \/ Mismatch(l) /\ UNCHANGED host
  \/ ~Ended(l) /\ Fault

AfterStop == IF command.do = "recover" THEN "start" ELSE "checkpoint"
Stop ==
  /\ At("stop")
  /\ LET l == registry.active
     IN  \/ StopChild(l)
         \/ /\ \/ Ended(l) /\ Goto(AfterStop) /\ UNCHANGED host
               \/ StopRefused(l) /\ Quit
            /\ UNCHANGED <<registry, files, processes, history, torn>>

\* The registry names nothing from here until the new application is recorded.
StatusUnchanged == registry.status         \* slip: the old status stays
Opening ==
  CASE command.do = "rollback" -> "rolling-back"
    [] command.do = "stop"     -> "stopped"
    [] OTHER -> IF command.recovering THEN "restarting" ELSE "starting"
Checkpoint ==
  /\ At("checkpoint")
  /\ IF command.do = "deploy"
     THEN Write([status |-> Opening, operation |-> command.commit, active |-> None,
                 previous |-> command.previous, spec |-> command.spec])
     ELSE Write([registry EXCEPT !.status = Opening, !.active = None])
  /\ IF command.do = "stop" THEN Quit ELSE Goto("start")
  /\ vouched' = None
  /\ retreat' = (retreat \/ command.do = "rollback")
  /\ UNCHANGED <<files, processes, host, torn>>

-----------------------------------------------------------------------------
\* _start: a detached supervisor.
PreviousTarget == registry.previous        \* slip: recover starts the rollback target
Target ==
  CASE command.do = "deploy"   -> command.commit
    [] command.do = "rollback" -> registry.previous
    [] OTHER                   -> CommitOf(registry.active)
LaunchValues == [commit |-> Target, spec |-> command.spec]
Free(l) == ~OneLive(l) /\ l # registry.active
Start ==
  /\ At("start")
  /\ \E l \in Launch :
         /\ Free(l) /\ \A m \in Launch : Free(m) => l <= m
         /\ origin' = [origin EXCEPT ![l] = LaunchValues]
         /\ supervisor' = [supervisor EXCEPT ![l] = "up"]
         /\ child' = [child EXCEPT ![l] = "none"]
         /\ thisBoot' = thisBoot \cup {l}
         /\ torn' = torn \ {l}
         /\ command' = [command EXCEPT !.pc = "ready", !.launch = l]
  /\ UNCHANGED <<registry, files, port, host, history>>

\* What a command records when it gives up; recover leaves the registry alone.
GiveUp ==
  /\ Quit
  /\ CASE command.do = "deploy"   -> Write([registry EXCEPT !.status = "unhealthy"])
       [] command.do = "rollback" -> Write([registry EXCEPT !.status = "rollback-unhealthy"])
       [] OTHER                   -> UNCHANGED registry

\* No ready file: the supervisor is killed.  Its child has a session of its own
\* and survives if it has been started.
StartTimesOut ==
  LET l == command.launch
  IN  /\ At("ready")
      /\ child[l] \in {"none", "early"}
      /\ IF supervisor[l] = "up" THEN Fault ELSE UNCHANGED host
      /\ supervisor' = [supervisor EXCEPT ![l] = IF @ = "up" THEN "down" ELSE @]
      /\ torn' = IF Alive(l) THEN torn \cup {l} ELSE torn
      /\ GiveUp
      /\ UNCHANGED <<files, origin, thisBoot, child, port, history>>

\* A ready file that is refused, or whose application is gone: what it names is
\* stopped, and an error of that is dropped.
StartRefused ==
  /\ At("ready")
  /\ \/ child[command.launch] = "up" /\ Fault
     \/ child[command.launch] \in {"down", "taken"} /\ UNCHANGED host
  /\ Goto("undo")
  /\ UNCHANGED <<registry, files, processes, history, torn>>
UndoNothing(l) == TRUE                     \* slip: the new processes are left running
Undone(l) == Ended(l)
Undo ==
  /\ At("undo")
  /\ LET l == command.launch
     IN  \/ StopChild(l)
         \/ /\ \/ Undone(l) /\ UNCHANGED <<host, torn>>
               \/ /\ StopRefused(l)
                  /\ torn' = IF registry.active = l THEN torn ELSE torn \cup {l}
            /\ GiveUp
            /\ UNCHANGED <<files, processes, history>>

\* The ready file names an application that lives.  recover records it under the
\* established status, before it has probed anything.
Record ==
  /\ At("ready")
  /\ child[command.launch] = "up"
  /\ Write([registry EXCEPT
       !.active = command.launch,
       !.status = CASE command.do = "deploy"   -> "probing"
                    [] command.do = "rollback" -> "probing-rollback"
                    [] OTHER                   -> @])
  /\ Goto("probe")
  /\ UNCHANGED <<files, processes, host, history, torn>>

\* After the probe deploy and recover look at the artifact once more, and rollback
\* drops its target.
Settled ==
  CASE command.do = "rollback" ->
         [registry EXCEPT !.status = "rolled-back", !.previous = None]
    [] command.do = "recover" -> registry
    [] OTHER -> [registry EXCEPT !.status = "healthy"]
ProbePasses ==
  /\ At("probe")
  /\ Answered(command.launch)
  /\ IF command.do \in {"deploy", "recover"} => Verified(CommitOf(command.launch))
     THEN Write(Settled) ELSE UNCHANGED registry
  /\ vouched' = CommitOf(command.launch)
  /\ retreat' = (retreat /\ command.do # "rollback")
  /\ Quit
  /\ UNCHANGED <<files, processes, host, torn>>

\* After a failed probe recover stops what it started; deploy and rollback leave
\* it to the next command.
ProbeFails ==
  /\ At("probe")
  /\ IF Hopeless(command.launch) THEN UNCHANGED host ELSE Fault
  /\ IF command.do = "recover" THEN Goto("undo") /\ UNCHANGED registry ELSE GiveUp
  /\ UNCHANGED <<files, processes, history, torn>>

-----------------------------------------------------------------------------
\* _supervise: it goes on whatever becomes of the command.
Spawn(l) ==
  /\ supervisor[l] = "up" /\ child[l] = "none"
  /\ child' = [child EXCEPT ![l] = "early"]
  /\ UNCHANGED <<registry, files, origin, thisBoot, supervisor, port, host, command, history, torn>>
Announce(l) ==
  /\ supervisor[l] = "up" /\ child[l] = "early"
  /\ child' = [child EXCEPT ![l] = "up"]
  /\ UNCHANGED <<registry, files, origin, thisBoot, supervisor, port, host, command, history, torn>>
SupervisorEnds(l) ==
  /\ supervisor[l] = "up" /\ child[l] \in {"down", "taken"}
  /\ supervisor' = [supervisor EXCEPT ![l] = "down"]
  /\ UNCHANGED <<registry, files, origin, thisBoot, child, port, host, command, history, torn>>

\* The application binds its port, or ends because somebody else has it.
Serve(l) ==
  /\ Alive(l) /\ port = None
  /\ port' = l
  /\ UNCHANGED <<registry, files, origin, thisBoot, supervisor, child, host, command, history, torn>>
AddressInUse(l) ==
  /\ Alive(l) /\ port \notin {None, l}
  /\ EndChild(l)
  /\ UNCHANGED <<registry, files, origin, thisBoot, supervisor, host, command, history, torn>>

\* A command is killed.  What it has started and not recorded nobody will find.
Die ==
  /\ command # Idle
  /\ Fault
  /\ torn' = IF command.launch \in {None, registry.active} THEN torn
             ELSE torn \cup {command.launch}
  /\ Quit
  /\ UNCHANGED <<registry, files, processes, history>>
Crash(l) ==
  /\ Alive(l)
  /\ Fault
  /\ EndChild(l)
  /\ UNCHANGED <<registry, files, origin, thisBoot, supervisor, command, history, torn>>
KillSupervisor(l) ==
  /\ supervisor[l] = "up"
  /\ Fault
  /\ supervisor' = [supervisor EXCEPT ![l] = "down"]
  /\ UNCHANGED <<registry, files, origin, thisBoot, child, port, command, history, torn>>
ReusePid(l) ==
  /\ child[l] = "down"
  /\ Fault
  /\ child' = [child EXCEPT ![l] = "taken"]
  /\ UNCHANGED <<registry, files, origin, thisBoot, supervisor, port, command, history, torn>>
Reboot ==
  /\ Fault
  /\ supervisor' = [l \in Launch |-> IF supervisor[l] = "none" THEN "none" ELSE "down"]
  /\ child' = [l \in Launch |-> IF child[l] = "none" THEN "none" ELSE "down"]
  /\ port' = None
  /\ thisBoot' = {}
  /\ Quit
  /\ torn' = {}
  /\ UNCHANGED <<registry, files, origin, history>>
Damage(c) ==
  /\ c \in trees
  /\ Fault
  /\ trees' = trees \ {c}
  /\ UNCHANGED <<registry, manifests, processes, command, history, torn>>
EditSpec ==
  /\ faults < MaxFaults
  /\ faults' = faults + 1
  /\ \E s \in Spec : s # spec /\ spec' = s
  /\ UNCHANGED <<registry, files, processes, command, history, torn>>

CommandStep ==
  \/ PublishManifest \/ Decide \/ Reprobe \/ Stop \/ Checkpoint \/ Start
  \/ StartTimesOut \/ StartRefused \/ Undo \/ Record \/ ProbePasses \/ ProbeFails
ProcessStep(l) ==
  Spawn(l) \/ Announce(l) \/ SupervisorEnds(l) \/ Serve(l) \/ AddressInUse(l)
Disturbance ==
  \/ Die \/ Reboot \/ EditSpec
  \/ \E l \in Launch : Crash(l) \/ KillSupervisor(l) \/ ReusePid(l)
  \/ \E c \in Commit : Damage(c)

DeploymentNext ==
  \/ \E c \in Commit :
       Materialize(c) \/ Deploy(c) \/ Health(c) \/ Rollback(c) \/ StopCommand(c)
  \/ Recover
  \/ CommandStep
  \/ \E l \in Launch : ProcessStep(l)
  \/ Disturbance

\* The operating system runs every process.  recover is started every minute, and
\* the lock it waits for comes to it.
DeploymentSpec ==
  /\ DeploymentInit /\ [][DeploymentNext]_vars
  /\ WF_vars(CommandStep)
  /\ \A l \in Launch : WF_vars(ProcessStep(l))
  /\ SF_vars(Recover)

-----------------------------------------------------------------------------
Living == {l \in Launch : Alive(l)}

\* An application that runs is the recorded one or the one a command is starting,
\* and two never run side by side: STATE/data has one writer, and nothing leaves a
\* process behind that no later command can find.  The exception is what a command
\* died over, or could not stop, before recording it.
OneOwnedApplication ==
  /\ Living \ torn \subseteq
       {registry.active} \cup (IF command = Idle THEN {} ELSE {command.launch})
  /\ Cardinality(Living \ torn) <= 1

\* An established status stands for an application of a commit that passed a probe
\* since the registry last named nothing, even while recover replaces the process:
\* recovery never brings back what was stopped or was never proved.
SettledWasProved ==
  registry.status \in Established =>
    registry.active # None /\ vouched = CommitOf(registry.active)

\* However deploys, retries, deaths and rollbacks follow each other, the rollback
\* target is never the candidate itself.  After a rollback that failed it can be:
\* deploying the restored commit once more keeps it as its own target.
RollbackGoesElsewhere ==
  registry.previous # None /\ ~retreat => registry.previous # registry.operation

\* MANAGED_RELEASE.md: recovery "restores a verified crashed application".  Once
\* faults cease, an established release serves its port again, unless it is
\* replaced or stopped, or the code refuses on purpose: a changed spec, an altered
\* artifact, a reused PID, or a port held by a process nobody owns.
Refused ==
  LET l == registry.active
  IN  \/ registry.spec # spec
      \/ ~Verified(CommitOf(l))
      \/ l \in thisBoot /\ Mismatch(l)
      \/ port \in torn
Serving == registry.active # None /\ port = registry.active
RecoveryServes ==
  registry.status \in Established ~> (Serving \/ registry.status \notin Established \/ Refused)
=============================================================================
