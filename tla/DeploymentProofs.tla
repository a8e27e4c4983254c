-------------------------- MODULE DeploymentProofs --------------------------
(***************************************************************************)
(* Theorems about Deployment for every set of commits, specs and launches, *)
(* and any number of deaths, reboots, crashes and reused PIDs.             *)
(*                                                                         *)
(* The registry is written by one command at a time, so what a command has *)
(* looked at stays as it was until it writes; and what runs can only be    *)
(* the recorded launch or the one that is being started, which is started  *)
(* only when the recorded one is dead.                                     *)
(***************************************************************************)
EXTENDS Deployment, FiniteSetTheorems, TLAPS

Registry ==
  [status : Status, operation : Commit \cup {None}, active : Launch \cup {None},
   previous : Commit \cup {None}, spec : Spec \cup {None}]
Origin == [commit : Commit, spec : Spec]

\* A launch that was made for something.
Entry(l) == l \in Launch /\ origin[l] \in Origin

\* Where each command can be.
Places(do) ==
  CASE do = "deploy"   -> Pc
    [] do = "health"   -> {"probe"}
    [] do = "rollback" -> {"stop", "checkpoint", "start", "ready", "undo", "probe"}
    [] do = "stop"     -> {"stop", "checkpoint"}
    [] do = "recover"  -> {"reprobe", "stop", "start", "ready", "undo", "probe"}

\* What a command may rely on.
Launching ==
  /\ command.launch # None <=> command.pc \in {"ready", "undo", "probe"}
  /\ command.launch # None => Entry(command.launch)
  /\ command.pc = "probe" => command.launch = registry.active
DeployDoes ==
  command.do = "deploy" =>
    /\ command.commit \in Commit
    /\ command.previous # None /\ ~retreat => command.previous # command.commit
    /\ command.pc \in {"start", "ready"} => registry.operation = command.commit
    /\ command.pc = "ready" => CommitOf(command.launch) = command.commit
RollbackDoes ==
  command.do = "rollback" =>
    /\ registry.previous # None
    /\ command.pc \in {"start", "ready", "undo", "probe"} => retreat
RecoverDoes ==
  command.do = "recover" =>
    /\ registry.active # None
    /\ command.pc = "ready" => CommitOf(command.launch) = CommitOf(registry.active)
Doing ==
  command # Idle =>
    /\ command.pc \in Places(command.do)
    /\ command.pc \in {"reprobe", "stop"} => registry.active # None
    /\ Launching /\ DeployDoes /\ RollbackDoes /\ RecoverDoes

\* What the registry says.  The target of a rollback belongs to the operation, and
\* until one is begun the operation's release is what is recorded.
Entries == registry.active # None => Entry(registry.active)
OwnRelease ==
  ~retreat /\ registry.previous # None /\ registry.active # None =>
    CommitOf(registry.active) = registry.operation

Books ==
  /\ registry \in Registry
  /\ origin \in [Launch -> Origin \cup {None}]
  /\ command \in CommandRecord \cup {Idle}
  /\ vouched \in Commit \cup {None} /\ retreat \in BOOLEAN /\ spec \in Spec
  /\ Entries /\ SettledWasProved /\ RollbackGoesElsewhere /\ OwnRelease
  /\ Doing

\* A launch that can still be running, or be about to.
Dead(l)    == ~OneLive(l)
MayRun(l) == Alive(l) \/ (supervisor[l] = "up" /\ child[l] = "none")

Owned(l) == l = registry.active \/ (command # Idle /\ l = command.launch)

\* From where it looks to where it starts a launch, a command has the recorded one
\* dead; and so has what it undoes that was not recorded.
Cleared ==
  command # Idle /\ registry.active # None =>
    \/ command.pc \notin {"checkpoint", "start", "ready", "undo"}
    \/ command.pc = "undo" /\ command.launch = registry.active
    \/ Dead(registry.active)

Machines ==
  /\ supervisor \in [Launch -> Process] /\ child \in [Launch -> Application]
  /\ thisBoot \subseteq Launch /\ torn \subseteq Launch

Life ==
  /\ Machines
  /\ \A l \in Launch : l \notin thisBoot => Dead(l)
  /\ \A l \in Launch : MayRun(l) /\ l \notin torn => Owned(l)
  /\ Cleared

Elsewhere ==
  /\ trees \subseteq Commit /\ manifests \subseteq Commit
  /\ port \in Launch \cup {None}
  /\ faults \in 0..MaxFaults

DeploymentInv == Books /\ Life /\ Elsewhere

-----------------------------------------------------------------------------
\* The records.
LEMMA CommandFacts ==
  ASSUME Books, command # Idle
  PROVE  /\ command \in CommandRecord
         /\ command.do \in {"deploy", "health", "rollback", "stop", "recover"}
         /\ command.pc \in Pc /\ command.commit \in Commit \cup {None}
         /\ command.spec \in Spec /\ command.previous \in Commit \cup {None}
         /\ command.recovering \in BOOLEAN /\ command.launch \in Launch \cup {None}
<1>1. command \in CommandRecord
  BY DEF Books
<1>. QED
  BY <1>1 DEF CommandRecord

\* A command at work is not the idle one.
LEMMA NotIdle == \A r \in CommandRecord : r # Idle
<1>. SUFFICES ASSUME NEW r \in CommandRecord PROVE r # Idle
  OBVIOUS
<1>1. r.do # "none"
  BY DEF CommandRecord
<1>2. Idle.do = "none"
  BY DEF Idle
<1>. QED
  BY <1>1, <1>2

\* What the registry names is known, and so is what was launched for it.
LEMMA RegistryFacts ==
  ASSUME Books
  PROVE  /\ registry \in Registry
         /\ registry.status \in Status /\ registry.operation \in Commit \cup {None}
         /\ registry.active \in Launch \cup {None}
         /\ registry.previous \in Commit \cup {None}
         /\ registry.spec \in Spec \cup {None}
         /\ registry.active # None =>
              /\ registry.active \in Launch
              /\ CommitOf(registry.active) \in Commit
<1>1. registry \in Registry /\ Entries
  BY DEF Books
<1>2. registry.active # None =>
        registry.active \in Launch /\ CommitOf(registry.active) \in Commit
  BY <1>1 DEF Entries, Entry, Origin, CommitOf
<1>. QED
  BY <1>1, <1>2 DEF Registry

\* A new command, before it has looked at anything.
LEMMA RunFacts ==
  ASSUME Books, NEW do \in {"deploy", "health", "rollback", "stop", "recover"},
         NEW c \in Commit \cup {None}, NEW pc \in Pc
  PROVE  /\ Run(do, c, pc) \in CommandRecord
         /\ Run(do, c, pc).do = do /\ Run(do, c, pc).commit = c /\ Run(do, c, pc).pc = pc
         /\ Run(do, c, pc).previous = None /\ Run(do, c, pc).launch = None
<1>1. spec \in Spec
  BY DEF Books
<1>. QED
  BY <1>1 DEF Run, CommandRecord

\* A command that goes on is the same command.
Continues(pc, launch) ==
  /\ command' \in CommandRecord
  /\ command'.pc = pc /\ command'.launch = launch
  /\ command'.do = command.do /\ command'.commit = command.commit
  /\ command'.previous = command.previous

\* Moving on changes nothing but the place.
LEMMA GotoContinues ==
  ASSUME Books, command # Idle, NEW pc \in Pc, Goto(pc)
  PROVE  Continues(pc, command.launch)
<1>1. command \in CommandRecord
  BY CommandFacts
<1>2. command' \in CommandRecord
  BY <1>1 DEF Goto, CommandRecord
<1>3. /\ command'.pc = pc /\ command'.launch = command.launch
      /\ command'.do = command.do /\ command'.commit = command.commit
      /\ command'.previous = command.previous
  BY <1>1 DEF Goto, CommandRecord
<1>. QED
  BY <1>2, <1>3 DEF Continues

-----------------------------------------------------------------------------
\* What a step that writes nothing does to the books.
BooksAlone == UNCHANGED <<registry, origin, vouched, retreat>> /\ spec' \in Spec

\* A step that writes nothing leaves every claim about the registry standing.
LEMMA BooksStay ==
  ASSUME Books, BooksAlone, command' \in CommandRecord \cup {Idle}, Doing'
  PROVE  Books'
<1>1. UNCHANGED registry /\ UNCHANGED origin /\ UNCHANGED vouched /\ UNCHANGED retreat
      /\ spec' \in Spec
  BY DEF BooksAlone
<1>2. Entries' /\ SettledWasProved' /\ RollbackGoesElsewhere' /\ OwnRelease'
  <2>1. Entries /\ SettledWasProved /\ RollbackGoesElsewhere /\ OwnRelease
    BY DEF Books
  <2>2. Entries'
    BY <1>1, <2>1 DEF Entries, Entry
  <2>3. SettledWasProved'
    BY <1>1, <2>1 DEF SettledWasProved, CommitOf
  <2>4. RollbackGoesElsewhere'
    BY <1>1, <2>1 DEF RollbackGoesElsewhere
  <2>5. OwnRelease'
    BY <1>1, <2>1 DEF OwnRelease, CommitOf
  <2>. QED
    BY <2>2, <2>3, <2>4, <2>5
<1>. QED
  BY <1>1, <1>2 DEF Books

\* The end of a command that writes nothing.
LEMMA BooksQuit ==
  ASSUME Books, BooksAlone, Quit
  PROVE  Books'
<1>1. Doing'
  BY DEF Doing, Quit
<1>. QED
  BY <1>1, BooksStay DEF Quit

\* A step of somebody else.
LEMMA BooksStand ==
  ASSUME Books, BooksAlone, UNCHANGED command
  PROVE  Books'
<1>1. UNCHANGED registry /\ UNCHANGED origin /\ UNCHANGED retreat
  BY DEF BooksAlone
<1>2. Doing
  BY DEF Books
<1>3. command' # Idle => Launching' /\ DeployDoes' /\ RollbackDoes' /\ RecoverDoes'
  <2>. SUFFICES ASSUME command # Idle
                PROVE  Launching' /\ DeployDoes' /\ RollbackDoes' /\ RecoverDoes'
    OBVIOUS
  <2>1. Launching /\ DeployDoes /\ RollbackDoes /\ RecoverDoes
    BY <1>2 DEF Doing
  <2>2. Launching'
    BY <1>1, <2>1 DEF Launching, Entry
  <2>3. DeployDoes'
    BY <1>1, <2>1 DEF DeployDoes, CommitOf
  <2>4. RollbackDoes' /\ RecoverDoes'
    BY <1>1, <2>1 DEF RollbackDoes, RecoverDoes, CommitOf
  <2>. QED
    BY <2>2, <2>3, <2>4
<1>4. Doing'
  BY <1>1, <1>2, <1>3 DEF Doing
<1>. QED
  BY <1>4, BooksStay DEF Books

\* A command that has just got the lock, or has just looked at what is recorded.
LEMMA BooksBegin ==
  ASSUME Books, BooksAlone, command' \in CommandRecord, command'.launch = None,
         command'.pc \in Places(command'.do),
         command'.pc \in {"manifest", "decide", "reprobe", "stop", "checkpoint", "start"},
         command'.pc = "start" => command'.do = "recover",
         command'.pc \in {"reprobe", "stop"} => registry.active # None,
         command'.do = "deploy" =>
           /\ command'.commit \in Commit
           /\ command'.previous # None /\ ~retreat => command'.previous # command'.commit,
         command'.do = "rollback" => registry.previous # None,
         command'.do = "recover" => registry.active # None
  PROVE  Books'
<1>1. UNCHANGED registry /\ UNCHANGED origin /\ UNCHANGED retreat
  BY DEF BooksAlone
<1>2. Launching'
  BY DEF Launching
<1>3. DeployDoes'
  BY <1>1 DEF DeployDoes
<1>4. RollbackDoes' /\ RecoverDoes'
  BY <1>1 DEF RollbackDoes, RecoverDoes
<1>5. Doing'
  BY <1>1, <1>2, <1>3, <1>4 DEF Doing
<1>. QED
  BY <1>5, BooksStay

\* A command that goes on with the launch it has in hand.
LEMMA BooksGoOn ==
  ASSUME Books, BooksAlone, command # Idle, NEW pc \in Pc \ {"ready", "probe"},
         Continues(pc, command.launch),
         pc \in Places(command.do),
         pc \in {"reprobe", "stop"} => registry.active # None,
         (pc = "undo") <=> command.launch # None,
         pc = "start" => command.do = "recover",
         pc = "undo" => command.do # "rollback" \/ retreat
  PROVE  Books'
<1>1. UNCHANGED registry /\ UNCHANGED origin /\ UNCHANGED retreat
  BY DEF BooksAlone
<1>2. Launching /\ DeployDoes /\ RollbackDoes /\ RecoverDoes
  BY DEF Books, Doing
<1>3. /\ command' \in CommandRecord /\ command'.pc = pc
      /\ command'.launch = command.launch /\ command'.do = command.do
      /\ command'.commit = command.commit /\ command'.previous = command.previous
  BY DEF Continues
<1>4. Launching'
  BY <1>1, <1>2, <1>3 DEF Launching, Entry
<1>5. DeployDoes'
  BY <1>1, <1>2, <1>3 DEF DeployDoes
<1>6. RollbackDoes' /\ RecoverDoes'
  BY <1>1, <1>2, <1>3 DEF RollbackDoes, RecoverDoes, Pc
<1>7. Doing'
  BY <1>1, <1>3, <1>4, <1>5, <1>6 DEF Doing
<1>. QED
  BY <1>3, <1>7, BooksStay

-----------------------------------------------------------------------------
\* deploy, once it has looked at the recorded application: it refuses, or goes to
\* the place that its state calls for.
Goal(r, j) ==
  /\ j \in CommandRecord
  /\ j.do = r.do /\ j.commit = r.commit /\ j.launch = r.launch
  /\ j.pc \in {"reprobe", "stop", "checkpoint"}
  /\ j.pc \in {"reprobe", "stop"} => registry.active # None
  /\ j.previous # None /\ ~retreat => j.previous # r.commit
  /\ registry.active # None /\ j.pc = "checkpoint" =>
       Check(registry.active) = "restart" \/ ~SameBoot(registry.active)

\* A deploy keeps or makes a target that is not its own commit.
LEMMA Previous ==
  ASSUME Books, NEW c \in Commit, registry.active # None
  PROVE  /\ PreviousAfter(registry.active, c) \in Commit \cup {None}
         /\ PreviousAfter(registry.active, c) # None /\ ~retreat =>
              PreviousAfter(registry.active, c) # c
<1>1. CommitOf(registry.active) \in Commit /\ registry.previous \in Commit \cup {None}
  BY RegistryFacts
<1>2. CASE CommitOf(registry.active) = c
  <2>1. PreviousAfter(registry.active, c) = registry.previous
    BY <1>2 DEF PreviousAfter
  <2>2. ~retreat /\ registry.previous # None => registry.operation = c
    BY <1>2 DEF Books, OwnRelease
  <2>3. ~retreat /\ registry.previous # None => registry.previous # registry.operation
    BY DEF Books, RollbackGoesElsewhere
  <2>. QED
    BY <1>1, <2>1, <2>2, <2>3
<1>3. CASE CommitOf(registry.active) # c
  BY <1>1, <1>3 DEF PreviousAfter
<1>. QED
  BY <1>2, <1>3

\* A deploy that does not refuse has a goal.
LEMMA DeployingGoal ==
  ASSUME Books, NEW r \in CommandRecord, r.commit \in Commit
  PROVE  Deploying(r) = Idle \/ Goal(r, Deploying(r))
<1> DEFINE l    == registry.active
           same == CommitOf(l) = r.commit
           how  == IF l = None THEN "checkpoint"
                   ELSE IF ~Verified(CommitOf(l)) THEN "refuse"
                   ELSE IF same THEN Check(l) ELSE Replace(l)
           pc       == IF how = "restart" THEN "checkpoint" ELSE how
           previous == IF l = None THEN None ELSE PreviousAfter(l, r.commit)
           j == [r EXCEPT !.pc = pc, !.previous = previous,
                          !.recovering = l # None /\ same]
<1>1. Deploying(r) = IF how = "refuse" THEN Idle ELSE j
  BY DEF Deploying
<1>2. PICK recovering \in BOOLEAN : j = [r EXCEPT !.pc = pc, !.previous = previous,
                                                 !.recovering = recovering]
  <2> HIDE DEF l, same, how, pc, previous
  <2>1. (l # None /\ same) \in BOOLEAN
    OBVIOUS
  <2> WITNESS (l # None /\ same) \in BOOLEAN
  <2>. QED
    OBVIOUS
<1>3. /\ l = None => how = "checkpoint"
      /\ l # None /\ same => how \in {"refuse", Check(l)}
      /\ l # None /\ ~same => how \in {"refuse", Replace(l)}
  OBVIOUS
<1>4. pc = IF how = "restart" THEN "checkpoint" ELSE how
  OBVIOUS
<1>5. previous = IF l = None THEN None ELSE PreviousAfter(l, r.commit)
  OBVIOUS
<1>6. l = registry.active
  OBVIOUS
<1> HIDE DEF l, same, how, pc, previous, j
<1>9. /\ Check(l) \in {"restart", "refuse", "reprobe", "stop"}
      /\ Replace(l) = IF SameBoot(l) THEN "stop" ELSE "checkpoint"
  BY DEF Check, Replace
<1>10. CASE how = "refuse"
  BY <1>1, <1>10
<1>11. CASE how # "refuse"
  <2>1. /\ pc \in {"reprobe", "stop", "checkpoint"}
        /\ pc \in {"reprobe", "stop"} => l # None
        /\ l # None /\ pc = "checkpoint" => Check(l) = "restart" \/ ~SameBoot(l)
    <3>1. CASE l = None
      <4>1. pc = "checkpoint"
        BY <1>3, <1>4, <3>1
      <4>. QED
        BY <3>1, <4>1
    <3>2. CASE l # None /\ same
      <4>1. how = Check(l)
        BY <1>3, <1>11, <3>2
      <4>. QED
        BY <1>4, <1>9, <1>11, <3>2, <4>1
    <3>3. CASE l # None /\ ~same
      <4>1. how = Replace(l)
        BY <1>3, <1>11, <3>3
      <4>. QED
        BY <1>4, <1>9, <1>11, <3>3, <4>1
    <3>. QED
      BY <3>1, <3>2, <3>3
  <2>2. /\ previous \in Commit \cup {None}
        /\ previous # None /\ ~retreat => previous # r.commit
    BY <1>5, <1>6, Previous
  <2>3. j \in CommandRecord
    BY <1>2, <2>1, <2>2 DEF CommandRecord, Pc
  <2>4. /\ j.do = r.do /\ j.commit = r.commit /\ j.launch = r.launch
        /\ j.pc = pc /\ j.previous = previous
    BY <1>2 DEF CommandRecord
  <2>. QED
    BY <1>1, <1>6, <1>11, <2>1, <2>2, <2>3, <2>4 DEF Goal
<1>. QED
  BY <1>10, <1>11

\* A deploy that has looked.
LEMMA BooksDeploying ==
  ASSUME Books, BooksAlone, NEW r \in CommandRecord, r.commit \in Commit,
         r.do = "deploy", r.launch = None, command' = Deploying(r)
  PROVE  Books'
<1>1. CASE Deploying(r) = Idle
  BY <1>1, BooksQuit DEF Quit
<1>2. CASE Goal(r, Deploying(r))
  <2>1. Goal(r, command')
    BY <1>2
  <2>2. command'.pc \in Places("deploy")
    BY <2>1 DEF Goal, Places, Pc
  <2>. QED
    BY <2>1, <2>2, BooksBegin DEF Goal
<1>. QED
  BY <1>1, <1>2, DeployingGoal

\* Where a command is says which one it is.
LEMMA PlaceTells ==
  ASSUME Books, command # Idle
  PROVE  /\ command.pc \in {"manifest", "decide"} => command.do = "deploy"
         /\ command.pc = "reprobe" => command.do \in {"deploy", "recover"}
         /\ command.pc = "stop" => command.do \in {"deploy", "rollback", "stop", "recover"}
         /\ command.pc = "checkpoint" => command.do \in {"deploy", "rollback", "stop"}
         /\ command.pc \in {"start", "ready", "undo"} =>
              command.do \in {"deploy", "rollback", "recover"}
         /\ command.pc = "probe" => command.do \in {"deploy", "health", "rollback", "recover"}
<1>1. command.do \in {"deploy", "health", "rollback", "stop", "recover"}
  BY CommandFacts
<1>2. command.pc \in Places(command.do)
  BY DEF Books, Doing
<1>3. CASE command.do = "deploy"
  BY <1>3
<1>4. CASE command.do = "health"
  BY <1>2, <1>4 DEF Places
<1>5. CASE command.do = "rollback"
  BY <1>2, <1>5 DEF Places
<1>6. CASE command.do = "stop"
  BY <1>2, <1>6 DEF Places
<1>7. CASE command.do = "recover"
  BY <1>2, <1>7 DEF Places
<1>. QED
  BY <1>1, <1>3, <1>4, <1>5, <1>6, <1>7

\* The commands that get the lock.
LEMMA BooksLocked ==
  ASSUME Books, BooksAlone, command = Idle,
         \/ \E c \in Commit : \/ Materialize(c) \/ Deploy(c) \/ Health(c)
                              \/ Rollback(c) \/ StopCommand(c)
         \/ Recover
  PROVE  Books'
<1> USE DEF Begin
<1>1. ASSUME NEW c \in Commit, Materialize(c) PROVE Books'
  <2>1. command' = Run("deploy", c, "manifest")
    BY <1>1 DEF Materialize
  <2>2. "manifest" \in Pc /\ "manifest" \in Places("deploy")
    BY DEF Places, Pc
  <2>. QED
    BY <2>1, <2>2, RunFacts, BooksBegin
<1>2. ASSUME NEW c \in Commit, Deploy(c) PROVE Books'
  <2>1. "decide" \in Pc
    BY DEF Pc
  <2>2. command' = Deploying(Run("deploy", c, "decide"))
    BY <1>2 DEF Deploy
  <2>3. PICK r : r = Run("deploy", c, "decide")
    OBVIOUS
  <2>4. r \in CommandRecord /\ r.do = "deploy" /\ r.commit = c /\ r.launch = None
    BY <2>1, <2>3, RunFacts
  <2>. QED
    BY <2>2, <2>3, <2>4, BooksDeploying
<1>3. ASSUME NEW c \in Commit, Health(c) PROVE Books'
  <2>1. "probe" \in Pc /\ "probe" \in Places("health")
    BY DEF Places, Pc
  <2>2. PICK r : r = Run("health", c, "probe")
    OBVIOUS
  <2>3. r \in CommandRecord /\ r.do = "health" /\ r.pc = "probe"
    BY <2>1, <2>2, RunFacts
  <2>4. command' = [r EXCEPT !.launch = registry.active]
    BY <1>3, <2>2 DEF Health
  <2>5. registry.active # None /\ registry.active \in Launch /\ Entry(registry.active)
    BY <1>3, RegistryFacts DEF Health, EntryValid, Books, Entries
  <2>6. command' \in CommandRecord
    BY <2>3, <2>4, <2>5 DEF CommandRecord
  <2>7. command'.do = "health" /\ command'.pc = "probe" /\ command'.launch = registry.active
    BY <2>3, <2>4, <2>5 DEF CommandRecord
  <2>8. UNCHANGED registry /\ UNCHANGED origin
    BY DEF BooksAlone
  <2>9. Launching' /\ DeployDoes' /\ RollbackDoes' /\ RecoverDoes'
    BY <2>5, <2>7, <2>8 DEF Launching, DeployDoes, RollbackDoes, RecoverDoes, Entry
  <2>10. Doing'
    BY <2>1, <2>7, <2>9 DEF Doing
  <2>. QED
    BY <2>6, <2>10, BooksStay
<1>4. ASSUME NEW c \in Commit, Rollback(c) PROVE Books'
  <2>1. PICK pc \in {"checkpoint", "stop"} :
           pc = IF registry.active = None THEN "checkpoint" ELSE "stop"
    OBVIOUS
  <2>2. command' = Run("rollback", c, pc) /\ registry.previous # None
    BY <1>4, <2>1 DEF Rollback
  <2>3. pc \in Pc /\ pc \in Places("rollback")
    BY DEF Places, Pc
  <2>. QED
    BY <2>1, <2>2, <2>3, RunFacts, BooksBegin
<1>5. ASSUME NEW c \in Commit, StopCommand(c) PROVE Books'
  <2>1. command' = Run("stop", c, "stop") /\ registry.active # None
    BY <1>5 DEF StopCommand, EntryValid
  <2>2. "stop" \in Pc /\ "stop" \in Places("stop")
    BY DEF Places, Pc
  <2>. QED
    BY <2>1, <2>2, RunFacts, BooksBegin
<1>6. ASSUME Recover PROVE Books'
  <2>1. PICK pc : pc = IF Check(registry.active) = "restart" THEN "start"
                       ELSE Check(registry.active)
    OBVIOUS
  <2>2. /\ command' = Run("recover", None, pc) /\ registry.active # None
        /\ Check(registry.active) # "refuse"
    BY <1>6, <2>1 DEF Recover, EntryValid
  <2>3. pc \in {"start", "reprobe", "stop"}
    BY <2>1, <2>2 DEF Check
  <2>4. pc \in Pc /\ pc \in Places("recover")
    BY <2>3 DEF Places, Pc
  <2>. QED
    BY <2>2, <2>3, <2>4, RunFacts, BooksBegin
<1>. QED
  BY <1>1, <1>2, <1>3, <1>4, <1>5, <1>6

-----------------------------------------------------------------------------
\* The steps that write the registry.
LEMMA RegistryUpdates ==
  ASSUME NEW r \in Registry, NEW st \in Status
  PROVE  /\ [r EXCEPT !.status = st] \in Registry
         /\ [r EXCEPT !.status = st].status = st
         /\ [r EXCEPT !.status = st].operation = r.operation
         /\ [r EXCEPT !.status = st].active = r.active
         /\ [r EXCEPT !.status = st].previous = r.previous
<1>1. [r EXCEPT !.status = st] \in Registry
  BY DEF Registry
<1>. QED
  BY <1>1 DEF Registry

\* Giving up takes back an established status, if it touches one.
LEMMA BooksGiveUp ==
  ASSUME Books, command # Idle, GiveUp, UNCHANGED <<origin, vouched, retreat>>, spec' \in Spec
  PROVE  Books'
<1>1. Quit
  BY DEF GiveUp
<1>2. registry \in Registry
  BY DEF Books
<1>3. CASE UNCHANGED registry
  BY <1>1, <1>3, BooksQuit DEF BooksAlone
<1>4. CASE \E st \in {"unhealthy", "rollback-unhealthy"} :
             registry' = [registry EXCEPT !.status = st]
  <2>1. PICK st \in {"unhealthy", "rollback-unhealthy"} :
               registry' = [registry EXCEPT !.status = st]
    BY <1>4
  <2>2. st \in Status /\ st \notin Established
    BY DEF Status, Established
  <2>3. /\ registry' \in Registry /\ registry'.status = st
        /\ registry'.operation = registry.operation
        /\ registry'.active = registry.active /\ registry'.previous = registry.previous
    BY <1>2, <2>1, <2>2, RegistryUpdates
  <2>4. Entries' /\ SettledWasProved' /\ RollbackGoesElsewhere' /\ OwnRelease'
    <3>1. Entries /\ RollbackGoesElsewhere /\ OwnRelease
      BY DEF Books
    <3>2. Entries'
      BY <2>3, <3>1 DEF Entries, Entry
    <3>3. SettledWasProved'
      BY <2>2, <2>3 DEF SettledWasProved
    <3>4. RollbackGoesElsewhere'
      BY <2>3, <3>1 DEF RollbackGoesElsewhere
    <3>5. OwnRelease'
      BY <2>3, <3>1 DEF OwnRelease, CommitOf
    <3>. QED
      BY <3>2, <3>3, <3>4, <3>5
  <2>5. Doing'
    BY <1>1 DEF Quit, Doing
  <2>. QED
    BY <1>1, <2>3, <2>4, <2>5 DEF Books, Quit
<1>5. \/ UNCHANGED registry
      \/ \E st \in {"unhealthy", "rollback-unhealthy"} :
           registry' = [registry EXCEPT !.status = st]
  <2>1. CASE command.do = "deploy"
    BY <2>1 DEF GiveUp, Write
  <2>2. CASE command.do = "rollback"
    BY <2>2 DEF GiveUp, Write
  <2>3. CASE command.do \notin {"deploy", "rollback"}
    BY <2>3 DEF GiveUp, Write
  <2>. QED
    BY <2>1, <2>2, <2>3
<1>. QED
  BY <1>3, <1>4, <1>5

\* A checkpoint records that nothing runs, under a status that is not established.
LEMMA CheckpointWrites ==
  ASSUME Books, Checkpoint
  PROVE  /\ registry' \in Registry /\ registry'.active = None
         /\ registry'.status \notin Established
         /\ command.do = "deploy" => /\ registry'.operation = command.commit
                                     /\ registry'.previous = command.previous
         /\ command.do # "deploy" => /\ registry'.operation = registry.operation
                                     /\ registry'.previous = registry.previous
<1>1. command # Idle /\ command.pc = "checkpoint"
  BY DEF Checkpoint, At
<1>2. command.do \in {"deploy", "rollback", "stop"}
  BY <1>1, PlaceTells
<1>3. PICK st : st = Opening
  OBVIOUS
<1>4. st \in Status /\ st \notin Established
  <2>1. CASE command.do = "deploy"
    <3>1. st \in {"restarting", "starting"}
      BY <1>3, <2>1 DEF Opening
    <3>. QED
      BY <3>1 DEF Status, Established
  <2>2. CASE command.do = "rollback"
    BY <1>3, <2>2 DEF Opening, Status, Established
  <2>3. CASE command.do = "stop"
    BY <1>3, <2>3 DEF Opening, Status, Established
  <2>. QED
    BY <1>2, <2>1, <2>2, <2>3
<1>5. CASE command.do = "deploy"
  <2>1. registry' = [status |-> st, operation |-> command.commit, active |-> None,
                     previous |-> command.previous, spec |-> command.spec]
    BY <1>3, <1>5 DEF Checkpoint, Write
  <2>2. /\ command.commit \in Commit \cup {None} /\ command.previous \in Commit \cup {None}
        /\ command.spec \in Spec
    BY <1>1, CommandFacts
  <2>3. registry' \in Registry
    BY <1>4, <2>1, <2>2 DEF Registry
  <2>. QED
    BY <1>4, <1>5, <2>1, <2>3
<1>6. CASE command.do # "deploy"
  <2>1. registry' = [registry EXCEPT !.status = st, !.active = None]
    BY <1>3, <1>6 DEF Checkpoint, Write
  <2>2. registry \in Registry
    BY DEF Books
  <2>3. registry' \in Registry
    BY <1>4, <2>1, <2>2 DEF Registry
  <2>4. /\ registry'.active = None /\ registry'.status = st
        /\ registry'.operation = registry.operation
        /\ registry'.previous = registry.previous
    BY <2>1, <2>2 DEF Registry
  <2>. QED
    BY <1>4, <1>6, <2>3, <2>4
<1>. QED
  BY <1>5, <1>6

\* A checkpoint takes over the commit and the target that deploy had found.
LEMMA BooksCheckpoint ==
  ASSUME Books, Checkpoint
  PROVE  Books'
<1>1. /\ command # Idle /\ command.pc = "checkpoint" /\ UNCHANGED origin /\ UNCHANGED spec
      /\ vouched' = None
      /\ IF command.do = "stop" THEN Quit ELSE Goto("start")
  BY DEF Checkpoint, At, processes, host
<1>2. retreat' = (retreat \/ command.do = "rollback")
  BY DEF Checkpoint
<1>3. command.do \in {"deploy", "rollback", "stop"}
  BY <1>1, PlaceTells
<1>4. Launching /\ DeployDoes /\ RollbackDoes
  BY <1>1 DEF Books, Doing
<1>5. Entries' /\ SettledWasProved' /\ OwnRelease'
  BY CheckpointWrites DEF Entries, SettledWasProved, OwnRelease
<1>6. RollbackGoesElsewhere'
  <2>1. CASE command.do = "deploy"
    BY <1>2, <1>4, <2>1, CheckpointWrites DEF DeployDoes, RollbackGoesElsewhere
  <2>2. CASE command.do # "deploy"
    <3>1. RollbackGoesElsewhere
      BY DEF Books
    <3>. QED
      BY <1>2, <2>2, <3>1, CheckpointWrites DEF RollbackGoesElsewhere
  <2>. QED
    BY <2>1, <2>2
<1>7. command' \in CommandRecord \cup {Idle} /\ Doing'
  <2>1. CASE command.do = "stop"
    BY <1>1, <2>1 DEF Quit, Doing
  <2>2. CASE command.do # "stop"
    <3>1. "start" \in Pc
      BY DEF Pc
    <3>2. Continues("start", command.launch)
      BY <1>1, <2>2, <3>1, GotoContinues
    <3>3. command.launch = None
      BY <1>1, <1>4 DEF Launching
    <3>4. /\ command' \in CommandRecord /\ command'.pc = "start"
          /\ command'.launch = None /\ command'.do = command.do
          /\ command'.commit = command.commit /\ command'.previous = command.previous
      BY <3>2, <3>3 DEF Continues
    <3>5. Launching'
      BY <3>4 DEF Launching
    <3>6. DeployDoes'
      BY <1>2, <1>4, <3>4, CheckpointWrites DEF DeployDoes
    <3>7. RollbackDoes'
      BY <1>2, <1>4, <3>4, CheckpointWrites DEF RollbackDoes
    <3>8. RecoverDoes'
      BY <1>3, <3>4 DEF RecoverDoes
    <3>9. "start" \in Places(command.do)
      BY <1>3, <2>2, <3>1 DEF Places
    <3>10. Doing'
      BY <3>4, <3>5, <3>6, <3>7, <3>8, <3>9 DEF Doing
    <3>. QED
      BY <3>4, <3>10
  <2>. QED
    BY <2>1, <2>2
<1>8. retreat' \in BOOLEAN
  BY <1>2
<1>9. registry' \in Registry
  BY CheckpointWrites
<1>10. spec' \in Spec /\ origin' \in [Launch -> Origin \cup {None}]
       /\ vouched' \in Commit \cup {None}
  BY <1>1 DEF Books
<1>. QED
  BY <1>5, <1>6, <1>7, <1>8, <1>9, <1>10 DEF Books

\* What is started is what the command is for.
LEMMA TargetIs ==
  ASSUME Books, command # Idle, command.pc = "start"
  PROVE  /\ Target \in Commit
         /\ command.do = "deploy"  => Target = command.commit
         /\ command.do = "recover" => Target = CommitOf(registry.active)
<1>1. command.do \in {"deploy", "rollback", "recover"}
  BY PlaceTells
<1>2. CASE command.do = "deploy"
  <2>1. command.commit \in Commit
    BY <1>2 DEF Books, Doing, DeployDoes
  <2>. QED
    BY <1>2, <2>1 DEF Target
<1>3. CASE command.do = "rollback"
  <2>1. registry.previous # None
    BY <1>3 DEF Books, Doing, RollbackDoes
  <2>2. registry.previous \in Commit
    BY <2>1, RegistryFacts
  <2>. QED
    BY <1>3, <2>2 DEF Target
<1>4. CASE command.do = "recover"
  <2>1. registry.active # None
    BY <1>4 DEF Books, Doing, RecoverDoes
  <2>. QED
    BY <1>4, <2>1, RegistryFacts DEF Target
<1>. QED
  BY <1>1, <1>2, <1>3, <1>4

\* A launch as it is started.
LEMMA Started ==
  ASSUME Books, Start
  PROVE  \E l \in Launch :
           /\ Free(l)
           /\ origin' = [origin EXCEPT ![l] = LaunchValues]
           /\ supervisor' = [supervisor EXCEPT ![l] = "up"]
           /\ child' = [child EXCEPT ![l] = "none"]
           /\ thisBoot' = thisBoot \cup {l}
           /\ torn' = torn \ {l}
           /\ Continues("ready", l)
<1>1. command # Idle /\ command \in CommandRecord
  BY CommandFacts DEF Start, At
<1>2. PICK l \in Launch :
        /\ Free(l)
        /\ origin' = [origin EXCEPT ![l] = LaunchValues]
        /\ supervisor' = [supervisor EXCEPT ![l] = "up"]
        /\ child' = [child EXCEPT ![l] = "none"]
        /\ thisBoot' = thisBoot \cup {l}
        /\ torn' = torn \ {l}
        /\ command' = [command EXCEPT !.pc = "ready", !.launch = l]
  BY DEF Start
<1>3. command' \in CommandRecord
  BY <1>1, <1>2 DEF CommandRecord, Pc
<1>4. /\ command'.pc = "ready" /\ command'.launch = l
      /\ command'.do = command.do /\ command'.commit = command.commit
      /\ command'.previous = command.previous
  BY <1>1, <1>2 DEF CommandRecord
<1>5. Continues("ready", l)
  BY <1>3, <1>4 DEF Continues
<1>. QED
  BY <1>2, <1>5

\* A start gives its launch a number that nothing recorded uses.
LEMMA BooksStart ==
  ASSUME Books, Start
  PROVE  Books'
<1>1. PICK l \in Launch :
        Free(l) /\ origin' = [origin EXCEPT ![l] = LaunchValues] /\ Continues("ready", l)
  BY Started
<1>2. /\ command # Idle /\ command.pc = "start"
      /\ UNCHANGED registry /\ UNCHANGED spec /\ UNCHANGED vouched /\ UNCHANGED retreat
  BY DEF Start, At, host, history
<1>3. l # registry.active /\ l # None
  BY <1>1, DeploymentAssumption DEF Free
<1>4. LaunchValues \in Origin /\ LaunchValues.commit = Target
  BY <1>2, CommandFacts, TargetIs DEF LaunchValues, Origin
<1>5. /\ origin \in [Launch -> Origin \cup {None}]
      /\ origin' \in [Launch -> Origin \cup {None}]
      /\ origin'[l] = LaunchValues
      /\ \A k \in Launch : k # l => origin'[k] = origin[k]
  BY <1>1, <1>4 DEF Books
<1>6. registry.active # None => registry.active \in Launch
  BY RegistryFacts
<1>7. registry.active # None => origin'[registry.active] = origin[registry.active]
  BY <1>3, <1>5, <1>6
<1>8. Entries /\ SettledWasProved /\ RollbackGoesElsewhere /\ OwnRelease
  BY DEF Books
<1>9. Entries' /\ SettledWasProved' /\ RollbackGoesElsewhere' /\ OwnRelease'
  <2>1. Entries'
    BY <1>2, <1>7, <1>8 DEF Entries, Entry
  <2>2. SettledWasProved'
    BY <1>2, <1>7, <1>8 DEF SettledWasProved, CommitOf
  <2>3. RollbackGoesElsewhere'
    BY <1>2, <1>8 DEF RollbackGoesElsewhere
  <2>4. OwnRelease'
    BY <1>2, <1>7, <1>8 DEF OwnRelease, CommitOf
  <2>. QED
    BY <2>1, <2>2, <2>3, <2>4
<1>10. /\ command' \in CommandRecord /\ command'.pc = "ready" /\ command'.launch = l
       /\ command'.do = command.do /\ command'.commit = command.commit
       /\ command'.previous = command.previous
  BY <1>1 DEF Continues
<1>11. CommitOf(l)' = Target
  BY <1>4, <1>5 DEF CommitOf
<1>12. DeployDoes /\ RollbackDoes /\ RecoverDoes
  BY <1>2 DEF Books, Doing
<1>13. Launching'
  BY <1>3, <1>4, <1>5, <1>10 DEF Launching, Entry
<1>14. DeployDoes'
  <2>1. command.do = "deploy" => origin'[l].commit = command.commit
    BY <1>2, <1>11, TargetIs DEF CommitOf
  <2>. QED
    BY <1>2, <1>10, <1>12, <2>1 DEF DeployDoes, CommitOf
<1>15. RollbackDoes'
  BY <1>2, <1>10, <1>12 DEF RollbackDoes
<1>16. RecoverDoes'
  <2>1. command.do = "recover" => origin'[l].commit = origin[registry.active].commit
    BY <1>2, <1>11, TargetIs DEF CommitOf
  <2>. QED
    BY <1>2, <1>7, <1>10, <1>12, <2>1 DEF RecoverDoes, CommitOf
<1>17. "ready" \in Places(command.do)
  BY <1>2, PlaceTells DEF Places, Pc
<1>18. Doing'
  BY <1>10, <1>13, <1>14, <1>15, <1>16, <1>17 DEF Doing
<1>19. vouched' \in Commit \cup {None} /\ retreat' \in BOOLEAN /\ spec' \in Spec
       /\ registry' \in Registry
  BY <1>2 DEF Books
<1>. QED
  BY <1>5, <1>9, <1>10, <1>18, <1>19 DEF Books

\* The status a launch is recorded under.
Recorded ==
  CASE command.do = "deploy"   -> "probing"
    [] command.do = "rollback" -> "probing-rollback"
    [] OTHER                   -> registry.status

\* What is recorded of a launch.
LEMMA Records ==
  ASSUME Books, Record
  PROVE  /\ registry' \in Registry /\ registry'.active = command.launch
         /\ registry'.status = Recorded
         /\ registry'.operation = registry.operation
         /\ registry'.previous = registry.previous
<1>1. command # Idle /\ command.pc = "ready"
  BY DEF Record, At
<1>2. registry \in Registry /\ registry.status \in Status
  BY RegistryFacts
<1>3. PICK st : st = Recorded
  OBVIOUS
<1>4. st \in Status
  <2>1. CASE command.do = "deploy"
    BY <1>3, <2>1 DEF Recorded, Status
  <2>2. CASE command.do = "rollback"
    BY <1>3, <2>2 DEF Recorded, Status
  <2>3. CASE command.do \notin {"deploy", "rollback"}
    BY <1>2, <1>3, <2>3 DEF Recorded
  <2>. QED
    BY <2>1, <2>2, <2>3
<1>5. command.launch \in Launch
  BY <1>1 DEF Books, Doing, Launching, Entry
<1>6. registry' = [registry EXCEPT !.active = command.launch, !.status = st]
  <2>1. CASE command.do = "deploy"
    BY <1>3, <2>1 DEF Record, Write, Recorded
  <2>2. CASE command.do = "rollback"
    BY <1>3, <2>2 DEF Record, Write, Recorded
  <2>3. CASE command.do \notin {"deploy", "rollback"}
    BY <1>3, <2>3 DEF Record, Write, Recorded
  <2>. QED
    BY <2>1, <2>2, <2>3
<1>7. registry' \in Registry
  BY <1>2, <1>4, <1>5, <1>6 DEF Registry
<1>8. /\ registry'.active = command.launch /\ registry'.status = st
      /\ registry'.operation = registry.operation
      /\ registry'.previous = registry.previous
  BY <1>2, <1>6 DEF Registry
<1>. QED
  BY <1>3, <1>7, <1>8

\* A recorded launch is of the commit that the status is about.
LEMMA BooksRecord ==
  ASSUME Books, Record
  PROVE  Books'
<1>1. /\ command # Idle /\ command.pc = "ready" /\ Goto("probe")
      /\ UNCHANGED origin /\ UNCHANGED spec /\ UNCHANGED vouched /\ UNCHANGED retreat
  BY DEF Record, At, processes, host, history
<1>2. /\ registry' \in Registry /\ registry'.active = command.launch
      /\ registry'.status = Recorded
      /\ registry'.operation = registry.operation /\ registry'.previous = registry.previous
  BY Records
<1>3. command.do \in {"deploy", "rollback", "recover"}
  BY <1>1, PlaceTells
<1>4. Launching /\ DeployDoes /\ RollbackDoes /\ RecoverDoes
  BY <1>1 DEF Books, Doing
<1>5. command.launch # None /\ Entry(command.launch)
  BY <1>1, <1>4 DEF Launching
<1>6. SettledWasProved /\ RollbackGoesElsewhere /\ OwnRelease
  BY DEF Books
<1>7. Entries'
  BY <1>1, <1>2, <1>5 DEF Entries, Entry
<1>8. SettledWasProved'
  <2>1. CASE command.do = "recover"
    <3>1. registry'.status = registry.status
      BY <1>2, <2>1 DEF Recorded
    <3>2. CommitOf(command.launch) = CommitOf(registry.active)
      BY <1>1, <1>4, <2>1 DEF RecoverDoes
    <3>. QED
      BY <1>1, <1>2, <1>5, <1>6, <3>1, <3>2 DEF SettledWasProved, CommitOf
  <2>2. CASE command.do # "recover"
    <3>1. registry'.status \notin Established
      BY <1>2, <1>3, <2>2 DEF Recorded, Established
    <3>. QED
      BY <3>1 DEF SettledWasProved
  <2>. QED
    BY <2>1, <2>2
<1>9. RollbackGoesElsewhere'
  BY <1>1, <1>2, <1>6 DEF RollbackGoesElsewhere
<1>10. OwnRelease'
  <2>1. CASE command.do = "deploy"
    BY <1>1, <1>2, <1>4, <2>1 DEF OwnRelease, DeployDoes, CommitOf
  <2>2. CASE command.do = "rollback"
    BY <1>1, <1>4, <2>2 DEF OwnRelease, RollbackDoes
  <2>3. CASE command.do = "recover"
    BY <1>1, <1>2, <1>4, <1>6, <2>3 DEF OwnRelease, RecoverDoes, CommitOf
  <2>. QED
    BY <1>3, <2>1, <2>2, <2>3
<1>11. "probe" \in Pc /\ "probe" \in Places(command.do)
  BY <1>3 DEF Places, Pc
<1>12. /\ command' \in CommandRecord /\ command'.pc = "probe"
       /\ command'.launch = command.launch /\ command'.do = command.do
       /\ command'.commit = command.commit /\ command'.previous = command.previous
  BY <1>1, <1>11, GotoContinues DEF Continues
<1>13. Launching'
  BY <1>1, <1>2, <1>5, <1>12 DEF Launching, Entry
<1>14. DeployDoes' /\ RollbackDoes' /\ RecoverDoes'
  BY <1>1, <1>2, <1>4, <1>5, <1>12 DEF DeployDoes, RollbackDoes, RecoverDoes
<1>15. Doing'
  BY <1>11, <1>12, <1>13, <1>14 DEF Doing
<1>16. /\ vouched' \in Commit \cup {None} /\ retreat' \in BOOLEAN /\ spec' \in Spec
       /\ origin' \in [Launch -> Origin \cup {None}]
  BY <1>1 DEF Books
<1>. QED
  BY <1>2, <1>7, <1>8, <1>9, <1>10, <1>12, <1>15, <1>16 DEF Books

\* A probe vouches for the commit that it leaves established.
LEMMA BooksProbePasses ==
  ASSUME Books, ProbePasses
  PROVE  Books'
<1>1. /\ command # Idle /\ command.pc = "probe" /\ Quit
      /\ UNCHANGED origin /\ UNCHANGED spec
      /\ vouched' = CommitOf(command.launch)
      /\ registry' = Settled \/ (command.do # "rollback" /\ UNCHANGED registry)
  <2>1. registry' = Settled \/ (command.do # "rollback" /\ UNCHANGED registry)
    BY DEF ProbePasses, Write
  <2>. QED
    BY <2>1 DEF ProbePasses, At, processes, host
<1>2. retreat' = (retreat /\ command.do # "rollback")
  BY DEF ProbePasses
<1>3. /\ command.launch # None /\ Entry(command.launch)
      /\ command.launch = registry.active
  BY <1>1 DEF Books, Doing, Launching
<1>4. registry \in Registry
  BY DEF Books
<1>5. /\ registry' \in Registry /\ registry'.active = registry.active
      /\ registry'.operation = registry.operation
      /\ command.do = "rollback" => registry'.previous = None
      /\ command.do # "rollback" => registry'.previous = registry.previous
  <2>1. CASE UNCHANGED registry /\ command.do # "rollback"
    BY <1>4, <2>1
  <2>2. CASE registry' = Settled /\ command.do = "rollback"
    <3>1. registry' = [registry EXCEPT !.status = "rolled-back", !.previous = None]
      BY <2>2 DEF Settled
    <3>2. registry' \in Registry
      BY <1>4, <3>1 DEF Registry, Status, Established
    <3>. QED
      BY <1>4, <2>2, <3>1, <3>2 DEF Registry
  <2>3. CASE registry' = Settled /\ command.do = "recover"
    BY <1>4, <2>3 DEF Settled
  <2>4. CASE registry' = Settled /\ command.do \notin {"rollback", "recover"}
    <3>1. registry' = [registry EXCEPT !.status = "healthy"]
      BY <2>4 DEF Settled
    <3>2. "healthy" \in Status
      BY DEF Status, Established
    <3>. QED
      BY <1>4, <2>4, <3>1, <3>2, RegistryUpdates
  <2>. QED
    BY <1>1, <2>1, <2>2, <2>3, <2>4
<1>6. Entries'
  BY <1>1, <1>3, <1>5 DEF Entries, Entry
<1>7. SettledWasProved'
  BY <1>1, <1>3, <1>5 DEF SettledWasProved, CommitOf
<1>8. RollbackGoesElsewhere' /\ OwnRelease'
  <2>1. CASE command.do = "rollback"
    BY <1>5, <2>1 DEF RollbackGoesElsewhere, OwnRelease
  <2>2. CASE command.do # "rollback"
    <3>1. RollbackGoesElsewhere /\ OwnRelease
      BY DEF Books
    <3>2. RollbackGoesElsewhere'
      BY <1>2, <1>5, <2>2, <3>1 DEF RollbackGoesElsewhere
    <3>3. OwnRelease'
      BY <1>1, <1>2, <1>5, <2>2, <3>1 DEF OwnRelease, CommitOf
    <3>. QED
      BY <3>2, <3>3
  <2>. QED
    BY <2>1, <2>2
<1>9. Doing'
  BY <1>1 DEF Doing, Quit
<1>10. vouched' \in Commit \cup {None}
  BY <1>1, <1>3, RegistryFacts
<1>11. retreat' \in BOOLEAN
  BY <1>2
<1>12. spec' \in Spec /\ origin' \in [Launch -> Origin \cup {None}]
  BY <1>1 DEF Books
<1>. QED
  BY <1>1, <1>5, <1>6, <1>7, <1>8, <1>9, <1>10, <1>11, <1>12 DEF Books, Quit

\* The steps of a command that write nothing.
LEMMA BooksCommand ==
  ASSUME Books, CommandStep
  PROVE  Books'
<1>1. spec \in Spec
  BY DEF Books
<1>2. \A pc \in Pc : pc \in Places("deploy")
  BY DEF Places
<1>3. ASSUME PublishManifest PROVE Books'
  <2>1. command # Idle /\ command.pc = "manifest" /\ Goto("decide") /\ BooksAlone
    BY <1>1, <1>3 DEF PublishManifest, At, BooksAlone, processes, host, history
  <2>2. command.do = "deploy" /\ "decide" \in Pc
    BY <2>1, PlaceTells DEF Pc
  <2>3. command.launch = None
    BY <2>1 DEF Books, Doing, Launching
  <2>4. Continues("decide", command.launch)
    BY <2>1, <2>2, GotoContinues
  <2>. QED
    BY <1>2, <2>1, <2>2, <2>3, <2>4, BooksGoOn
<1>4. ASSUME Decide PROVE Books'
  <2>1. /\ command # Idle /\ command.pc = "decide" /\ BooksAlone
        /\ command' = Deploying(command)
    BY <1>1, <1>4 DEF Decide, At, BooksAlone, processes, host, history
  <2>2. command.do = "deploy" /\ command \in CommandRecord
    BY <2>1, PlaceTells, CommandFacts
  <2>3. Launching /\ DeployDoes
    BY <2>1 DEF Books, Doing
  <2>4. command.launch = None /\ command.commit \in Commit
    BY <2>1, <2>2, <2>3 DEF Launching, DeployDoes
  <2>. QED
    BY <2>1, <2>2, <2>4, BooksDeploying
<1>5. ASSUME Reprobe PROVE Books'
  <2>1. command # Idle /\ command.pc = "reprobe" /\ (Quit \/ Goto("stop")) /\ BooksAlone
    BY <1>1, <1>5 DEF Reprobe, At, BooksAlone, processes, host, history, Fault
  <2>2. command.do \in {"deploy", "recover"} /\ "stop" \in Pc
    BY <2>1, PlaceTells DEF Pc
  <2>3. command.launch = None /\ registry.active # None
    BY <2>1 DEF Books, Doing, Launching
  <2>4. "stop" \in Places(command.do)
    BY <2>2 DEF Places
  <2>. QED
    BY <2>1, <2>2, <2>3, <2>4, GotoContinues, BooksQuit, BooksGoOn
<1>6. ASSUME Stop PROVE Books'
  <2>1. /\ command # Idle /\ command.pc = "stop"
        /\ Quit \/ Goto(AfterStop) \/ UNCHANGED command
        /\ BooksAlone
    BY <1>1, <1>6 DEF Stop, StopChild, At, BooksAlone, processes, host, history,
                      StopRefused, Fault
  <2>2. command.do \in {"deploy", "rollback", "stop", "recover"}
    BY <2>1, PlaceTells
  <2>3. command.launch = None
    BY <2>1 DEF Books, Doing, Launching
  <2>4. CASE Goto(AfterStop)
    <3>1. CASE command.do = "recover"
      <4>1. AfterStop = "start" /\ "start" \in Pc /\ "start" \in Places(command.do)
        BY <3>1 DEF AfterStop, Places, Pc
      <4>. QED
        BY <2>1, <2>3, <2>4, <3>1, <4>1, GotoContinues, BooksGoOn
    <3>2. CASE command.do # "recover"
      <4>1. /\ AfterStop = "checkpoint" /\ "checkpoint" \in Pc
            /\ "checkpoint" \in Places(command.do)
        BY <2>2, <3>2 DEF AfterStop, Places, Pc
      <4>. QED
        BY <2>1, <2>3, <2>4, <4>1, GotoContinues, BooksGoOn
    <3>. QED
      BY <3>1, <3>2
  <2>. QED
    BY <2>1, <2>4, BooksQuit, BooksStand
<1>7. ASSUME StartTimesOut PROVE Books'
  <2>1. command # Idle /\ GiveUp /\ UNCHANGED <<origin, vouched, retreat>> /\ UNCHANGED spec
    BY <1>7 DEF StartTimesOut, At, Fault, host, history
  <2>. QED
    BY <1>1, <2>1, BooksGiveUp
<1>8. ASSUME StartRefused PROVE Books'
  <2>1. command # Idle /\ command.pc = "ready" /\ Goto("undo") /\ BooksAlone
    BY <1>1, <1>8 DEF StartRefused, At, BooksAlone, processes, host, history, Fault
  <2>2. command.do \in {"deploy", "rollback", "recover"} /\ "undo" \in Pc
    BY <2>1, PlaceTells DEF Pc
  <2>3. Launching /\ RollbackDoes
    BY <2>1 DEF Books, Doing
  <2>4. command.launch # None /\ (command.do # "rollback" \/ retreat)
    BY <2>1, <2>3 DEF Launching, RollbackDoes
  <2>5. "undo" \in Places(command.do)
    BY <2>2 DEF Places
  <2>. QED
    BY <2>1, <2>2, <2>4, <2>5, GotoContinues, BooksGoOn
<1>9. ASSUME Undo PROVE Books'
  <2>1. command # Idle /\ UNCHANGED <<origin, vouched, retreat>> /\ UNCHANGED spec
    BY <1>9 DEF Undo, At, StopChild, StopRefused, Fault, host, history, processes
  <2>2. GiveUp \/ (UNCHANGED registry /\ UNCHANGED command)
    BY <1>9 DEF Undo, StopChild
  <2>. QED
    BY <1>1, <2>1, <2>2, BooksGiveUp, BooksStand DEF BooksAlone
<1>10. ASSUME ProbeFails PROVE Books'
  <2>1. /\ command # Idle /\ command.pc = "probe"
        /\ UNCHANGED <<origin, vouched, retreat>> /\ UNCHANGED spec
        /\ GiveUp \/ (Goto("undo") /\ UNCHANGED registry /\ command.do = "recover")
    BY <1>10 DEF ProbeFails, At, Fault, host, history, processes
  <2>2. "undo" \in Pc /\ "undo" \in Places("recover")
    BY DEF Pc, Places
  <2>3. command.launch # None
    BY <2>1 DEF Books, Doing, Launching
  <2>4. CASE GiveUp
    BY <1>1, <2>1, <2>4, BooksGiveUp
  <2>5. CASE Goto("undo") /\ UNCHANGED registry /\ command.do = "recover"
    <3>1. Continues("undo", command.launch)
      BY <2>1, <2>2, <2>5, GotoContinues
    <3>2. BooksAlone
      BY <1>1, <2>1, <2>5 DEF BooksAlone
    <3>. QED
      BY <2>1, <2>2, <2>3, <2>5, <3>1, <3>2, BooksGoOn
  <2>. QED
    BY <2>1, <2>4, <2>5
<1>. QED
  BY <1>3, <1>4, <1>5, <1>6, <1>7, <1>8, <1>9, <1>10, BooksCheckpoint, BooksStart,
     BooksRecord, BooksProbePasses DEF CommandStep

\* Every step keeps the books.
LEMMA BooksNext ==
  ASSUME Books, [DeploymentNext]_vars
  PROVE  Books'
<1>1. spec \in Spec
  BY DEF Books
<1>2. ASSUME NEW l \in Launch, ProcessStep(l) PROVE Books'
  <2>1. BooksAlone /\ UNCHANGED command
    BY <1>1, <1>2 DEF ProcessStep, Spawn, Announce, SupervisorEnds, Serve, AddressInUse,
                      BooksAlone, host, history
  <2>. QED
    BY <2>1, BooksStand
<1>3. ASSUME Disturbance PROVE Books'
  <2>1. BooksAlone /\ (Quit \/ UNCHANGED command)
    BY <1>1, <1>3 DEF Disturbance, Die, Reboot, EditSpec, Crash, KillSupervisor, ReusePid,
                      Damage, BooksAlone, Fault, processes, history
  <2>. QED
    BY <2>1, BooksStand, BooksQuit
<1>4. ASSUME \/ \E c \in Commit : \/ Materialize(c) \/ Deploy(c) \/ Health(c)
                                  \/ Rollback(c) \/ StopCommand(c)
             \/ Recover
      PROVE  Books'
  <2>1. command = Idle
    BY <1>4 DEF Materialize, Deploy, Health, Rollback, StopCommand, Recover, Begin
  <2>2. BooksAlone
    BY <1>1, <1>4 DEF Materialize, Deploy, Health, Rollback, StopCommand, Recover, Begin,
                      BooksAlone, processes, host, history
  <2>. QED
    BY <1>4, <2>1, <2>2, BooksLocked
<1>5. CASE UNCHANGED vars
  BY <1>1, <1>5, BooksStand DEF vars, BooksAlone
<1>. QED
  BY <1>2, <1>3, <1>4, <1>5, BooksCommand DEF DeploymentNext

-----------------------------------------------------------------------------
\* A step that starts nothing and loses nobody.
Fades ==
  /\ Machines' /\ UNCHANGED thisBoot /\ torn \subseteq torn'
  /\ \A l \in Launch : (MayRun(l)' => MayRun(l)) /\ (Dead(l) => Dead(l)')

\* A dead launch does not run, and nothing will bring it back.
LEMMA DeadStays == \A l : Dead(l) => ~MayRun(l)
BY DEF Dead, OneLive, MayRun

\* Where nothing is started, what runs still belongs to somebody.
LEMMA LifeFades ==
  ASSUME Life, Fades, registry'.active = registry.active, Cleared',
         \A l \in Launch : MayRun(l)' /\ l \notin torn' /\ Owned(l) => Owned(l)'
  PROVE  Life'
<1>1. \A l \in Launch : l \notin thisBoot' => Dead(l)'
  BY DEF Life, Fades
<1>2. \A l \in Launch : MayRun(l)' /\ l \notin torn' => Owned(l)'
  BY DEF Life, Fades
<1>. QED
  BY <1>1, <1>2 DEF Life, Fades

\* Nothing of the processes changes, except that some are given up for lost.
LEMMA Untouched ==
  ASSUME Life, UNCHANGED <<supervisor, child, thisBoot>>, torn \subseteq torn',
         torn' \subseteq Launch
  PROVE  Fades
<1>1. Machines'
  BY DEF Life, Machines
<1>2. \A l \in Launch : MayRun(l)' = MayRun(l) /\ Dead(l)' = Dead(l)
  BY DEF MayRun, Dead, OneLive, Alive
<1>. QED
  BY <1>1, <1>2 DEF Fades

\* The processes go their own way.
LEMMA LifeProcesses ==
  ASSUME Books, Life, Fades, UNCHANGED <<registry, command>>
  PROVE  Life'
<1>1. \A l \in Launch : Owned(l)' = Owned(l)
  BY DEF Owned
<1>2. Cleared'
  <2>1. registry.active # None => registry.active \in Launch
    BY RegistryFacts
  <2>2. registry.active # None /\ Dead(registry.active) => Dead(registry.active)'
    BY <2>1 DEF Fades
  <2>. QED
    BY <2>2 DEF Life, Cleared, Dead, OneLive, Alive
<1>. QED
  BY <1>1, <1>2, LifeFades

\* A process that ends.
LEMMA ChildEnds ==
  ASSUME Life, NEW l, EndChild(l), UNCHANGED <<supervisor, thisBoot>>,
         torn \subseteq torn', torn' \subseteq Launch
  PROVE  Fades
<1>1. /\ supervisor \in [Launch -> Process] /\ child \in [Launch -> Application]
      /\ thisBoot \subseteq Launch
  BY DEF Life, Machines
<1>2. child' = [child EXCEPT ![l] = "down"]
  BY DEF EndChild
<1>3. child' \in [Launch -> Application]
  BY <1>1, <1>2 DEF Application, Process
<1>4. \A k \in Launch : child'[k] \in {child[k], "down"}
  BY <1>1, <1>2
<1>5. \A k \in Launch : (MayRun(k)' => MayRun(k)) /\ (Dead(k) => Dead(k)')
  BY <1>4 DEF MayRun, Dead, OneLive, Alive
<1>. QED
  BY <1>1, <1>3, <1>5 DEF Fades, Machines

\* A supervisor that ends.
LEMMA SupervisorGoes ==
  ASSUME Life, NEW l, supervisor' = [supervisor EXCEPT ![l] = "down"],
         UNCHANGED <<child, thisBoot>>, torn \subseteq torn', torn' \subseteq Launch
  PROVE  Fades
<1>1. /\ supervisor \in [Launch -> Process] /\ child \in [Launch -> Application]
      /\ thisBoot \subseteq Launch
  BY DEF Life, Machines
<1>2. supervisor' \in [Launch -> Process]
  BY <1>1 DEF Process
<1>3. \A k \in Launch : supervisor'[k] \in {supervisor[k], "down"}
  BY <1>1
<1>4. \A k \in Launch : (MayRun(k)' => MayRun(k)) /\ (Dead(k) => Dead(k)')
  BY <1>3 DEF MayRun, Dead, OneLive, Alive
<1>. QED
  BY <1>1, <1>2, <1>4 DEF Fades, Machines

\* A child that is started, or announced, was on its way already.
LEMMA ChildMoves ==
  ASSUME Life, NEW l \in Launch, NEW phase \in {"early", "up", "taken"},
         child' = [child EXCEPT ![l] = phase],
         \/ phase = "taken"
         \/ supervisor[l] = "up" /\ child[l] \in {"none", "early"},
         UNCHANGED <<supervisor, thisBoot, torn>>
  PROVE  Fades
<1>1. /\ supervisor \in [Launch -> Process] /\ child \in [Launch -> Application]
      /\ thisBoot \subseteq Launch /\ torn \subseteq Launch
  BY DEF Life, Machines
<1>2. child' \in [Launch -> Application]
  BY <1>1 DEF Application, Process
<1>3. child'[l] = phase /\ \A k \in Launch : k # l => child'[k] = child[k]
  BY <1>1
<1>4. \A k \in Launch : k # l => MayRun(k)' = MayRun(k) /\ Dead(k)' = Dead(k)
  BY <1>3 DEF MayRun, Dead, OneLive, Alive
<1>5. (MayRun(l)' => MayRun(l)) /\ (Dead(l) => Dead(l)')
  BY <1>3 DEF MayRun, Dead, OneLive, Alive
<1>. QED
  BY <1>1, <1>2, <1>4, <1>5 DEF Fades, Machines

\* Supervisors and applications go on, whatever the command does.
LEMMA LifeProcessStep ==
  ASSUME Books, Life, NEW l \in Launch,
         \/ ProcessStep(l) \/ StopChild(l) \/ Crash(l) \/ KillSupervisor(l) \/ ReusePid(l)
  PROVE  Life'
<1>1. UNCHANGED <<registry, command>> /\ UNCHANGED thisBoot /\ UNCHANGED torn
  BY DEF ProcessStep, Spawn, Announce, SupervisorEnds, Serve, AddressInUse, StopChild, Crash,
         KillSupervisor, ReusePid
<1>2. torn \subseteq Launch
  BY DEF Life, Machines
<1>3. Fades
  <2>1. CASE Spawn(l)
    BY <1>1, <2>1, ChildMoves DEF Spawn
  <2>2. CASE Announce(l)
    BY <1>1, <2>2, ChildMoves DEF Announce
  <2>3. CASE SupervisorEnds(l) \/ KillSupervisor(l)
    BY <1>1, <1>2, <2>3, SupervisorGoes DEF SupervisorEnds, KillSupervisor
  <2>4. CASE Serve(l)
    BY <1>1, <1>2, <2>4, Untouched DEF Serve
  <2>5. CASE AddressInUse(l) \/ StopChild(l) \/ Crash(l)
    BY <1>1, <1>2, <2>5, ChildEnds DEF AddressInUse, StopChild, Crash
  <2>6. CASE ReusePid(l)
    BY <1>1, <2>6, ChildMoves DEF ReusePid
  <2>. QED
    BY <2>1, <2>2, <2>3, <2>4, <2>5, <2>6 DEF ProcessStep
<1>. QED
  BY <1>1, <1>3, LifeProcesses

\* A command ends.  What it had in hand is dead, recorded or given up for lost.
LEMMA LifeQuit ==
  ASSUME Life, Fades, Quit, registry'.active = registry.active,
         command # Idle => \A l \in Launch :
           l = command.launch => l = registry.active \/ l \in torn' \/ ~MayRun(l)'
  PROVE  Life'
<1>1. ASSUME NEW l \in Launch, MayRun(l)', l \notin torn', Owned(l) PROVE Owned(l)'
  <2>1. l = registry.active
    BY <1>1, DeploymentAssumption DEF Owned
  <2>. QED
    BY <2>1 DEF Owned
<1>2. Cleared'
  BY DEF Cleared, Quit
<1>. QED
  BY <1>1, <1>2, LifeFades

\* A command goes on with what it has in hand, or with nothing yet.
LEMMA LifeGoOn ==
  ASSUME Books, Life, UNCHANGED <<supervisor, child, thisBoot, torn, registry>>,
         command' # Idle,
         command # Idle /\ command.launch # None => command'.launch = command.launch,
         registry.active # None =>
           \/ command'.pc \notin {"checkpoint", "start", "ready", "undo"}
           \/ command'.pc = "undo" /\ command'.launch = registry.active
           \/ Dead(registry.active)
  PROVE  Life'
<1>1. Fades
  BY Untouched DEF Life, Machines
<1>2. ASSUME NEW l \in Launch, Owned(l) PROVE Owned(l)'
  <2>1. l = registry.active \/ (command # Idle /\ l = command.launch /\ command.launch # None)
    BY <1>2, DeploymentAssumption DEF Owned
  <2>. QED
    BY <2>1 DEF Owned
<1>3. Cleared'
  <2>1. \A l : Dead(l) => Dead(l)'
    BY DEF Dead, OneLive, Alive
  <2>2. registry' = registry
    OBVIOUS
  <2>3. registry.active # None /\ Dead(registry.active) => Dead(registry.active)'
    BY <2>2 DEF Dead, OneLive, Alive
  <2>. QED
    BY <2>2, <2>3 DEF Cleared
<1>. QED
  BY <1>1, <1>2, <1>3, LifeFades

-----------------------------------------------------------------------------
\* A launch that is not of the present boot is dead, so what can be restarted is.
LEMMA RestartIsDead ==
  ASSUME Books, Life, registry.active # None,
         Check(registry.active) = "restart" \/ ~SameBoot(registry.active)
  PROVE  Dead(registry.active)
<1>1. registry.active \in Launch
  BY RegistryFacts
<1>2. ~SameBoot(registry.active) => Dead(registry.active)
  BY <1>1 DEF SameBoot, Life
<1>3. SameBoot(registry.active) /\ Check(registry.active) = "restart" => Dead(registry.active)
  BY DEF Check, Dead
<1>. QED
  BY <1>2, <1>3

\* A command goes to its checkpoint, or to its start, over a dead launch only.
LEMMA LifeBegin ==
  ASSUME Books, Life, Books',
         \/ \E c \in Commit : \/ Materialize(c) \/ Deploy(c) \/ Health(c)
                              \/ Rollback(c) \/ StopCommand(c)
         \/ Recover \/ Decide
  PROVE  Life'
<1>1. UNCHANGED <<supervisor, child, thisBoot, torn, registry>>
  BY DEF Materialize, Deploy, Health, Rollback, StopCommand, Recover, Begin, Decide, processes
<1>2. command # Idle => command.launch = None
  <2>1. command # Idle => command.pc = "decide"
    BY DEF Materialize, Deploy, Health, Rollback, StopCommand, Recover, Begin, Decide, At
  <2>. QED
    BY <2>1 DEF Books, Doing, Launching
<1>3. CASE command' = Idle
  <2>1. Fades
    BY <1>1, Untouched DEF Life, Machines
  <2>. QED
    BY <1>1, <1>2, <1>3, <2>1, LifeQuit, DeploymentAssumption DEF Quit
<1>4. CASE command' # Idle /\ command'.pc \in {"manifest", "probe", "reprobe", "stop"}
  BY <1>1, <1>2, <1>4, LifeGoOn
<1>5. CASE registry.active = None /\ command' # Idle
  BY <1>1, <1>2, <1>5, LifeGoOn
<1>6. CASE command' # Idle /\ registry.active # None /\ Dead(registry.active)
  BY <1>1, <1>2, <1>6, LifeGoOn
<1>7. ASSUME NEW r \in CommandRecord, r.commit \in Commit, command' = Deploying(r),
             command' # Idle, registry.active # None
      PROVE  \/ command'.pc \in {"manifest", "probe", "reprobe", "stop"}
             \/ Dead(registry.active)
  <2>1. Goal(r, command')
    BY <1>7, DeployingGoal
  <2>. QED
    BY <1>7, <2>1, RestartIsDead DEF Goal
<1>8. ASSUME command' # Idle, registry.active # None
      PROVE  \/ command'.pc \in {"manifest", "probe", "reprobe", "stop"}
             \/ Dead(registry.active)
  <2>1. CASE \E c \in Commit : Materialize(c)
    <3>1. \E c \in Commit : command' = Run("deploy", c, "manifest")
      BY <2>1 DEF Materialize
    <3>. QED
      BY <3>1, RunFacts DEF Pc
  <2>2. CASE \E c \in Commit : Deploy(c)
    <3>1. PICK c \in Commit : command' = Deploying(Run("deploy", c, "decide"))
      BY <2>2 DEF Deploy, Begin
    <3>2. PICK r : r = Run("deploy", c, "decide")
      OBVIOUS
    <3>3. r \in CommandRecord /\ r.commit = c
      BY <3>2, RunFacts DEF Pc
    <3>. QED
      BY <1>7, <1>8, <3>1, <3>2, <3>3
  <2>3. CASE \E c \in Commit : Health(c)
    <3>1. PICK c \in Commit : Health(c)
      BY <2>3
    <3>2. PICK r : r = Run("health", c, "probe")
      OBVIOUS
    <3>3. r \in CommandRecord /\ r.pc = "probe"
      BY <3>2, RunFacts DEF Pc
    <3>4. command' = [r EXCEPT !.launch = registry.active]
      BY <3>1, <3>2 DEF Health, Begin
    <3>5. command'.pc = "probe"
      BY <3>3, <3>4 DEF CommandRecord
    <3>. QED
      BY <3>5
  <2>4. CASE \E c \in Commit : Rollback(c)
    <3>1. \E c \in Commit : command' = Run("rollback", c, "stop")
      BY <1>8, <2>4 DEF Rollback, Begin
    <3>. QED
      BY <3>1, RunFacts DEF Pc
  <2>5. CASE \E c \in Commit : StopCommand(c)
    <3>1. \E c \in Commit : command' = Run("stop", c, "stop")
      BY <2>5 DEF StopCommand, Begin
    <3>. QED
      BY <3>1, RunFacts DEF Pc
  <2>6. CASE Recover
    <3>1. PICK pc : pc = IF Check(registry.active) = "restart" THEN "start"
                         ELSE Check(registry.active)
      OBVIOUS
    <3>2. command' = Run("recover", None, pc) /\ Check(registry.active) # "refuse"
      BY <2>6, <3>1 DEF Recover, Begin
    <3>3. CASE Check(registry.active) = "restart"
      BY <1>8, <3>3, RestartIsDead
    <3>4. CASE Check(registry.active) # "restart"
      <4>1. pc \in {"reprobe", "stop"}
        BY <3>1, <3>2, <3>4 DEF Check
      <4>2. pc \in Pc
        BY <4>1 DEF Pc
      <4>3. command'.pc = pc
        BY <3>2, <4>2, RunFacts
      <4>. QED
        BY <4>1, <4>3
    <3>. QED
      BY <3>3, <3>4
  <2>7. CASE Decide
    <3>1. command # Idle /\ command.pc = "decide" /\ command' = Deploying(command)
      BY <2>7 DEF Decide, At
    <3>2. command \in CommandRecord /\ command.do = "deploy"
      BY <3>1, CommandFacts, PlaceTells
    <3>3. command.commit \in Commit
      BY <3>1, <3>2 DEF Books, Doing, DeployDoes
    <3>. QED
      BY <1>7, <1>8, <3>1, <3>2, <3>3
  <2>. QED
    BY <2>1, <2>2, <2>3, <2>4, <2>5, <2>6, <2>7
<1>. QED
  BY <1>3, <1>4, <1>5, <1>6, <1>8

-----------------------------------------------------------------------------
\* Giving up leaves what is recorded.
LEMMA GiveUpKeepsActive ==
  ASSUME Books, GiveUp
  PROVE  registry'.active = registry.active
<1>1. registry \in Registry
  BY DEF Books
<1>2. CASE command.do = "deploy"
  BY <1>1, <1>2 DEF GiveUp, Write, Registry
<1>3. CASE command.do = "rollback"
  BY <1>1, <1>3 DEF GiveUp, Write, Registry
<1>4. CASE command.do \notin {"deploy", "rollback"}
  BY <1>4 DEF GiveUp, Write
<1>. QED
  BY <1>2, <1>3, <1>4

\* Before a command starts a launch, nothing runs that is not lost.
LEMMA NothingRuns ==
  ASSUME Books, Life, command # Idle, command.pc \in {"checkpoint", "start"},
         NEW l \in Launch, l \notin torn
  PROVE  ~MayRun(l)
<1>1. command.launch = None
  BY DEF Books, Doing, Launching
<1>2. MayRun(l) => l = registry.active
  BY <1>1, DeploymentAssumption DEF Life, Owned
<1>3. registry.active # None => Dead(registry.active)
  BY DEF Life, Cleared
<1>. QED
  BY <1>2, <1>3, DeadStays, DeploymentAssumption

\* What a checkpoint forgets is dead.
LEMMA LifeCheckpoint ==
  ASSUME Books, Life, Checkpoint
  PROVE  Life'
<1>1. /\ command # Idle /\ command.pc = "checkpoint"
      /\ UNCHANGED supervisor /\ UNCHANGED child /\ UNCHANGED thisBoot /\ UNCHANGED torn
  BY DEF Checkpoint, At, processes
<1>2. Machines' /\ \A l \in Launch : l \notin thisBoot' => Dead(l)'
  BY <1>1 DEF Life, Machines, Dead, OneLive, Alive
<1>3. \A l \in Launch : l \notin torn' => ~MayRun(l)'
  BY <1>1, NothingRuns DEF MayRun, Alive
<1>4. Cleared'
  BY CheckpointWrites DEF Cleared
<1>. QED
  BY <1>2, <1>3, <1>4 DEF Life

\* A launch is started beside dead ones.
LEMMA LifeStart ==
  ASSUME Books, Life, Start
  PROVE  Life'
<1>1. /\ command # Idle /\ command.pc = "start" /\ UNCHANGED registry
  BY DEF Start, At
<1>2. PICK l \in Launch :
        /\ Free(l)
        /\ supervisor' = [supervisor EXCEPT ![l] = "up"]
        /\ child' = [child EXCEPT ![l] = "none"]
        /\ thisBoot' = thisBoot \cup {l}
        /\ torn' = torn \ {l}
        /\ Continues("ready", l)
  BY Started
<1>3. /\ supervisor \in [Launch -> Process] /\ child \in [Launch -> Application]
      /\ thisBoot \subseteq Launch /\ torn \subseteq Launch
  BY DEF Life, Machines
<1>4. Machines'
  BY <1>2, <1>3 DEF Machines, Process, Application
<1>5. ASSUME NEW k \in Launch, k # l
      PROVE  MayRun(k)' = MayRun(k) /\ Dead(k)' = Dead(k)
  <2>1. supervisor'[k] = supervisor[k] /\ child'[k] = child[k]
    BY <1>2, <1>3, <1>5
  <2>. QED
    BY <2>1 DEF MayRun, Dead, OneLive, Alive
<1>6. \A k \in Launch : k \notin thisBoot' => Dead(k)'
  BY <1>2, <1>5 DEF Life
<1>7. command' # Idle /\ command'.launch = l
  BY <1>2, NotIdle DEF Continues
<1>8. \A k \in Launch : MayRun(k)' /\ k \notin torn' => Owned(k)'
  <2>1. Owned(l)'
    BY <1>7 DEF Owned
  <2>2. ASSUME NEW k \in Launch, k # l, k \notin torn' PROVE ~MayRun(k)'
    BY <1>1, <1>2, <1>5, <2>2, NothingRuns
  <2>. QED
    BY <2>1, <2>2
<1>9. Cleared'
  <2>1. registry.active # None => registry.active \in Launch /\ registry.active # l
    BY <1>2, RegistryFacts DEF Free
  <2>2. registry.active # None => Dead(registry.active)
    BY <1>1 DEF Life, Cleared
  <2>3. PICK a : a = registry.active
    OBVIOUS
  <2>4. a # None => Dead(a)'
    BY <1>5, <2>1, <2>2, <2>3
  <2>. QED
    BY <1>1, <2>3, <2>4 DEF Cleared
<1>. QED
  BY <1>4, <1>6, <1>8, <1>9 DEF Life

\* A launch takes the place of a dead one.
LEMMA LifeRecord ==
  ASSUME Books, Life, Record
  PROVE  Life'
<1>1. /\ command # Idle /\ command.pc = "ready" /\ Goto("probe")
      /\ UNCHANGED supervisor /\ UNCHANGED child /\ UNCHANGED thisBoot /\ UNCHANGED torn
  BY DEF Record, At, processes
<1>2. Fades
  BY <1>1, Untouched DEF Life, Machines
<1>3. registry'.active = command.launch
  BY Records
<1>4. /\ command' # Idle /\ command'.pc = "probe"
  BY <1>1, GotoContinues, NotIdle DEF Continues, Pc
<1>5. Cleared'
  BY <1>4 DEF Cleared
<1>6. ASSUME NEW l \in Launch, MayRun(l)', l \notin torn' PROVE Owned(l)'
  <2>1. MayRun(l) /\ l \notin torn
    BY <1>1, <1>2, <1>6 DEF Fades
  <2>2. l = registry.active \/ l = command.launch
    BY <2>1 DEF Life, Owned
  <2>3. registry.active \in Launch => Dead(registry.active)
    BY <1>1, DeploymentAssumption DEF Life, Cleared
  <2>4. l = command.launch
    BY <2>1, <2>2, <2>3, DeadStays
  <2>. QED
    BY <1>3, <2>4 DEF Owned
<1>7. \A l \in Launch : l \notin thisBoot' => Dead(l)'
  BY <1>1 DEF Life, Dead, OneLive, Alive
<1>. QED
  BY <1>2, <1>5, <1>6, <1>7 DEF Life, Fades

\* A supervisor that never got ready is killed, and its child is lost.
LEMMA LifeStartTimesOut ==
  ASSUME Books, Life, StartTimesOut
  PROVE  Life'
<1>1. PICK l : l = command.launch
  OBVIOUS
<1>2. /\ command # Idle /\ command.pc = "ready" /\ GiveUp /\ UNCHANGED thisBoot
      /\ UNCHANGED child
      /\ supervisor' = [supervisor EXCEPT ![l] = IF @ = "up" THEN "down" ELSE @]
      /\ torn' = IF Alive(l) THEN torn \cup {l} ELSE torn
  BY <1>1 DEF StartTimesOut, At
<1>3. l \in Launch
  BY <1>1, <1>2 DEF Books, Doing, Launching, Entry
<1>4. supervisor \in [Launch -> Process] /\ torn \subseteq Launch
  BY DEF Life, Machines
<1>5. torn \subseteq torn' /\ torn' \subseteq Launch
  BY <1>2, <1>3, <1>4
<1>6. CASE supervisor[l] = "up"
  <2>1. supervisor' = [supervisor EXCEPT ![l] = "down"]
    BY <1>2, <1>6
  <2>2. Fades
    BY <1>2, <1>5, <2>1, SupervisorGoes
  <2>3. ~MayRun(l)' \/ l \in torn'
    BY <1>2, <1>3, <1>4, <2>1 DEF MayRun, Alive
  <2>. QED
    BY <1>1, <1>2, <2>2, <2>3, LifeQuit, GiveUpKeepsActive DEF GiveUp
<1>7. CASE supervisor[l] # "up"
  <2>1. supervisor' = supervisor
    BY <1>2, <1>4, <1>7
  <2>2. Fades
    BY <1>2, <1>5, <2>1, Untouched
  <2>3. ~MayRun(l)' \/ l \in torn'
    BY <1>2, <1>7, <2>1 DEF MayRun, Alive
  <2>. QED
    BY <1>1, <1>2, <2>2, <2>3, LifeQuit, GiveUpKeepsActive DEF GiveUp
<1>. QED
  BY <1>6, <1>7

\* What cannot be undone is lost.
LEMMA LifeUndo ==
  ASSUME Books, Life, Undo
  PROVE  Life'
<1>1. PICK l : l = command.launch
  OBVIOUS
<1>2. command # Idle /\ command.pc = "undo"
  BY DEF Undo, At
<1>3. l \in Launch
  BY <1>1, <1>2 DEF Books, Doing, Launching, Entry
<1>4. CASE StopChild(l)
  BY <1>3, <1>4, LifeProcessStep
<1>5. CASE ~StopChild(l)
  <2>1. /\ GiveUp /\ UNCHANGED <<supervisor, child, thisBoot>>
        /\ \/ Ended(l) /\ UNCHANGED torn
           \/ torn' = IF registry.active = l THEN torn ELSE torn \cup {l}
    BY <1>1, <1>5 DEF Undo, Undone, processes
  <2>2. torn \subseteq torn' /\ torn' \subseteq Launch
    BY <1>3, <2>1 DEF Life, Machines
  <2>3. Fades
    BY <2>1, <2>2, Untouched
  <2>4. Ended(l) => ~MayRun(l)
    BY DEF Ended, MayRun, OneLive
  <2>5. MayRun(l)' => MayRun(l)
    BY <1>3, <2>3 DEF Fades
  <2>. QED
    BY <1>1, <1>2, <2>1, <2>3, <2>4, <2>5, LifeQuit, GiveUpKeepsActive DEF GiveUp
<1>. QED
  BY <1>4, <1>5

\* The other steps of a command.
LEMMA LifeCommand ==
  ASSUME Books, Life, Books', CommandStep
  PROVE  Life'
<1>1. ASSUME PublishManifest PROVE Life'
  <2>1. /\ command # Idle /\ Goto("decide")
        /\ UNCHANGED <<supervisor, child, thisBoot, torn, registry>>
    BY <1>1 DEF PublishManifest, At, processes
  <2>2. command' # Idle /\ command'.pc = "decide" /\ command'.launch = command.launch
    BY <2>1, GotoContinues, NotIdle DEF Continues, Pc
  <2>. QED
    BY <2>1, <2>2, LifeGoOn
<1>2. ASSUME Reprobe PROVE Life'
  <2>1. /\ command # Idle /\ command.pc = "reprobe" /\ (Quit \/ Goto("stop"))
        /\ UNCHANGED <<supervisor, child, thisBoot, torn, registry>>
    BY <1>2 DEF Reprobe, At, processes
  <2>2. command.launch = None
    BY <2>1 DEF Books, Doing, Launching
  <2>3. CASE Quit
    <3>1. Fades
      BY <2>1, Untouched DEF Life, Machines
    <3>. QED
      BY <2>1, <2>2, <2>3, <3>1, LifeQuit, DeploymentAssumption
  <2>4. CASE Goto("stop")
    <3>1. command' # Idle /\ command'.pc = "stop" /\ command'.launch = command.launch
      BY <2>1, <2>4, GotoContinues, NotIdle DEF Continues, Pc
    <3>. QED
      BY <2>1, <3>1, LifeGoOn
  <2>. QED
    BY <2>1, <2>3, <2>4
<1>3. ASSUME Stop PROVE Life'
  <2>1. command # Idle /\ command.pc = "stop"
    BY <1>3 DEF Stop, At
  <2>2. /\ command.launch = None
        /\ registry.active # None /\ registry.active \in Launch
    BY <2>1, RegistryFacts DEF Books, Doing, Launching
  <2>3. CASE StopChild(registry.active)
    BY <2>2, <2>3, LifeProcessStep
  <2>4. CASE ~StopChild(registry.active)
    <3>1. /\ UNCHANGED <<supervisor, child, thisBoot, torn, registry>>
          /\ Quit \/ (Ended(registry.active) /\ Goto(AfterStop))
      BY <1>3, <2>4 DEF Stop, processes
    <3>2. CASE Quit
      <4>1. Fades
        BY <3>1, Untouched DEF Life, Machines
      <4>. QED
        BY <2>2, <3>1, <3>2, <4>1, LifeQuit, DeploymentAssumption
    <3>3. CASE Ended(registry.active) /\ Goto(AfterStop)
      <4>1. Dead(registry.active)
        BY <3>3 DEF Ended, Dead
      <4>2. AfterStop \in Pc
        BY DEF AfterStop, Pc
      <4>3. command' # Idle /\ command'.launch = command.launch
        BY <2>1, <3>3, <4>2, GotoContinues, NotIdle DEF Continues
      <4>. QED
        BY <3>1, <4>1, <4>3, LifeGoOn
    <3>. QED
      BY <3>1, <3>2, <3>3
  <2>. QED
    BY <2>3, <2>4
<1>4. ASSUME StartRefused PROVE Life'
  <2>1. /\ command # Idle /\ command.pc = "ready" /\ Goto("undo")
        /\ UNCHANGED <<supervisor, child, thisBoot, torn, registry>>
    BY <1>4 DEF StartRefused, At, processes
  <2>2. registry.active # None => Dead(registry.active)
    BY <2>1 DEF Life, Cleared
  <2>3. command' # Idle /\ command'.launch = command.launch
    BY <2>1, GotoContinues, NotIdle DEF Continues, Pc
  <2>. QED
    BY <2>1, <2>2, <2>3, LifeGoOn
<1>5. ASSUME ProbePasses \/ ProbeFails PROVE Life'
  <2>1. /\ command # Idle /\ command.pc = "probe"
        /\ UNCHANGED <<supervisor, child, thisBoot, torn>>
    BY <1>5 DEF ProbePasses, ProbeFails, At, processes
  <2>2. command.launch = registry.active
    BY <2>1 DEF Books, Doing, Launching
  <2>3. Fades
    BY <2>1, Untouched DEF Life, Machines
  <2>4. CASE Quit /\ registry'.active = registry.active
    BY <2>2, <2>3, <2>4, LifeQuit
  <2>5. CASE ProbePasses
    <3>1. registry \in Registry
      BY DEF Books
    <3>2. registry'.active = registry.active
      BY <2>5, <3>1 DEF ProbePasses, Write, Settled, Registry
    <3>. QED
      BY <2>4, <2>5, <3>2 DEF ProbePasses
  <2>6. CASE GiveUp
    BY <2>4, <2>6, GiveUpKeepsActive DEF GiveUp
  <2>7. CASE Goto("undo") /\ UNCHANGED registry
    <3>1. /\ command' # Idle /\ command'.pc = "undo"
          /\ command'.launch = command.launch
      BY <2>1, <2>7, GotoContinues, NotIdle DEF Continues, Pc
    <3>. QED
      BY <2>1, <2>2, <2>7, <3>1, LifeGoOn
  <2>. QED
    BY <1>5, <2>5, <2>6, <2>7 DEF ProbeFails
<1>. QED
  BY <1>1, <1>2, <1>3, <1>4, <1>5, LifeBegin, LifeCheckpoint, LifeStart, LifeStartTimesOut,
     LifeUndo, LifeRecord DEF CommandStep

\* A death loses what was in hand; a reboot ends everything.
LEMMA LifeDisturbance ==
  ASSUME Books, Life, Disturbance
  PROVE  Life'
<1>1. ASSUME Die PROVE Life'
  <2>1. /\ command # Idle /\ Quit /\ UNCHANGED registry
        /\ UNCHANGED <<supervisor, child, thisBoot>>
        /\ torn' = IF command.launch \in {None, registry.active} THEN torn
                   ELSE torn \cup {command.launch}
    BY <1>1 DEF Die, processes
  <2>2. command.launch \in Launch \cup {None}
    BY <2>1, CommandFacts
  <2>3. torn \subseteq torn' /\ torn' \subseteq Launch
    BY <2>1, <2>2 DEF Life, Machines
  <2>4. Fades
    BY <2>1, <2>3, Untouched
  <2>. QED
    BY <2>1, <2>4, LifeQuit, DeploymentAssumption
<1>2. ASSUME Reboot PROVE Life'
  <2>1. Quit /\ thisBoot' = {} /\ torn' = {}
    BY <1>2 DEF Reboot
  <2>2. /\ supervisor' = [l \in Launch |-> IF supervisor[l] = "none" THEN "none" ELSE "down"]
        /\ child' = [l \in Launch |-> IF child[l] = "none" THEN "none" ELSE "down"]
    BY <1>2 DEF Reboot
  <2>3. Machines'
    BY <2>1, <2>2 DEF Machines, Process, Application
  <2>4. ASSUME NEW l \in Launch PROVE Dead(l)' /\ ~MayRun(l)'
    <3>1. supervisor'[l] \in {"none", "down"} /\ child'[l] \in {"none", "down"}
      BY <2>2
    <3>. QED
      BY <3>1 DEF Dead, OneLive, MayRun, Alive
  <2>5. Cleared'
    BY <2>1 DEF Quit, Cleared
  <2>. QED
    BY <2>3, <2>4, <2>5 DEF Life
<1>3. ASSUME EditSpec \/ \E c \in Commit : Damage(c) PROVE Life'
  <2>1. UNCHANGED <<registry, command>> /\ UNCHANGED <<supervisor, child, thisBoot>>
        /\ UNCHANGED torn
    BY <1>3 DEF EditSpec, Damage, processes
  <2>2. Fades
    BY <2>1, Untouched DEF Life, Machines
  <2>. QED
    BY <2>1, <2>2, LifeProcesses
<1>. QED
  BY <1>1, <1>2, <1>3, LifeProcessStep DEF Disturbance

\* Every step keeps the processes accounted for.
LEMMA LifeNext ==
  ASSUME Books, Life, Books', [DeploymentNext]_vars
  PROVE  Life'
<1>1. CASE UNCHANGED vars
  <2>1. UNCHANGED <<registry, command>> /\ UNCHANGED <<supervisor, child, thisBoot>>
        /\ UNCHANGED torn
    BY <1>1 DEF vars
  <2>2. Fades
    BY <2>1, Untouched DEF Life, Machines
  <2>. QED
    BY <2>1, <2>2, LifeProcesses
<1>. QED
  BY <1>1, LifeBegin, LifeCommand, LifeDisturbance, LifeProcessStep DEF DeploymentNext

-----------------------------------------------------------------------------
\* The files, the port and the bound.
LEMMA ElsewhereNext ==
  ASSUME Books, Elsewhere, [DeploymentNext]_vars
  PROVE  Elsewhere'
<1>1. /\ trees \subseteq Commit /\ manifests \subseteq Commit
      /\ port \in Launch \cup {None} /\ faults \in 0..MaxFaults /\ MaxFaults \in Nat
  BY DeploymentAssumption DEF Elsewhere
<1>2. UNCHANGED faults \/ (faults < MaxFaults /\ faults' = faults + 1)
  <2>1. CASE UNCHANGED vars
    BY <2>1 DEF vars
  <2>2. CASE DeploymentNext
    BY <2>2 DEF DeploymentNext, Materialize, Deploy, Health, Rollback, StopCommand, Recover,
       Begin, CommandStep, PublishManifest, Decide, Reprobe, Stop, StopChild, StopRefused,
       Checkpoint, Start, StartTimesOut, StartRefused, Undo, Record, ProbePasses, ProbeFails,
       ProcessStep, Spawn, Announce, SupervisorEnds, Serve, AddressInUse, Disturbance, Die,
       Reboot, EditSpec, Crash, KillSupervisor, ReusePid, Damage, Fault, host
  <2>. QED
    BY <2>1, <2>2
<1>3. faults' \in 0..MaxFaults
  BY <1>1, <1>2
<1>4. \/ UNCHANGED port \/ port' = None
      \/ \E l \in Launch : port' = l
  <2>1. CASE UNCHANGED vars
    BY <2>1 DEF vars
  <2>2. CASE DeploymentNext
    BY <2>2 DEF DeploymentNext, Materialize, Deploy, Health, Rollback, StopCommand, Recover,
       Begin, CommandStep, PublishManifest, Decide, Reprobe, Stop, StopChild, EndChild,
       Checkpoint, Start, StartTimesOut, StartRefused, Undo, Record, ProbePasses, ProbeFails,
       ProcessStep, Spawn, Announce, SupervisorEnds, Serve, AddressInUse, Disturbance, Die,
       Reboot, EditSpec, Crash, KillSupervisor, ReusePid, Damage, processes
  <2>. QED
    BY <2>1, <2>2
<1>5. port' \in Launch \cup {None}
  BY <1>1, <1>4
<1>6. ASSUME PublishManifest PROVE trees' \subseteq Commit /\ manifests' \subseteq Commit
  <2>1. command # Idle /\ command.pc = "manifest"
    BY <1>6 DEF PublishManifest, At
  <2>2. command.commit \in Commit
    BY <2>1, PlaceTells DEF Books, Doing, DeployDoes
  <2>. QED
    BY <1>1, <1>6, <2>2 DEF PublishManifest
<1>7. ASSUME NEW c \in Commit, Materialize(c) \/ Damage(c)
      PROVE  trees' \subseteq Commit /\ manifests' \subseteq Commit
  BY <1>1, <1>7 DEF Materialize, Damage
<1>8. \/ UNCHANGED files \/ PublishManifest
      \/ \E c \in Commit : Materialize(c) \/ Damage(c)
  <2>1. CASE UNCHANGED vars
    BY <2>1 DEF vars, files
  <2>2. CASE DeploymentNext
    BY <2>2 DEF DeploymentNext, Deploy, Health, Rollback, StopCommand, Recover,
       Begin, CommandStep, Decide, Reprobe, Stop, StopChild,
       Checkpoint, Start, StartTimesOut, StartRefused, Undo, Record, ProbePasses, ProbeFails,
       ProcessStep, Spawn, Announce, SupervisorEnds, Serve, AddressInUse, Disturbance, Die,
       Reboot, EditSpec, Crash, KillSupervisor, ReusePid
  <2>. QED
    BY <2>1, <2>2
<1>9. trees' \subseteq Commit /\ manifests' \subseteq Commit
  BY <1>1, <1>6, <1>7, <1>8 DEF files
<1>. QED
  BY <1>3, <1>5, <1>9 DEF Elsewhere

-----------------------------------------------------------------------------
\* The invariant holds at first.
LEMMA DeploymentInvInit == DeploymentInit => DeploymentInv
<1> SUFFICES ASSUME DeploymentInit PROVE DeploymentInv
  OBVIOUS
<1>1. registry \in Registry
  BY DEF DeploymentInit, Registry, Status
<1>2. registry.active = None /\ registry.previous = None /\ registry.status \notin Established
  BY DEF DeploymentInit, Established
<1>3. Entries /\ SettledWasProved /\ RollbackGoesElsewhere /\ OwnRelease
  BY <1>2 DEF Entries, SettledWasProved, RollbackGoesElsewhere, OwnRelease
<1>4. spec \in Spec
  BY DeploymentAssumption DEF DeploymentInit
<1>5. command = Idle /\ vouched = None /\ retreat = FALSE /\ Doing
  BY DEF DeploymentInit, Doing
<1>6. origin \in [Launch -> Origin \cup {None}]
  BY DEF DeploymentInit
<1>7. Books
  BY <1>1, <1>3, <1>4, <1>5, <1>6 DEF Books
<1>8. Machines
  BY DEF DeploymentInit, Machines, Process, Application
<1>9. \A l \in Launch : Dead(l) /\ ~MayRun(l)
  BY DEF DeploymentInit, Dead, OneLive, MayRun, Alive
<1>10. Cleared
  BY <1>5 DEF Cleared
<1>11. Life
  BY <1>8, <1>9, <1>10 DEF Life
<1>12. Elsewhere
  BY DeploymentAssumption DEF DeploymentInit, Elsewhere
<1>. QED
  BY <1>7, <1>11, <1>12 DEF DeploymentInv

\* A registry that stands for what was proved, one launch that may run, and a
\* command that finds what it has looked at.
THEOREM DeploymentInvariant == DeploymentSpec => []DeploymentInv
<1>1. DeploymentInv /\ [DeploymentNext]_vars => DeploymentInv'
  BY BooksNext, LifeNext, ElsewhereNext DEF DeploymentInv
<1>. QED
  BY <1>1, DeploymentInvInit, PTL DEF DeploymentSpec

\* The registry, the running command and the processes only ever hold what the code
\* can read back: known statuses, launches and commits.
THEOREM DeploymentTypeCorrect == DeploymentSpec => []DeploymentTypeOK
<1>1. DeploymentInv => DeploymentTypeOK
  BY DEF DeploymentInv, Books, Life, Machines, Elsewhere, DeploymentTypeOK, Registry, Origin
<1>. QED
  BY <1>1, DeploymentInvariant, PTL

\* Whatever is killed, rebooted or refused, one application runs at most besides
\* what was lost before it could be recorded, and it is the recorded one or the one
\* being started.
THEOREM OneApplicationRuns == DeploymentSpec => []OneOwnedApplication
<1>1. ASSUME DeploymentInv PROVE OneOwnedApplication
  <2>1. ASSUME NEW l \in Living \ torn
        PROVE  /\ l = registry.active \/ (command # Idle /\ l = command.launch)
               /\ ~Dead(l)
    <3>1. l \in Launch /\ MayRun(l) /\ l \notin torn
      BY DEF Living, MayRun
    <3>. QED
      BY <1>1, <3>1, DeadStays DEF DeploymentInv, Life, Owned
  <2>2. ASSUME NEW a \in Living \ torn, NEW b \in Living \ torn PROVE a = b
    <3>1. CASE command = Idle
      BY <2>1, <3>1
    <3>2. CASE command # Idle /\ command.launch # None /\ command.launch # registry.active
      <4>1. command.pc \in {"ready", "undo"}
        BY <1>1, <3>2 DEF DeploymentInv, Books, Doing, Launching
      <4>2. registry.active # None => Dead(registry.active)
        BY <1>1, <3>2, <4>1 DEF DeploymentInv, Life, Cleared
      <4>3. a # None /\ b # None
        BY DeploymentAssumption DEF Living
      <4>. QED
        BY <2>1, <4>2, <4>3
    <3>3. CASE command # Idle /\ command.launch \in {None, registry.active}
      <4>1. a # None /\ b # None
        BY DeploymentAssumption DEF Living
      <4>. QED
        BY <2>1, <3>3, <4>1
    <3>. QED
      BY <3>1, <3>2, <3>3
  <2>3. Cardinality(Living \ torn) <= 1
    <3>1. CASE Living \ torn = {}
      <4>1. Cardinality({}) = 0
        BY FS_EmptySet
      <4>. QED
        BY <3>1, <4>1
    <3>2. CASE Living \ torn # {}
      <4>1. PICK l : Living \ torn = {l}
        BY <2>2, <3>2
      <4>2. Cardinality({l}) = 1
        BY FS_Singleton
      <4>. QED
        BY <4>1, <4>2
    <3>. QED
      BY <3>1, <3>2
  <2>4. Living \ torn \subseteq
          {registry.active} \cup (IF command = Idle THEN {} ELSE {command.launch})
    BY <2>1
  <2>. QED
    BY <2>3, <2>4 DEF OneOwnedApplication
<1>. QED
  BY <1>1, DeploymentInvariant, PTL

\* While the registry has an established status it names a launch, and the commit of that
\* launch is the one that last passed a probe (SettledWasProved).  The launch itself need
\* not have passed one: recover records the process it starts under the old status.
THEOREM EstablishedWasProved == DeploymentSpec => []SettledWasProved
<1>1. DeploymentInv => SettledWasProved
  BY DEF DeploymentInv, Books
<1>. QED
  BY <1>1, DeploymentInvariant, PTL

\* Unless a rollback has failed, a rollback leads away from what was deployed.
THEOREM RollbackTargetsAreOld == DeploymentSpec => []RollbackGoesElsewhere
<1>1. DeploymentInv => RollbackGoesElsewhere
  BY DEF DeploymentInv, Books
<1>. QED
  BY <1>1, DeploymentInvariant, PTL
=============================================================================
