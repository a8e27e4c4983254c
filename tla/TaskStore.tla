----------------------------- MODULE TaskStore -----------------------------
(***************************************************************************)
(* The durable task table of katydid.store.Store: task states, control     *)
(* epochs, fenced leases, the AI call budget and the release success       *)
(* pointer.  Every mutating method of Store runs in one BEGIN IMMEDIATE    *)
(* transaction, so each is one action here.  What is not atomic is kept:   *)
(* most methods read time.time() BEFORE they wait for the write lock, so   *)
(* the "now" an action compares against is any clock value read at most    *)
(* MaxWait ticks earlier; and the success pointer is a file that is        *)
(* replaced before the transaction commits.                                *)
(*                                                                         *)
(* A definition marked "slip" is a plausible wrong version of the one that *)
(* follows it; nothing uses it but the check that the properties can fail. *)
(***************************************************************************)
EXTENDS Integers, Sequences, FiniteSets

CONSTANTS
  Task,        \* task identifiers (uuid4 in the code)
  Worker,      \* worker identities
  Repository,  \* repositories
  RepoOf,      \* the repository of each task
  Group,       \* event groups: one pull request or branch of a repository
  GroupOf,     \* the event group of each task, None without one
  None,        \* SQL NULL: no worker, no task
  Reported,    \* the workflow states workers report
  TTL,         \* ttl_seconds of a grant or a renewal, in ticks
  MaxWait,     \* most ticks between reading the clock and taking the lock
  AiLimit,     \* limit argument of reserve_ai_call
  MaxClock,    \* bound: the clock stops here
  MaxEpoch     \* bound: no claim and no control from this epoch on

Terminal       == {"completed", "failed", "cancelled", "unresolved"}
UnknownOutcome == {"publishing", "deploying", "monitoring"}
Stage ==
  UnknownOutcome \cup
  {"discovered", "preparing", "planning", "testing", "diagnosing", "executing",
   "verifying", "repairing", "reviewing", "eligible", "merging", "releasing"}
WorkflowState == Stage \cup Terminal \cup {"queued"}
State         == WorkflowState \cup {"paused", "absent"}

ASSUME RepositoryAssumption == RepoOf \in [Task -> Repository]
ASSUME NoneAssumption       == None \notin Worker \cup Task \cup Group
ASSUME GroupAssumption      ==
  /\ GroupOf \in [Task -> Group \cup {None}]
  /\ \A t, u \in Task :
       GroupOf[t] = GroupOf[u] /\ GroupOf[t] # None => RepoOf[t] = RepoOf[u]
ASSUME ReportedAssumption   == Reported \subseteq WorkflowState \ {"queued"}
ASSUME NumberAssumption     == /\ TTL \in Nat \ {0}
                               /\ MaxWait \in Nat
                               /\ AiLimit \in Nat \ {0}
                               /\ MaxClock \in Nat
                               /\ MaxEpoch \in Nat

VARIABLES
  clock,        \* wall clock
  state,        \* tasks.state, "absent" before the row exists
  epoch,        \* tasks.control_epoch
  lease,        \* lease_worker, lease_epoch, lease_expires_at of the row
  result,       \* what recorded result_json, "none" for NULL
  instructions, \* number of entries of instructions_json
  aiCalls,      \* epochs of the task's ai_call_reserved events, in order
  issued,       \* Lease objects still in the memory of a running worker
  pointer,      \* task named by releases/<repository>/last-success.json
  released      \* tasks with a release_success event

taskVars    == <<state, epoch, lease, result>>
releaseVars == <<pointer, released>>
vars == <<clock, state, epoch, lease, result, instructions, aiCalls, issued,
          pointer, released>>

NoLease == [worker |-> None, epoch |-> 0, expires |-> 0]
Row     == [worker : Worker, epoch : Nat, expires : Nat]
\* "at" is the clock when the grant committed: a holder reads no earlier time.
Handle  == [task : Task, worker : Worker, epoch : Nat, at : Nat]
Reason  == {"none", "worker", "control", "expired", "superseded"}

TypeOK ==
  /\ clock \in Nat
  /\ state \in [Task -> State]
  /\ epoch \in [Task -> Nat]
  /\ lease \in [Task -> Row \cup {NoLease}]
  /\ result \in [Task -> Reason]
  /\ instructions \in [Task -> Nat]
  /\ aiCalls \in [Task -> Seq(Nat)]
  /\ issued \subseteq Handle
  /\ pointer \in [Repository -> Task \cup {None}]
  /\ released \subseteq Task

Init ==
  /\ clock = 0
  /\ state = [t \in Task |-> "absent"]
  /\ epoch = [t \in Task |-> 0]
  /\ lease = [t \in Task |-> NoLease]
  /\ result = [t \in Task |-> "none"]
  /\ instructions = [t \in Task |-> 0]
  /\ aiCalls = [t \in Task |-> << >>]
  /\ issued = {}
  /\ pointer = [r \in Repository |-> None]
  /\ released = {}

-----------------------------------------------------------------------------
\* The values "now" can have in a method called at clock value "since" or later.
ReadSince(since) == {n \in 0..clock : n >= clock - MaxWait /\ n >= since}

\* _validate_lease
Valid(h, now) ==
  /\ lease[h.task].worker = h.worker
  /\ lease[h.task].epoch = h.epoch
  /\ epoch[h.task] = h.epoch
  /\ lease[h.task].expires > now

Executable(t) == state[t] \notin Terminal \cup {"paused"}

\* create_task, or an ungrouped ingest_event.  A replayed idempotency key returns
\* the existing row and changes nothing, so every task is created at most once.
Create(t) ==
  /\ state[t] = "absent"
  /\ GroupOf[t] = None
  /\ state' = [state EXCEPT ![t] = "queued"]
  /\ UNCHANGED <<clock, epoch, lease, result, instructions, aiCalls, issued,
                 releaseVars>>

LeasedAt(t, now) == lease[t].worker # None /\ lease[t].expires > now

ClaimableInAnyRepository(t, now) ==            \* slip: only the task is checked
  state[t] = "queued" /\ ~LeasedAt(t, now)

Claimable(t, now) ==
  /\ state[t] = "queued"
  /\ ~LeasedAt(t, now)
  /\ \A u \in Task \ {t} : RepoOf[u] = RepoOf[t] => ~LeasedAt(u, now)

SameEpoch(t) == epoch[t]                       \* slip: no new epoch
NextEpoch(t) == epoch[t] + 1

Claim(t, w, now) ==
  /\ epoch[t] < MaxEpoch
  /\ Claimable(t, now)
  /\ epoch' = [epoch EXCEPT ![t] = NextEpoch(t)]
  /\ lease' = [lease EXCEPT ![t] = [worker |-> w, epoch |-> NextEpoch(t),
                                    expires |-> now + TTL]]
  /\ issued' = issued \cup
                 {[task |-> t, worker |-> w, epoch |-> NextEpoch(t), at |-> clock]}
  /\ UNCHANGED <<clock, state, result, instructions, aiCalls, releaseVars>>

Renew(h, now) ==
  /\ Valid(h, now)
  /\ lease' = [lease EXCEPT ![h.task].expires = now + TTL]
  /\ UNCHANGED <<clock, state, epoch, result, instructions, aiCalls, issued,
                 releaseVars>>

\* The budget counts the task's events of every epoch, not of this lease.
CallsOfEpoch(h) ==                             \* slip: a retry starts at zero
  Len(SelectSeq(aiCalls[h.task], LAMBDA e : e = h.epoch))
CallsCharged(h) == Len(aiCalls[h.task])

ReserveAiCall(h, now) ==
  /\ Valid(h, now)
  /\ CallsCharged(h) < AiLimit
  /\ aiCalls' = [aiCalls EXCEPT ![h.task] = Append(@, h.epoch)]
  /\ UNCHANGED <<clock, taskVars, instructions, issued, releaseVars>>

TransitionKeepsLease(h, s) ==                  \* slip: the lease survives the end
  /\ state' = [state EXCEPT ![h.task] = s]
  /\ result' = [result EXCEPT ![h.task] = IF s \in Terminal THEN "worker" ELSE @]
  /\ UNCHANGED lease
TransitionClearsWorker(h, s) ==                \* slip: one of three columns cleared
  /\ state' = [state EXCEPT ![h.task] = s]
  /\ lease' = [lease EXCEPT ![h.task].worker = IF s \in Terminal THEN None ELSE @]
  /\ result' = [result EXCEPT ![h.task] = IF s \in Terminal THEN "worker" ELSE @]

TransitionRow(h, s) ==
  /\ state' = [state EXCEPT ![h.task] = s]
  /\ IF s \in Terminal
     THEN /\ lease' = [lease EXCEPT ![h.task] = NoLease]
          /\ result' = [result EXCEPT ![h.task] = "worker"]
     ELSE UNCHANGED <<lease, result>>

Transition(h, s, now) ==
  /\ Valid(h, now)
  /\ Executable(h.task)
  /\ TransitionRow(h, s)
  /\ UNCHANGED <<clock, epoch, instructions, aiCalls, issued, releaseVars>>

Release(h, now) ==
  /\ Valid(h, now)
  /\ Executable(h.task)
  /\ state' = [state EXCEPT ![h.task] = "queued"]
  /\ lease' = [lease EXCEPT ![h.task] = NoLease]
  /\ UNCHANGED <<clock, epoch, result, instructions, aiCalls, issued,
                 releaseVars>>

-----------------------------------------------------------------------------
\* record_release_success: os.replace publishes the pointer, then the event is
\* inserted and committed.  "now" is read under the lock.
PublishInAnyStage(h) ==                        \* slip: the state is not checked
  /\ Valid(h, clock)
  /\ pointer' = [pointer EXCEPT ![RepoOf[h.task]] = h.task]
  /\ UNCHANGED <<clock, taskVars, instructions, aiCalls>>

PublishPointer(h) ==
  /\ Valid(h, clock)
  /\ state[h.task] = "monitoring"
  /\ pointer' = [pointer EXCEPT ![RepoOf[h.task]] = h.task]
  /\ UNCHANGED <<clock, taskVars, instructions, aiCalls>>

RecordReleaseSuccess(h) ==
  /\ PublishPointer(h)
  /\ released' = released \cup {h.task}
  /\ UNCHANGED issued

\* The process dies between the two: the transaction rolls back, the pointer
\* stays, and nobody holds the lease object any more.
RecordReleaseCrash(h) ==
  /\ PublishPointer(h)
  /\ issued' = issued \ {h}
  /\ UNCHANGED released

-----------------------------------------------------------------------------
InterruptedForgetsPublishing(t, otherwise) ==  \* slip: one stage is missing
  IF state[t] \in {"deploying", "monitoring"} THEN "unresolved" ELSE otherwise
InterruptedForgetsDeploying(t, otherwise) ==   \* slip: another stage is missing
  IF state[t] \in {"publishing", "monitoring"} THEN "unresolved" ELSE otherwise

\* A stage with possible external effects is never simply resumed.
Interrupted(t, otherwise) ==
  IF state[t] \in UnknownOutcome THEN "unresolved" ELSE otherwise

\* Fence the tasks of S in one transaction: the epoch advances, the lease is
\* revoked and a terminal outcome records why.
Fence(S, otherwise, why) ==
  /\ epoch' = [t \in Task |-> IF t \in S THEN NextEpoch(t) ELSE epoch[t]]
  /\ lease' = [t \in Task |-> IF t \in S THEN NoLease ELSE lease[t]]
  /\ result' = [t \in Task |->
                  IF t \in S /\ Interrupted(t, otherwise) \in Terminal
                  THEN why ELSE result[t]]

Fenced(S, otherwise) ==
  [t \in Task |-> IF t \in S THEN Interrupted(t, otherwise) ELSE state[t]]

ControlAnyRow(t, otherwise) ==                 \* slip: terminal rows are accepted
  /\ epoch[t] < MaxEpoch
  /\ state[t] # "absent"
  /\ state' = Fenced({t}, otherwise)
  /\ Fence({t}, otherwise, "control")
  /\ UNCHANGED <<clock, aiCalls, issued, releaseVars>>

Control(t, otherwise) ==
  /\ epoch[t] < MaxEpoch
  /\ state[t] \notin Terminal \cup {"absent"}
  /\ state' = Fenced({t}, otherwise)
  /\ Fence({t}, otherwise, "control")
  /\ UNCHANGED <<clock, aiCalls, issued, releaseVars>>

Pause(t)  == Control(t, "paused") /\ UNCHANGED instructions
Cancel(t) == Control(t, "cancelled") /\ UNCHANGED instructions
Resume(t) == /\ state[t] = "paused"
             /\ Control(t, "queued")
             /\ UNCHANGED instructions
SteerInPlace(t) ==                             \* slip: the holder keeps its lease
  /\ state[t] \notin Terminal \cup {"absent"}
  /\ instructions' = [instructions EXCEPT ![t] = @ + 1]
  /\ UNCHANGED <<clock, taskVars, aiCalls, issued, releaseVars>>
Steer(t)  == /\ Control(t, "queued")
             /\ instructions' = [instructions EXCEPT ![t] = @ + 1]

RecoverableStages(now) ==                      \* slip: claimed but not started
  {t \in Task : /\ lease[t].worker # None
                /\ lease[t].expires <= now
                /\ state[t] \in Stage}

Recoverable(now) ==
  {t \in Task : /\ lease[t].worker # None
                /\ lease[t].expires <= now
                /\ Executable(t)}

RecoverExpired(now) ==
  /\ Recoverable(now) # {}
  /\ state' = Fenced(Recoverable(now), "queued")
  /\ Fence(Recoverable(now), "queued", "expired")
  /\ UNCHANGED <<clock, instructions, aiCalls, issued, releaseVars>>

\* ingest_event on group g: every task of the group that is not terminal is
\* superseded, and the task of R (none or one), created in the same transaction,
\* starts paused when a superseded one was paused or may have had an effect.
SupersededUnlessPaused(g) ==                   \* slip: parked work is kept
  {t \in Task : /\ GroupOf[t] = g
                /\ state[t] \notin Terminal \cup {"absent", "paused"}}
Superseded(g) ==
  {t \in Task : GroupOf[t] = g /\ state[t] \notin Terminal \cup {"absent"}}

ReplacementStateOfPaused(g) ==                 \* slip: effects are not considered
  IF \E t \in Superseded(g) : state[t] = "paused" THEN "paused" ELSE "queued"
ReplacementState(g) ==
  IF \E t \in Superseded(g) : state[t] \in UnknownOutcome \cup {"paused"}
  THEN "paused" ELSE "queued"

Ingest(g, R) ==
  /\ \A t \in R : GroupOf[t] = g /\ state[t] = "absent"
  /\ state' = [t \in Task |-> IF t \in R THEN ReplacementState(g)
                              ELSE Fenced(Superseded(g), "cancelled")[t]]
  /\ Fence(Superseded(g), "cancelled", "superseded")
  /\ UNCHANGED <<clock, instructions, aiCalls, issued, releaseVars>>

Replacements == {{}} \cup {{t} : t \in Task}

Tick ==
  /\ clock < MaxClock
  /\ clock' = clock + 1
  /\ UNCHANGED <<taskVars, instructions, aiCalls, issued, releaseVars>>

-----------------------------------------------------------------------------
HolderStep(h) ==
  \/ \E now \in ReadSince(h.at) :
       \/ Renew(h, now)
       \/ ReserveAiCall(h, now)
       \/ \E s \in Reported : Transition(h, s, now)
       \/ Release(h, now)
  \/ RecordReleaseSuccess(h)
  \/ RecordReleaseCrash(h)

ControlStep(t) == Pause(t) \/ Resume(t) \/ Cancel(t) \/ Steer(t)

Next ==
  \/ \E t \in Task : Create(t)
  \/ \E t \in Task, w \in Worker, now \in ReadSince(0) : Claim(t, w, now)
  \/ \E h \in issued : HolderStep(h)
  \/ \E t \in Task : ControlStep(t)
  \/ \E now \in ReadSince(0) : RecoverExpired(now)
  \/ \E g \in Group, R \in Replacements : Ingest(g, R)
  \/ Tick

Spec == Init /\ [][Next]_vars

\* Controller.work_once calls recover_expired on every round of the service
\* loop, with a fresh clock; nothing else is assumed to happen.
FairSpec == Spec /\ WF_vars(RecoverExpired(clock))

-----------------------------------------------------------------------------
\* What the rest of the system relies on.

\* A row can be in a stage only while it carries a lease: recover_expired finds
\* interrupted work by its lease, so a stage without one would be stuck forever.
\* A paused or terminal row carries none.
StageHasLease ==
  \A t \in Task :
    /\ state[t] \in Stage => lease[t] # NoLease
    /\ state[t] \in Terminal \cup {"paused", "absent"} => lease[t] = NoLease

\* The epoch of a task names at most one Lease object ever handed out, so two
\* workers can never both pass _validate_lease for the same task.
EpochNamesOneHandle ==
  \A g, h \in issued : g.task = h.task /\ g.epoch = h.epoch => g = h

Live(t)    == LeasedAt(t, clock)
Expired(t) == lease[t].worker # None /\ ~Live(t)

\* STATE.md, "Leases and worker transitions": no two tasks of one repository
\* hold a live lease at the same time.
RepositoryExclusive ==
  \A t, u \in Task :
    t # u /\ RepoOf[t] = RepoOf[u] => ~(Live(t) /\ Live(u))

\* The durable AI budget holds across releases, recoveries and new claims.
AiBudget == \A t \in Task : Len(aiCalls[t]) <= AiLimit

\* A success pointer whose event was lost in a crash belongs to a task that is
\* still monitoring or unresolved: it is never reported completed, requeued or
\* cancelled behind the operator's back.
TornReleaseStaysVisible ==
  \A r \in Repository :
    pointer[r] \in Task \ released =>
      state[pointer[r]] \in {"monitoring", "unresolved"}

\* Newer event delivery supersedes older work: an event group never has two
\* tasks that can still run.
OneOpenTaskPerGroup ==
  \A t, u \in Task :
    /\ GroupOf[t] = GroupOf[u] /\ GroupOf[t] # None
    /\ state[t] \notin Terminal \cup {"absent"}
    /\ state[u] \notin Terminal \cup {"absent"}
    => t = u

\* A terminal task is final: no late worker, control or recovery changes its
\* state, epoch, lease or recorded result.
TerminalIsFinal ==
  [][\A t \in Task : state[t] \in Terminal =>
       /\ state'[t] = state[t]
       /\ epoch'[t] = epoch[t]
       /\ lease'[t] = lease[t]
       /\ result'[t] = result[t]]_vars

\* Whoever takes a task away from its holder while an external effect may be in
\* flight leaves it unresolved, never queued, paused or cancelled.
FencedEffectIsUnresolved ==
  [][\A t \in Task :
       state[t] \in UnknownOutcome /\ epoch'[t] # epoch[t]
         => state'[t] = "unresolved" /\ result'[t] # "none"]_vars

\* A delivery that supersedes work which is paused, or may have had an external
\* effect, never starts its replacement by itself.
ReplacementWaits ==
  [][\A t, u \in Task :
       /\ GroupOf[t] = GroupOf[u] /\ GroupOf[t] # None
       /\ state[t] \in UnknownOutcome \cup {"paused"}
       /\ state[u] = "absent" /\ state'[u] # "absent"
       => state'[u] = "paused"]_vars

\* ORCHESTRATION.md: "If a predecessor has an uncertain publication or deployment
\* outcome, the replacement also remains paused".  A predecessor that is already
\* unresolved has one too.
UncertainPredecessorParksReplacement ==
  [][\A t, u \in Task :
       /\ GroupOf[t] = GroupOf[u] /\ GroupOf[t] # None
       /\ state[t] \in UnknownOutcome \cup {"unresolved"}
       /\ state[u] = "absent" /\ state'[u] # "absent"
       => state'[u] = "paused"]_vars

Current(h) ==
  /\ lease[h.task].worker = h.worker
  /\ lease[h.task].epoch = h.epoch
  /\ epoch[h.task] = h.epoch

\* STATE.md: a released or revoked lease never becomes valid again, including
\* when the same worker reclaims the task.
RevokedForever ==
  [][\A h \in issued : ~Current(h) => ~Current(h)']_vars

\* The abstract view of a row.
Phase(t) ==
  CASE state[t] = "absent"     -> "absent"
    [] state[t] = "paused"     -> "parked"
    [] state[t] = "unresolved" -> "unresolved"
    [] state[t] \in Terminal \ {"unresolved"} -> "closed"
    [] OTHER -> IF lease[t] = NoLease THEN "idle" ELSE "held"

ItemOf(t) == [phase |-> Phase(t), token |-> epoch[t],
              inFlight |-> state[t] \in UnknownOutcome]

Promise == INSTANCE FencedWork WITH item <- [t \in Task |-> ItemOf(t)]

\* The task table implements FencedWork.
ImplementsFencedWork == Promise!Spec

\* Recovery reaches every expired lease: it is renewed or cleared.
ExpiredLeaseIsCleared ==
  \A t \in Task : Expired(t) ~> ~Expired(t)

=============================================================================
