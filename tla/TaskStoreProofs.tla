--------------------------- MODULE TaskStoreProofs ---------------------------
(***************************************************************************)
(* Theorems about TaskStore for every set of tasks, workers, repositories  *)
(* and groups and every value of the numeric constants.                    *)
(***************************************************************************)
EXTENDS TaskStore, TLAPS

\* The clock values a method may have read are earlier than the commit.
LEMMA ReadSinceBound ==
  ASSUME clock \in Nat, NEW since, NEW now \in ReadSince(since)
  PROVE  now \in Nat /\ now <= clock /\ now >= clock - MaxWait
BY DEF ReadSince

\* Fencing a set of tasks keeps the types of the columns it writes.
LEMMA FenceType ==
  ASSUME TypeOK, NEW S \in SUBSET Task, NEW otherwise \in State,
         NEW why \in Reason, Fence(S, otherwise, why)
  PROVE  /\ epoch' \in [Task -> Nat]
         /\ lease' \in [Task -> Row \cup {NoLease}]
         /\ result' \in [Task -> Reason]
BY DEF TypeOK, Fence, NextEpoch

\* Fencing a set of tasks assigns every one of them a state of the right type.
LEMMA FencedType ==
  ASSUME TypeOK, NEW S \in SUBSET Task, NEW otherwise \in State
  PROVE  Fenced(S, otherwise) \in [Task -> State]
BY DEF TypeOK, Fenced, Interrupted, State, WorkflowState, Terminal

\* No step of a lease holder breaks the types.
LEMMA HolderType ==
  ASSUME TypeOK, NEW h \in issued, HolderStep(h)
  PROVE  TypeOK'
<1>1. h \in Handle /\ h.task \in Task /\ h.worker \in Worker /\ h.epoch \in Nat
  BY DEF TypeOK, Handle
<1> USE NumberAssumption, RepositoryAssumption
<1>2. ASSUME NEW now \in ReadSince(h.at), Renew(h, now)
      PROVE  TypeOK'
  <2>1. now \in Nat
    BY ReadSinceBound DEF TypeOK
  <2>2. lease[h.task] \in Row
    BY <1>1, <1>2, NoneAssumption DEF TypeOK, Renew, Valid, NoLease
  <2>3. [lease[h.task] EXCEPT !.expires = now + TTL] \in Row
    BY <2>1, <2>2 DEF Row
  <2>4. lease' \in [Task -> Row \cup {NoLease}]
    BY <1>1, <1>2, <2>3 DEF TypeOK, Renew
  <2>. QED
    BY <1>2, <2>4 DEF TypeOK, Renew, releaseVars
<1>3. ASSUME NEW now \in ReadSince(h.at), ReserveAiCall(h, now)
      PROVE  TypeOK'
  BY <1>1, <1>3 DEF TypeOK, ReserveAiCall, taskVars, releaseVars
<1>4. ASSUME NEW now \in ReadSince(h.at), NEW s \in Reported, Transition(h, s, now)
      PROVE  TypeOK'
  BY <1>1, <1>4, ReportedAssumption
  DEF TypeOK, Transition, TransitionRow, releaseVars, State, Reason, WorkflowState
<1>5. ASSUME NEW now \in ReadSince(h.at), Release(h, now)
      PROVE  TypeOK'
  BY <1>1, <1>5 DEF TypeOK, Release, releaseVars, State, WorkflowState
<1>6. ASSUME RecordReleaseSuccess(h) PROVE TypeOK'
  BY <1>1, <1>6 DEF TypeOK, RecordReleaseSuccess, PublishPointer, taskVars
<1>7. ASSUME RecordReleaseCrash(h) PROVE TypeOK'
  BY <1>1, <1>7 DEF TypeOK, RecordReleaseCrash, PublishPointer, taskVars
<1>. QED
  BY <1>2, <1>3, <1>4, <1>5, <1>6, <1>7 DEF HolderStep

\* Every step preserves the type invariant.
LEMMA TypeStep == TypeOK /\ [Next]_vars => TypeOK'
<1> SUFFICES ASSUME TypeOK, [Next]_vars PROVE TypeOK'
  OBVIOUS
<1> USE NumberAssumption
<1>1. ASSUME NEW t \in Task, Create(t) PROVE TypeOK'
  BY <1>1 DEF TypeOK, Create, releaseVars, State, WorkflowState
<1>2. ASSUME NEW t \in Task, NEW w \in Worker, NEW now \in ReadSince(0),
             Claim(t, w, now)
      PROVE  TypeOK'
  <2>1. now \in Nat
    BY ReadSinceBound DEF TypeOK
  <2>2. [worker |-> w, epoch |-> NextEpoch(t), expires |-> now + TTL] \in Row
    BY <2>1 DEF TypeOK, NextEpoch, Row
  <2>3. [task |-> t, worker |-> w, epoch |-> NextEpoch(t), at |-> clock] \in Handle
    BY DEF TypeOK, NextEpoch, Handle
  <2>. QED
    BY <1>2, <2>2, <2>3 DEF TypeOK, Claim, NextEpoch, releaseVars
<1>3. ASSUME NEW h \in issued, HolderStep(h) PROVE TypeOK'
  BY <1>3, HolderType
<1>4. ASSUME NEW t \in Task, NEW otherwise \in State, Control(t, otherwise),
             instructions' \in [Task -> Nat]
      PROVE  TypeOK'
  BY <1>4, FenceType, FencedType DEF TypeOK, Control, releaseVars, Reason
<1>5. ASSUME NEW t \in Task, ControlStep(t) PROVE TypeOK'
  <2>1. {"paused", "cancelled", "queued"} \subseteq State
    BY DEF State, WorkflowState, Terminal
  <2>2. instructions' \in [Task -> Nat]
    BY <1>5 DEF ControlStep, Pause, Cancel, Resume, Steer, TypeOK
  <2>. QED
    BY <1>4, <1>5, <2>1, <2>2 DEF ControlStep, Pause, Cancel, Resume, Steer
<1>6. ASSUME NEW now \in ReadSince(0), RecoverExpired(now) PROVE TypeOK'
  <2>1. Recoverable(now) \in SUBSET Task /\ "queued" \in State /\ "expired" \in Reason
    BY DEF Recoverable, State, WorkflowState, Reason
  <2>. QED
    BY <1>6, <2>1, FenceType, FencedType DEF TypeOK, RecoverExpired, releaseVars
<1>7. ASSUME NEW g \in Group, NEW R \in Replacements, Ingest(g, R) PROVE TypeOK'
  <2>1. /\ Superseded(g) \in SUBSET Task
        /\ "cancelled" \in State /\ "superseded" \in Reason
    BY DEF Superseded, State, WorkflowState, Terminal, Reason
  <2>2. ReplacementState(g) \in State
    BY DEF ReplacementState, State, WorkflowState
  <2>3. state' \in [Task -> State]
    BY <1>7, <2>1, <2>2, FencedType DEF Ingest
  <2>. QED
    BY <1>7, <2>1, <2>3, FenceType DEF TypeOK, Ingest, releaseVars
<1>8. CASE Tick
  BY <1>8 DEF TypeOK, Tick, taskVars, releaseVars
<1>9. CASE UNCHANGED vars
  BY <1>9 DEF TypeOK, vars
<1>. QED
  BY <1>1, <1>2, <1>3, <1>5, <1>6, <1>7, <1>8, <1>9 DEF Next

\* Every column of the task table keeps its type.
THEOREM TypeCorrect == Spec => []TypeOK
<1>1. Init => TypeOK
  BY DEF Init, TypeOK, State, Reason
<1>. QED
  BY <1>1, TypeStep, PTL DEF Spec

-----------------------------------------------------------------------------
\* Stages and leases.  A worker method passes _validate_lease only on a row that
\* has a lease, and the columns of that lease are those of the handle.
LEMMA ValidHasLease ==
  ASSUME TypeOK, NEW h \in issued, NEW now, Valid(h, now)
  PROVE  /\ h.task \in Task
         /\ lease[h.task] \in Row
         /\ lease[h.task] # NoLease
         /\ lease[h.task].epoch = epoch[h.task]
         /\ h.epoch = epoch[h.task]
BY NoneAssumption DEF TypeOK, Handle, Row, NoLease, Valid

\* No step leaves a row in a stage without a lease, or a lease on a closed row.
LEMMA StageHasLeaseStep ==
  TypeOK /\ StageHasLease /\ [Next]_vars => StageHasLease'
<1> SUFFICES ASSUME TypeOK, StageHasLease, [Next]_vars PROVE StageHasLease'
  OBVIOUS
<1> USE DEF StageHasLease, Stage, UnknownOutcome, Terminal
<1>1. ASSUME NEW t \in Task, Create(t) PROVE StageHasLease'
  BY <1>1 DEF TypeOK, Create
<1>2. ASSUME NEW t \in Task, NEW w \in Worker, NEW now \in ReadSince(0),
             Claim(t, w, now)
      PROVE  StageHasLease'
  BY <1>2 DEF TypeOK, Claim, Claimable
<1>3. ASSUME NEW h \in issued, HolderStep(h) PROVE StageHasLease'
  <2>1. ASSUME NEW now \in ReadSince(h.at), Renew(h, now) PROVE StageHasLease'
    <3>1. lease[h.task] # NoLease /\ h.task \in Task
      BY <2>1, ValidHasLease DEF Renew
    <3>2. lease[h.task] \in Row
      BY <2>1, ValidHasLease DEF Renew
    <3>3. lease'[h.task].worker = lease[h.task].worker
      BY <2>1, <3>1, <3>2 DEF Renew, TypeOK, Row
    <3>4. lease'[h.task] # NoLease
      BY <3>2, <3>3, NoneAssumption DEF Row, NoLease
    <3>. QED
      BY <2>1, <3>1, <3>4 DEF Renew, TypeOK
  <2>2. ASSUME NEW now \in ReadSince(h.at), ReserveAiCall(h, now)
        PROVE  StageHasLease'
    BY <2>2 DEF ReserveAiCall, taskVars
  <2>3. ASSUME NEW now \in ReadSince(h.at), NEW s \in Reported, Transition(h, s, now)
        PROVE  StageHasLease'
    <3>1. h.task \in Task /\ lease[h.task] # NoLease
      BY <2>3, ValidHasLease DEF Transition
    <3>. QED
      BY <2>3, <3>1, ReportedAssumption
      DEF Transition, TransitionRow, TypeOK, WorkflowState
  <2>4. ASSUME NEW now \in ReadSince(h.at), Release(h, now) PROVE StageHasLease'
    BY <2>4, ValidHasLease DEF Release, TypeOK
  <2>5. ASSUME PublishPointer(h) PROVE StageHasLease'
    BY <2>5 DEF PublishPointer, taskVars
  <2>. QED
    BY <1>3, <2>1, <2>2, <2>3, <2>4, <2>5
    DEF HolderStep, RecordReleaseSuccess, RecordReleaseCrash
<1>4. ASSUME NEW S \in SUBSET Task, NEW otherwise \in {"paused", "cancelled", "queued"},
             NEW why, state' = Fenced(S, otherwise), Fence(S, otherwise, why)
      PROVE  StageHasLease'
  BY <1>4 DEF Fenced, Fence, Interrupted, TypeOK
<1>5. ASSUME NEW t \in Task, ControlStep(t) PROVE StageHasLease'
  BY <1>4, <1>5 DEF ControlStep, Pause, Cancel, Resume, Steer, Control
<1>6. ASSUME NEW now \in ReadSince(0), RecoverExpired(now) PROVE StageHasLease'
  <2>1. Recoverable(now) \in SUBSET Task
    BY DEF Recoverable
  <2>. QED
    BY <1>4, <1>6, <2>1 DEF RecoverExpired
<1>7. ASSUME NEW g \in Group, NEW R \in Replacements, Ingest(g, R)
      PROVE  StageHasLease'
  <2>1. R \subseteq Task
    BY DEF Replacements
  <2>. QED
    BY <1>7, <2>1
    DEF Ingest, Superseded, ReplacementState, Fenced, Fence, Interrupted, TypeOK
<1>8. CASE Tick
  BY <1>8 DEF Tick, taskVars
<1>9. CASE UNCHANGED vars
  BY <1>9 DEF vars
<1>. QED
  BY <1>1, <1>2, <1>3, <1>5, <1>6, <1>7, <1>8, <1>9 DEF Next

\* A row is in a stage only while it carries a lease.
THEOREM StagesAreLeased == Spec => []StageHasLease
<1>1. Init => StageHasLease
  BY DEF Init, StageHasLease, Stage, UnknownOutcome, Terminal
<1>. QED
  BY <1>1, TypeCorrect, StageHasLeaseStep, PTL DEF Spec

-----------------------------------------------------------------------------
\* What one step can do to one row.
Untouched(t) ==
  /\ state'[t] = state[t] /\ epoch'[t] = epoch[t]
  /\ lease'[t] = lease[t] /\ result'[t] = result[t]

Created(t) ==
  /\ state[t] = "absent" /\ state'[t] \in {"queued", "paused"}
  /\ epoch'[t] = epoch[t] /\ lease'[t] = lease[t] /\ result'[t] = result[t]

Granted(t) ==
  /\ state[t] = "queued" /\ state'[t] = "queued"
  /\ epoch'[t] = epoch[t] + 1
  /\ lease'[t] \in Row /\ lease'[t].epoch = epoch[t] + 1
  /\ result'[t] = result[t]

Held(t) ==
  /\ \E h \in issued : h.task = t /\ Current(h)
  /\ lease[t] \in Row
  /\ state[t] \in Stage \cup {"queued"}
  /\ epoch'[t] = epoch[t]
  /\ \/ /\ state'[t] \in Stage \cup {"queued"}
        /\ lease'[t] \in Row
        /\ lease'[t].worker = lease[t].worker /\ lease'[t].epoch = lease[t].epoch
        /\ result'[t] = result[t]
     \/ /\ state'[t] = "queued" /\ lease'[t] = NoLease
        /\ result'[t] = result[t]
     \/ /\ state'[t] \in Terminal /\ lease'[t] = NoLease
        /\ result'[t] = "worker"

Revoked(t) ==
  /\ state[t] \notin Terminal \cup {"absent"}
  /\ epoch'[t] = epoch[t] + 1
  /\ lease'[t] = NoLease
  /\ IF state[t] \in UnknownOutcome THEN state'[t] = "unresolved"
     ELSE state'[t] \in {"queued", "paused", "cancelled"}
  /\ IF state'[t] \in Terminal THEN result'[t] # "none"
     ELSE result'[t] = result[t]

RowStep(t) ==
  Untouched(t) \/ Created(t) \/ Granted(t) \/ Held(t) \/ Revoked(t)

\* A lease holder touches its own row only, and never its epoch.
LEMMA HolderRow ==
  ASSUME TypeOK, StageHasLease, NEW h \in issued, HolderStep(h), NEW t \in Task
  PROVE  Untouched(t) \/ (h.task = t /\ Held(t))
<1> USE DEF Stage, UnknownOutcome, Terminal
<1>1. ASSUME NEW now, Valid(h, now)
      PROVE  state[h.task] \in Stage \cup {"queued"} /\ Current(h)
  BY <1>1, ValidHasLease
  DEF StageHasLease, TypeOK, State, WorkflowState, Valid, Current
<1>2. ASSUME NEW now \in ReadSince(h.at), Renew(h, now) PROVE h.task = t => Held(t)
  <2>1. lease[h.task] \in Row /\ h.task \in Task
    BY <1>2, ValidHasLease DEF Renew
  <2>2. now + TTL \in Nat
    BY ReadSinceBound, NumberAssumption DEF TypeOK
  <2>3. /\ lease'[h.task].worker = lease[h.task].worker
        /\ lease'[h.task].epoch = lease[h.task].epoch
        /\ lease'[h.task] \in Row
    BY <1>2, <2>1, <2>2 DEF Renew, TypeOK, Row
  <2>. QED
    BY <1>1, <1>2, <2>1, <2>3 DEF Renew, Held
<1>3. ASSUME NEW now \in ReadSince(h.at), Renew(h, now), h.task # t
      PROVE  Untouched(t)
  BY <1>3 DEF Renew, TypeOK, Untouched
<1>4. ASSUME NEW now \in ReadSince(h.at), ReserveAiCall(h, now) PROVE Untouched(t)
  BY <1>4 DEF ReserveAiCall, taskVars, Untouched
<1>5. ASSUME NEW now \in ReadSince(h.at), NEW s \in Reported, Transition(h, s, now)
      PROVE  Untouched(t) \/ (h.task = t /\ Held(t))
  BY <1>1, <1>5, ValidHasLease, ReportedAssumption
  DEF Transition, TransitionRow, TypeOK, WorkflowState, Untouched, Held
<1>6. ASSUME NEW now \in ReadSince(h.at), Release(h, now)
      PROVE  Untouched(t) \/ (h.task = t /\ Held(t))
  BY <1>1, <1>6, ValidHasLease DEF Release, TypeOK, Untouched, Held
<1>7. ASSUME PublishPointer(h) PROVE Untouched(t)
  BY <1>7 DEF PublishPointer, taskVars, Untouched
<1>. QED
  BY <1>2, <1>3, <1>4, <1>5, <1>6, <1>7
  DEF HolderStep, RecordReleaseSuccess, RecordReleaseCrash

\* What fencing does to each row of the fenced set, and to the others.
LEMMA FenceRow ==
  ASSUME TypeOK, NEW S \in SUBSET Task,
         \A u \in S : state[u] \notin Terminal \cup {"absent"},
         NEW otherwise \in {"paused", "cancelled", "queued"},
         NEW why \in Reason \ {"none"}, Fence(S, otherwise, why), NEW t \in Task,
         state'[t] = Fenced(S, otherwise)[t]
  PROVE  (t \notin S /\ Untouched(t)) \/ (t \in S /\ Revoked(t))
<1>1. CASE t \in S
  BY <1>1 DEF TypeOK, Fence, Fenced, Interrupted, NextEpoch, Revoked, Terminal,
              UnknownOutcome
<1>2. CASE t \notin S
  BY <1>2 DEF TypeOK, Fence, Fenced, Untouched
<1>. QED
  BY <1>1, <1>2

\* An operator control fences exactly one row that is not terminal.
LEMMA ControlRow ==
  ASSUME TypeOK, NEW u \in Task, ControlStep(u), NEW t \in Task
  PROVE  Untouched(t) \/ Revoked(t)
<1>1. "control" \in Reason \ {"none"}
  BY DEF Reason
<1>2. ASSUME NEW otherwise \in {"paused", "cancelled", "queued"},
             Control(u, otherwise)
      PROVE  Untouched(t) \/ Revoked(t)
  BY <1>1, <1>2, FenceRow DEF Control
<1>. QED
  BY <1>2 DEF ControlStep, Pause, Cancel, Resume, Steer

\* Recovery fences exactly the rows whose lease has expired.
LEMMA RecoverRow ==
  ASSUME TypeOK, StageHasLease, NEW now, RecoverExpired(now), NEW t \in Task
  PROVE  Untouched(t) \/ Revoked(t)
<1>1. "expired" \in Reason \ {"none"}
  BY DEF Reason
<1>2. \A u \in Recoverable(now) : lease[u] # NoLease
  BY DEF Recoverable, NoLease
<1>3. \A u \in Recoverable(now) : state[u] \notin Terminal \cup {"absent"}
  BY <1>2 DEF Recoverable, StageHasLease
<1>4. Recoverable(now) \in SUBSET Task
  BY DEF Recoverable
<1>. QED
  BY <1>1, <1>3, <1>4, FenceRow DEF RecoverExpired

\* A delivery fences the open rows of its group and may create one row.
LEMMA IngestRow ==
  ASSUME TypeOK, NEW g \in Group, NEW R \in Replacements, Ingest(g, R), NEW t \in Task
  PROVE  \/ Untouched(t) \/ Revoked(t)
         \/ t \in R /\ GroupOf[t] = g /\ Created(t)
<1>1. "superseded" \in Reason \ {"none"} /\ Superseded(g) \in SUBSET Task
  BY DEF Reason, Superseded
<1>2. \A u \in Superseded(g) : state[u] \notin Terminal \cup {"absent"}
  BY DEF Superseded
<1>3. CASE t \in R
  <2>1. state[t] = "absent" /\ t \notin Superseded(g) /\ GroupOf[t] = g
    BY <1>3 DEF Ingest, Superseded
  <2>. QED
    BY <1>3, <2>1 DEF Ingest, Fence, Created, ReplacementState, TypeOK
<1>4. CASE t \notin R
  <2>1. state'[t] = Fenced(Superseded(g), "cancelled")[t]
    BY <1>4 DEF Ingest
  <2>. QED
    BY <1>1, <1>2, <2>1, FenceRow DEF Ingest
<1>. QED
  BY <1>3, <1>4

\* Every step changes every row in one of the five ways.
LEMMA RowSteps ==
  ASSUME TypeOK, StageHasLease, [Next]_vars, NEW t \in Task
  PROVE  RowStep(t)
<1> USE DEF RowStep
<1>1. ASSUME NEW u \in Task, Create(u) PROVE RowStep(t)
  BY <1>1 DEF Create, TypeOK, Untouched, Created
<1>2. ASSUME NEW u \in Task, NEW w \in Worker, NEW now \in ReadSince(0),
             Claim(u, w, now)
      PROVE  RowStep(t)
  <2>1. now + TTL \in Nat
    BY ReadSinceBound, NumberAssumption DEF TypeOK
  <2>. QED
    BY <1>2, <2>1 DEF Claim, Claimable, NextEpoch, TypeOK, Untouched, Granted, Row
<1>3. ASSUME NEW h \in issued, HolderStep(h) PROVE RowStep(t)
  BY <1>3, HolderRow
<1>4. ASSUME NEW u \in Task, ControlStep(u) PROVE RowStep(t)
  BY <1>4, ControlRow
<1>5. ASSUME NEW now \in ReadSince(0), RecoverExpired(now) PROVE RowStep(t)
  BY <1>5, RecoverRow
<1>6. ASSUME NEW g \in Group, NEW R \in Replacements, Ingest(g, R) PROVE RowStep(t)
  BY <1>6, IngestRow
<1>7. CASE Tick
  BY <1>7 DEF Tick, taskVars, Untouched
<1>8. CASE UNCHANGED vars
  BY <1>8 DEF vars, Untouched
<1>. QED
  BY <1>1, <1>2, <1>3, <1>4, <1>5, <1>6, <1>7, <1>8 DEF Next

\* A terminal task is final, whatever arrives late.
THEOREM TerminalTasksAreFinal == Spec => TerminalIsFinal
<1>1. TypeOK /\ StageHasLease /\ [Next]_vars =>
        [\A t \in Task : state[t] \in Terminal =>
           /\ state'[t] = state[t]
           /\ epoch'[t] = epoch[t]
           /\ lease'[t] = lease[t]
           /\ result'[t] = result[t]]_vars
  BY RowSteps DEF RowStep, Untouched, Created, Granted, Held, Revoked, Terminal,
                  Stage, UnknownOutcome
<1>. QED
  BY <1>1, TypeCorrect, StagesAreLeased, PTL DEF Spec, TerminalIsFinal

\* Losing the lease in a stage with external effects always means unresolved.
THEOREM FencedEffectsAreUnresolved == Spec => FencedEffectIsUnresolved
<1>1. TypeOK /\ StageHasLease /\ [Next]_vars =>
        [\A t \in Task : state[t] \in UnknownOutcome /\ epoch'[t] # epoch[t]
           => state'[t] = "unresolved" /\ result'[t] # "none"]_vars
  BY RowSteps DEF RowStep, Untouched, Created, Granted, Held, Revoked, Terminal,
                  UnknownOutcome
<1>. QED
  BY <1>1, TypeCorrect, StagesAreLeased, PTL DEF Spec, FencedEffectIsUnresolved

-----------------------------------------------------------------------------
\* Handles.  A lease row carries the task's epoch, no handle is ahead of it, and
\* no two handles of a task share an epoch.
HandlesInv ==
  /\ \A t \in Task : lease[t] # NoLease => lease[t].epoch = epoch[t]
  /\ \A h \in issued : h.epoch <= epoch[h.task]
  /\ EpochNamesOneHandle

\* After every step a row's lease carries the row's own epoch.
LEMMA LeaseEpochStep ==
  ASSUME TypeOK, StageHasLease, HandlesInv, [Next]_vars, NEW t \in Task,
         lease'[t] # NoLease
  PROVE  lease'[t].epoch = epoch'[t]
<1>1. lease[t] \in Row => lease[t] # NoLease
  BY NoneAssumption DEF Row, NoLease
<1>. QED
  BY <1>1, RowSteps
  DEF RowStep, Untouched, Created, Granted, Held, Revoked, HandlesInv

\* Epochs never go back.
LEMMA EpochGrows ==
  ASSUME TypeOK, StageHasLease, [Next]_vars, NEW t \in Task
  PROVE  epoch'[t] >= epoch[t]
<1>1. epoch[t] \in Nat
  BY DEF TypeOK
<1>2. epoch'[t] = epoch[t] \/ epoch'[t] = epoch[t] + 1
  BY RowSteps, Zenon DEF RowStep, Untouched, Created, Granted, Held, Revoked
<1>. QED
  BY <1>1, <1>2

\* Only a claim hands out a handle, under an epoch above every earlier one.
LEMMA IssuedStep ==
  ASSUME TypeOK, [Next]_vars
  PROVE  \/ issued' \subseteq issued
         \/ \E t \in Task, w \in Worker :
              /\ epoch'[t] = epoch[t] + 1
              /\ issued' = issued \cup {[task |-> t, worker |-> w,
                                         epoch |-> epoch[t] + 1, at |-> clock]}
<1>1. CASE UNCHANGED vars
  BY <1>1 DEF vars
<1>2. ASSUME NEW t \in Task, NEW w \in Worker, NEW now \in ReadSince(0),
             Claim(t, w, now)
      PROVE  /\ epoch'[t] = epoch[t] + 1
             /\ issued' = issued \cup {[task |-> t, worker |-> w,
                                        epoch |-> epoch[t] + 1, at |-> clock]}
  BY <1>2 DEF Claim, NextEpoch, TypeOK
<1>3. ASSUME NEW h \in issued, HolderStep(h) PROVE issued' \subseteq issued
  BY <1>3 DEF HolderStep, Renew, ReserveAiCall, Transition, Release,
              RecordReleaseSuccess, RecordReleaseCrash
<1>4. ASSUME NEW t \in Task, ControlStep(t) PROVE issued' \subseteq issued
  BY <1>4 DEF ControlStep, Pause, Cancel, Resume, Steer, Control
<1>5. CASE \/ \E t \in Task : Create(t)
           \/ \E now \in ReadSince(0) : RecoverExpired(now)
           \/ \E g \in Group, R \in Replacements : Ingest(g, R)
           \/ Tick
  BY <1>5 DEF Create, RecoverExpired, Ingest, Tick
<1>. QED
  BY <1>1, <1>2, <1>3, <1>4, <1>5 DEF Next

\* Every step preserves the facts about the Lease objects handed out.
LEMMA HandlesStep ==
  TypeOK /\ StageHasLease /\ HandlesInv /\ [Next]_vars => HandlesInv'
<1> SUFFICES ASSUME TypeOK, StageHasLease, HandlesInv, [Next]_vars
             PROVE  HandlesInv'
  OBVIOUS
<1>1. \A t \in Task : lease'[t] # NoLease => lease'[t].epoch = epoch'[t]
  BY LeaseEpochStep
<1>2. \A h \in issued : h.task \in Task /\ h.epoch \in Nat /\ h.epoch <= epoch'[h.task]
  <2> TAKE h \in issued
  <2>1. h.task \in Task /\ h.epoch \in Nat
    BY DEF TypeOK, Handle
  <2>2. epoch'[h.task] \in Nat /\ epoch[h.task] \in Nat
    BY <2>1, TypeStep DEF TypeOK
  <2>. QED
    BY <2>1, <2>2, EpochGrows DEF HandlesInv
<1>3. CASE issued' \subseteq issued
  BY <1>1, <1>2, <1>3 DEF HandlesInv, EpochNamesOneHandle
<1>4. CASE \E t \in Task, w \in Worker :
             /\ epoch'[t] = epoch[t] + 1
             /\ issued' = issued \cup {[task |-> t, worker |-> w,
                                        epoch |-> epoch[t] + 1, at |-> clock]}
  <2>1. PICK t \in Task, w \in Worker :
          /\ epoch'[t] = epoch[t] + 1
          /\ issued' = issued \cup {[task |-> t, worker |-> w,
                                     epoch |-> epoch[t] + 1, at |-> clock]}
    BY <1>4
  <2> DEFINE new == [task |-> t, worker |-> w, epoch |-> epoch[t] + 1, at |-> clock]
  <2>2. new.task = t /\ new.epoch = epoch'[t] /\ epoch[t] \in Nat
    BY <2>1 DEF TypeOK
  <2>3. \A h \in issued : h.task = t => h.epoch # new.epoch
    BY <2>2, <2>1 DEF HandlesInv, TypeOK, Handle
  <2>4. \A h \in issued' : h \in issued \/ h = new
    BY <2>1
  <2> HIDE DEF new
  <2>5. \A h \in issued' : h.epoch <= epoch'[h.task]
    BY <1>2, <2>1, <2>2, <2>4
  <2>6. EpochNamesOneHandle'
    BY <2>2, <2>3, <2>4 DEF EpochNamesOneHandle, HandlesInv
  <2>. QED
    BY <1>1, <2>5, <2>6 DEF HandlesInv
<1>. QED
  BY <1>3, <1>4, IssuedStep

\* The facts about the Lease objects handed out hold in every state.
LEMMA HandlesAlways == Spec => []HandlesInv
<1>1. Init => HandlesInv
  BY DEF Init, HandlesInv, EpochNamesOneHandle
<1>. QED
  BY <1>1, HandlesStep, TypeCorrect, StagesAreLeased, PTL DEF Spec

\* An epoch of a task belongs to one Lease object.
THEOREM OneHandlePerEpoch == Spec => []EpochNamesOneHandle
<1>1. HandlesInv => EpochNamesOneHandle
  BY DEF HandlesInv
<1>. QED
  BY <1>1, HandlesAlways, PTL

\* A handle that lost its task stays lost, even when its worker reclaims it.
LEMMA CurrentStep ==
  ASSUME TypeOK, StageHasLease, HandlesInv, [Next]_vars, NEW h \in issued, ~Current(h)
  PROVE  ~Current(h)'
<1>1. /\ h.task \in Task /\ h.epoch \in Nat /\ h.worker \in Worker
      /\ h.epoch <= epoch[h.task] /\ epoch[h.task] \in Nat
  BY DEF TypeOK, Handle, HandlesInv
<1>2. lease'[h.task] = NoLease => ~Current(h)'
  BY <1>1, NoneAssumption DEF Current, NoLease
<1>. QED
  BY <1>1, <1>2, RowSteps
  DEF RowStep, Untouched, Created, Granted, Held, Revoked, Current

\* A lease that was released, revoked or replaced never validates again.
THEOREM RevokedHandlesStayRevoked == Spec => RevokedForever
<1>1. TypeOK /\ StageHasLease /\ HandlesInv /\ [Next]_vars =>
        [\A h \in issued : ~Current(h) => ~Current(h)']_vars
  BY CurrentStep
<1>. QED
  BY <1>1, TypeCorrect, StagesAreLeased, HandlesAlways, PTL
  DEF Spec, RevokedForever

-----------------------------------------------------------------------------
\* Exclusive repositories.  With MaxWait = 0 a method decides on the clock value
\* at which it commits, and a step makes at most the claimed task live.
LEMMA ClockStep ==
  ASSUME TypeOK, [Next]_vars
  PROVE  clock' >= clock
<1>1. CASE Tick \/ UNCHANGED vars
  BY <1>1 DEF Tick, vars, TypeOK
<1>2. ASSUME NEW h \in issued, HolderStep(h) PROVE clock' = clock
  BY <1>2 DEF HolderStep, Renew, ReserveAiCall, Transition, Release,
              RecordReleaseSuccess, RecordReleaseCrash, PublishPointer
<1>3. ASSUME NEW t \in Task, ControlStep(t) PROVE clock' = clock
  BY <1>3 DEF ControlStep, Pause, Cancel, Resume, Steer, Control
<1>. QED
  BY <1>1, <1>2, <1>3 DEF TypeOK, Next, Create, Claim, RecoverExpired, Ingest

\* Without stale clock readings, only a claim makes a row's lease live.
LEMMA NewlyLive ==
  ASSUME TypeOK, StageHasLease, MaxWait = 0, [Next]_vars, NEW t \in Task,
         ~Live(t), Live(t)'
  PROVE  \E w \in Worker : Claim(t, w, clock)
<1> USE DEF Live, LeasedAt
<1>1. clock \in Nat /\ lease[t] \in Row \cup {NoLease} /\ clock' >= clock
  BY ClockStep DEF TypeOK
<1>2. clock' \in Nat /\ lease'[t] \in Row \cup {NoLease}
  BY TypeStep DEF TypeOK
<1>3. lease'[t] # lease[t] /\ lease'[t] # NoLease
  <2>1. lease'[t] # NoLease
    BY DEF NoLease
  <2>2. lease'[t] = lease[t] => FALSE
    BY <1>1, <1>2, NoneAssumption DEF Row, NoLease
  <2>. QED
    BY <2>1, <2>2
<1>4. \A since : \A now \in ReadSince(since) : now = clock
  BY <1>1 DEF ReadSince
<1>5. ASSUME NEW h \in issued, HolderStep(h) PROVE FALSE
  <2>1. ASSUME Renew(h, clock) PROVE FALSE
    <3>1. lease[h.task] \in Row /\ h.task \in Task
      BY <2>1, ValidHasLease DEF Renew
    <3>2. h.task = t
      BY <1>3, <2>1, <3>1 DEF Renew, TypeOK
    <3>. QED
      BY <2>1, <3>1, <3>2, NoneAssumption DEF Renew, Valid, Row
  <2>2. ASSUME NEW s \in Reported, Transition(h, s, clock) PROVE FALSE
    BY <1>3, <2>2 DEF Transition, TransitionRow, TypeOK
  <2>3. ASSUME Release(h, clock) PROVE FALSE
    BY <1>3, <2>3 DEF Release, TypeOK
  <2>. QED
    BY <1>3, <1>4, <1>5, <2>1, <2>2, <2>3
    DEF HolderStep, ReserveAiCall, RecordReleaseSuccess, RecordReleaseCrash,
        PublishPointer, taskVars
<1>6. ASSUME NEW u \in Task, NEW w \in Worker, NEW now \in ReadSince(0),
             Claim(u, w, now)
      PROVE  \E v \in Worker : Claim(t, v, clock)
  BY <1>3, <1>4, <1>6 DEF Claim, TypeOK
<1>7. ASSUME NEW u \in Task, ControlStep(u) PROVE FALSE
  BY <1>3, <1>7 DEF ControlStep, Pause, Cancel, Resume, Steer, Control, Fence
<1>8. ASSUME NEW now, RecoverExpired(now) PROVE FALSE
  BY <1>3, <1>8 DEF RecoverExpired, Fence
<1>9. ASSUME NEW g \in Group, NEW R \in Replacements, Ingest(g, R) PROVE FALSE
  BY <1>3, <1>9 DEF Ingest, Fence
<1>. QED
  BY <1>3, <1>5, <1>6, <1>7, <1>8, <1>9
  DEF Next, Create, Tick, vars, taskVars

\* Without stale clock readings, every step keeps a repository's leases exclusive.
LEMMA ExclusiveStep ==
  ASSUME TypeOK, StageHasLease, MaxWait = 0, RepositoryExclusive, [Next]_vars
  PROVE  RepositoryExclusive'
<1> SUFFICES ASSUME NEW t \in Task, NEW u \in Task, t # u, RepoOf[t] = RepoOf[u],
                    Live(t)', Live(u)'
             PROVE  FALSE
  BY DEF RepositoryExclusive
\* Of two live rows one is new, and its claim saw the other one live.
<1>1. ASSUME NEW a \in Task, NEW b \in Task, a # b, RepoOf[a] = RepoOf[b],
             ~Live(a), Live(a)', Live(b)'
      PROVE  FALSE
  <2>1. PICK w \in Worker : Claim(a, w, clock)
    BY <1>1, NewlyLive
  <2>2. ~LeasedAt(b, clock)
    BY <1>1, <2>1 DEF Claim, Claimable
  <2>3. lease'[b] = lease[b] /\ clock' = clock
    BY <1>1, <2>1 DEF Claim, TypeOK
  <2>. QED
    BY <1>1, <2>2, <2>3 DEF Live, LeasedAt
<1>. QED
  BY <1>1 DEF RepositoryExclusive

\* If no method ever acts on an old reading of the clock, two tasks of one
\* repository never hold a live lease together.
THEOREM RepositoriesAreExclusive == MaxWait = 0 => (Spec => []RepositoryExclusive)
<1> SUFFICES ASSUME MaxWait = 0 PROVE Spec => []RepositoryExclusive
  OBVIOUS
<1>1. Init => RepositoryExclusive
  BY DEF Init, RepositoryExclusive, Live, LeasedAt, NoLease
<1>2. TypeOK /\ StageHasLease /\ RepositoryExclusive /\ [Next]_vars
        => RepositoryExclusive'
  BY ExclusiveStep
<1>. QED
  BY <1>1, <1>2, TypeCorrect, StagesAreLeased, PTL DEF Spec

-----------------------------------------------------------------------------
\* The durable AI budget.
LEMMA AiBudgetStep ==
  ASSUME TypeOK, AiBudget, [Next]_vars
  PROVE  AiBudget'
<1> USE NumberAssumption DEF AiBudget
<1>1. ASSUME NEW h \in issued, NEW now, ReserveAiCall(h, now) PROVE AiBudget'
  <2>1. h.task \in Task /\ h.epoch \in Nat
    BY DEF TypeOK, Handle
  <2>2. /\ aiCalls[h.task] \in Seq(Nat)
        /\ Len(aiCalls[h.task]) < AiLimit
        /\ aiCalls' = [aiCalls EXCEPT ![h.task] = Append(aiCalls[h.task], h.epoch)]
    BY <1>1, <2>1 DEF ReserveAiCall, CallsCharged, TypeOK
  <2>3. Len(Append(aiCalls[h.task], h.epoch)) = Len(aiCalls[h.task]) + 1
    BY <2>1, <2>2
  <2>4. Len(aiCalls[h.task]) \in Nat
    BY <2>2
  <2>5. Len(Append(aiCalls[h.task], h.epoch)) <= AiLimit
    BY <2>2, <2>3, <2>4
  <2>. QED
    BY <2>1, <2>2, <2>5 DEF TypeOK
<1>2. aiCalls' = aiCalls => AiBudget'
  OBVIOUS
<1>3. ASSUME NEW h \in issued, HolderStep(h) PROVE AiBudget'
  BY <1>1, <1>2, <1>3 DEF HolderStep, Renew, Transition, Release,
       RecordReleaseSuccess, RecordReleaseCrash, PublishPointer
<1>4. ASSUME NEW t \in Task, ControlStep(t) PROVE aiCalls' = aiCalls
  BY <1>4 DEF ControlStep, Pause, Cancel, Resume, Steer, Control
<1>. QED
  BY <1>2, <1>3, <1>4
  DEF Next, Create, Claim, RecoverExpired, Ingest, Tick, vars

\* No sequence of claims, releases and recoveries exceeds the durable budget.
THEOREM AiBudgetHolds == Spec => []AiBudget
<1>1. Init => AiBudget
  BY NumberAssumption DEF Init, AiBudget
<1>. QED
  BY <1>1, AiBudgetStep, TypeCorrect, PTL DEF Spec

-----------------------------------------------------------------------------
\* Torn releases.  Nobody still holds a current handle on a monitoring task whose
\* pointer was written without its event, so only a fence moves it.
TornInv ==
  \A r \in Repository :
    pointer[r] \in Task \ released =>
      \/ state[pointer[r]] = "unresolved"
      \/ /\ state[pointer[r]] = "monitoring"
         /\ \A h \in issued : h.task = pointer[r] => ~Current(h)

\* Only a monitoring lease holder moves a success pointer, to its own task.
LEMMA PointerStep ==
  ASSUME [Next]_vars
  PROVE  \/ pointer' = pointer /\ released' = released
         \/ \E h \in issued : RecordReleaseSuccess(h) \/ RecordReleaseCrash(h)
<1>1. ASSUME NEW h \in issued, HolderStep(h)
      PROVE  \/ pointer' = pointer /\ released' = released
             \/ RecordReleaseSuccess(h) \/ RecordReleaseCrash(h)
  BY <1>1 DEF HolderStep, Renew, ReserveAiCall, Transition, Release, releaseVars
<1>2. ASSUME NEW t \in Task, ControlStep(t)
      PROVE  pointer' = pointer /\ released' = released
  BY <1>2 DEF ControlStep, Pause, Cancel, Resume, Steer, Control, releaseVars
<1>. QED
  BY <1>1, <1>2
  DEF Next, Create, Claim, RecoverExpired, Ingest, Tick, vars, releaseVars

\* Every step keeps a pointer without an event on a monitoring or unresolved row.
LEMMA TornStep ==
  ASSUME TypeOK, StageHasLease, HandlesInv, TornInv, [Next]_vars
  PROVE  TornInv'
<1> SUFFICES ASSUME NEW r \in Repository, pointer'[r] \in Task \ released'
             PROVE  \/ state'[pointer'[r]] = "unresolved"
                    \/ /\ state'[pointer'[r]] = "monitoring"
                       /\ \A h \in issued' : h.task = pointer'[r] => ~Current(h)'
  BY DEF TornInv
<1> USE DEF Terminal, UnknownOutcome, Stage
\* A pointer that was torn before: its task has no current handle to move it.
<1>1. ASSUME pointer'[r] = pointer[r], pointer[r] \in Task \ released
      PROVE  \/ state'[pointer[r]] = "unresolved"
             \/ /\ state'[pointer[r]] = "monitoring"
                /\ \A h \in issued' : h.task = pointer[r] => ~Current(h)'
  <2> DEFINE t == pointer[r]
  <2>1. CASE state[t] = "unresolved"
    BY <1>1, <2>1, RowSteps
    DEF RowStep, Untouched, Created, Granted, Held, Revoked
  <2>2. CASE state[t] = "monitoring" /\ \A h \in issued : h.task = t => ~Current(h)
    <3>1. Untouched(t) \/ Revoked(t)
      BY <1>1, <2>2, RowSteps DEF RowStep, Created, Granted, Held
    <3>2. CASE Untouched(t)
      <4>1. \A h \in issued : h.task = t => ~Current(h)'
        BY <2>2, CurrentStep
      <4>2. epoch'[t] = epoch[t] /\ epoch[t] \in Nat
        BY <1>1, <3>2 DEF Untouched, TypeOK
      <4>3. \A h \in issued' : h \in issued \/ h.task # t
        BY <4>2, IssuedStep
      <4>. QED
        BY <2>2, <3>2, <4>1, <4>3 DEF Untouched
    <3>3. CASE Revoked(t)
      BY <2>2, <3>3 DEF Revoked
    <3>. QED
      BY <3>1, <3>2, <3>3
  <2>. QED
    BY <1>1, <2>1, <2>2 DEF TornInv
\* A pointer torn by this step: the dead worker had the only current handle.
<1>2. ASSUME NEW h \in issued, RecordReleaseSuccess(h) \/ RecordReleaseCrash(h),
             pointer'[r] # pointer[r]
      PROVE  /\ state'[pointer'[r]] = "monitoring"
             /\ \A g \in issued' : g.task = pointer'[r] => ~Current(g)'
  <2>1. Valid(h, clock) /\ h.task \in Task
    BY <1>2, ValidHasLease
    DEF RecordReleaseSuccess, RecordReleaseCrash, PublishPointer
  <2>2. pointer'[r] = h.task
    BY <1>2 DEF RecordReleaseSuccess, RecordReleaseCrash, PublishPointer, TypeOK
  <2>3. RecordReleaseCrash(h)
    BY <1>2, <2>2 DEF RecordReleaseSuccess
  <2>4. state'[h.task] = "monitoring"
    BY <2>3 DEF RecordReleaseCrash, PublishPointer, taskVars
  <2>5. ASSUME NEW g \in issued \ {h}, g.task = h.task PROVE ~Current(g)'
    <3>1. g.epoch # h.epoch
      BY <2>5 DEF HandlesInv, EpochNamesOneHandle
    <3>2. epoch' = epoch /\ epoch[h.task] = h.epoch
      BY <2>1, <2>3 DEF RecordReleaseCrash, PublishPointer, taskVars, Valid
    <3>. QED
      BY <2>5, <3>1, <3>2 DEF Current
  <2>. QED
    BY <2>2, <2>3, <2>4, <2>5 DEF RecordReleaseCrash
<1>3. released \subseteq released'
  BY PointerStep DEF RecordReleaseSuccess, RecordReleaseCrash
<1>. QED
  BY <1>1, <1>2, <1>3, PointerStep

\* The strengthened invariant about torn releases holds in every state.
LEMMA TornAlways == Spec => []TornInv
<1>1. Init => TornInv
  BY NoneAssumption DEF Init, TornInv
<1>2. TypeOK /\ StageHasLease /\ HandlesInv /\ TornInv /\ [Next]_vars => TornInv'
  BY TornStep
<1>. QED
  BY <1>1, <1>2, TypeCorrect, StagesAreLeased, HandlesAlways, PTL DEF Spec

\* A success pointer without its event stays visible as monitoring or unresolved.
THEOREM TornReleasesStayVisible == Spec => []TornReleaseStaysVisible
<1>1. TornInv => TornReleaseStaysVisible
  BY DEF TornInv, TornReleaseStaysVisible
<1>. QED
  BY <1>1, TornAlways, PTL

-----------------------------------------------------------------------------
\* Event groups.  Only a delivery opens a task of a group, after closing the rest.
Open(t) == state[t] \notin Terminal \cup {"absent"}

\* A grouped row becomes open only through a delivery for its group.
LEMMA OpenedByIngest ==
  ASSUME TypeOK, StageHasLease, [Next]_vars, NEW t \in Task, GroupOf[t] # None,
         ~Open(t), Open(t)'
  PROVE  \E g \in Group, R \in Replacements :
           Ingest(g, R) /\ t \in R /\ GroupOf[t] = g
<1> USE DEF Open
<1>1. state'[t] # state[t]
  OBVIOUS
<1>2. ~Revoked(t) /\ ~Held(t)
  BY DEF Revoked, Held, Terminal, Stage, UnknownOutcome
<1>3. ASSUME NEW u \in Task, Create(u) PROVE FALSE
  BY <1>1, <1>3 DEF Create, TypeOK
<1>4. ASSUME NEW h \in issued, HolderStep(h) PROVE FALSE
  BY <1>1, <1>2, <1>4, HolderRow DEF Untouched
<1>5. ASSUME NEW u \in Task, ControlStep(u) PROVE FALSE
  BY <1>1, <1>2, <1>5, ControlRow DEF Untouched
<1>6. ASSUME NEW now, RecoverExpired(now) PROVE FALSE
  BY <1>1, <1>2, <1>6, RecoverRow DEF Untouched
<1>7. ASSUME NEW g \in Group, NEW R \in Replacements, Ingest(g, R)
      PROVE  t \in R /\ GroupOf[t] = g
  BY <1>1, <1>2, <1>7, IngestRow DEF Untouched
<1>. QED
  BY <1>1, <1>3, <1>4, <1>5, <1>6, <1>7 DEF Next, Claim, Tick, taskVars, vars

\* A delivery closes every open task of its group.
LEMMA IngestCloses ==
  ASSUME TypeOK, NEW g \in Group, NEW R \in Replacements, Ingest(g, R),
         NEW t \in Task, GroupOf[t] = g, t \notin R
  PROVE  ~Open(t)'
<1>1. state'[t] = Fenced(Superseded(g), "cancelled")[t]
  BY DEF Ingest
<1>. QED
  BY <1>1 DEF Fenced, Superseded, Interrupted, Open, Terminal

\* Every step keeps at most one open row in an event group.
LEMMA OneOpenStep ==
  ASSUME TypeOK, StageHasLease, OneOpenTaskPerGroup, [Next]_vars
  PROVE  OneOpenTaskPerGroup'
<1> SUFFICES ASSUME NEW t \in Task, NEW u \in Task, GroupOf[t] = GroupOf[u],
                    GroupOf[t] # None, Open(t)', Open(u)', t # u
             PROVE  FALSE
  BY DEF OneOpenTaskPerGroup, Open
<1>1. ASSUME NEW a \in Task, NEW b \in Task, a # b, GroupOf[a] = GroupOf[b],
             GroupOf[a] # None, ~Open(a), Open(a)', Open(b)'
      PROVE  FALSE
  <2>1. PICK g \in Group, R \in Replacements :
          Ingest(g, R) /\ a \in R /\ GroupOf[a] = g
    BY <1>1, OpenedByIngest
  <2>2. b \notin R
    BY <1>1, <2>1 DEF Replacements
  <2>. QED
    BY <1>1, <2>1, <2>2, IngestCloses
<1>. QED
  BY <1>1 DEF OneOpenTaskPerGroup, Open

\* At most one task of an event group can still run.
THEOREM OneOpenTask == Spec => []OneOpenTaskPerGroup
<1>1. Init => OneOpenTaskPerGroup
  BY DEF Init, OneOpenTaskPerGroup
<1>2. TypeOK /\ StageHasLease /\ OneOpenTaskPerGroup /\ [Next]_vars
        => OneOpenTaskPerGroup'
  BY OneOpenStep
<1>. QED
  BY <1>1, <1>2, TypeCorrect, StagesAreLeased, PTL DEF Spec

\* The replacement of paused or possibly effective work starts paused.
THEOREM ReplacementsWait == Spec => ReplacementWaits
<1>1. ASSUME TypeOK, StageHasLease, [Next]_vars,
             NEW t \in Task, NEW u \in Task, GroupOf[t] = GroupOf[u],
             GroupOf[t] # None, state[t] \in UnknownOutcome \cup {"paused"},
             state[u] = "absent", state'[u] # "absent"
      PROVE  state'[u] = "paused"
  <2>1. ~Open(u) /\ Open(u)'
    BY <1>1, RowSteps
    DEF RowStep, Untouched, Created, Granted, Held, Revoked, Open, Stage,
        Terminal, UnknownOutcome
  <2>2. PICK g \in Group, R \in Replacements :
          Ingest(g, R) /\ u \in R /\ GroupOf[u] = g
    BY <1>1, <2>1, OpenedByIngest
  <2>3. t \in Superseded(g)
    BY <1>1, <2>2 DEF Superseded, UnknownOutcome, Terminal
  <2>. QED
    BY <1>1, <2>2, <2>3 DEF Ingest, ReplacementState
<1>2. TypeOK /\ StageHasLease /\ [Next]_vars =>
        [\A t, u \in Task :
           /\ GroupOf[t] = GroupOf[u] /\ GroupOf[t] # None
           /\ state[t] \in UnknownOutcome \cup {"paused"}
           /\ state[u] = "absent" /\ state'[u] # "absent"
           => state'[u] = "paused"]_vars
  BY <1>1
<1>. QED
  BY <1>2, TypeCorrect, StagesAreLeased, PTL DEF Spec, ReplacementWaits

-----------------------------------------------------------------------------
\* The task table implements FencedWork.
FreshInv == \A t \in Task : state[t] = "absent" => epoch[t] = 0

\* Every step leaves a row that does not exist yet at epoch 0.
LEMMA FreshStep ==
  ASSUME TypeOK, StageHasLease, FreshInv, [Next]_vars
  PROVE  FreshInv'
<1> SUFFICES ASSUME NEW t \in Task, state'[t] = "absent" PROVE epoch'[t] = 0
  BY DEF FreshInv
<1>1. ~Created(t) /\ ~Granted(t) /\ ~Held(t) /\ ~Revoked(t)
  BY DEF Created, Granted, Held, Revoked, Stage, UnknownOutcome, Terminal
<1>. QED
  BY <1>1, RowSteps DEF RowStep, Untouched, FreshInv

\* A row that does not exist yet is at epoch 0 in every state.
LEMMA FreshAlways == Spec => []FreshInv
<1>1. Init => FreshInv
  BY DEF Init, FreshInv
<1>2. TypeOK /\ StageHasLease /\ FreshInv /\ [Next]_vars => FreshInv'
  BY FreshStep
<1>. QED
  BY <1>1, <1>2, TypeCorrect, StagesAreLeased, PTL DEF Spec

\* The phase of a row, by the kind of its state.
PhaseFacts(t) ==
  /\ Phase(t) \in Promise!Phase
  /\ state[t] = "absent" => Phase(t) = "absent"
  /\ state[t] = "paused" => Phase(t) = "parked"
  /\ state[t] = "unresolved" => Phase(t) = "unresolved"
  /\ state[t] \in Terminal \ {"unresolved"} => Phase(t) = "closed"
  /\ state[t] \in Stage \cup {"queued"} =>
       Phase(t) = IF lease[t] = NoLease THEN "idle" ELSE "held"

\* The abstract phase of a row, by cases on its state.
LEMMA PhaseCases == TypeOK => \A t \in Task : PhaseFacts(t)
<1> SUFFICES ASSUME TypeOK, NEW t \in Task PROVE PhaseFacts(t)
  OBVIOUS
<1>1. state[t] \in State
  BY DEF TypeOK
<1>. QED
  BY <1>1 DEF PhaseFacts, Phase, Promise!Phase, State, WorkflowState, Stage,
              UnknownOutcome, Terminal

\* The same facts about the abstract phase after a step.
LEMMA PhaseCasesNext == TypeOK' => \A t \in Task : PhaseFacts(t)'
<1>1. (TypeOK => \A t \in Task : PhaseFacts(t))'
  BY PhaseCases, PTL
<1>. QED
  BY <1>1

\* The abstract view of a row has the type FencedWork expects.
LEMMA ItemType ==
  TypeOK => [t \in Task |-> ItemOf(t)] \in [Task -> Promise!Item]
BY PhaseCases DEF PhaseFacts, ItemOf, Promise!Item, TypeOK

\* The three lease columns of a grant are never those of a row without a lease.
LEMMA RowIsLeased ==
  ASSUME NEW row \in Row
  PROVE  row # NoLease
BY NoneAssumption DEF Row, NoLease

\* Every step of a row is a FencedWork step of its abstract view.
LEMMA ItemStep ==
  ASSUME TypeOK, TypeOK', StageHasLease, FreshInv, [Next]_vars, NEW t \in Task
  PROVE  Promise!Step(ItemOf(t), ItemOf(t)')
<1> USE DEF ItemOf, Promise!Step, Stage, UnknownOutcome, Terminal
<1>1. epoch[t] \in Nat
  BY DEF TypeOK
<1>2. PhaseFacts(t)'
  BY PhaseCasesNext
<1>3. CASE Untouched(t)
  BY <1>3 DEF Untouched, Phase
<1>4. CASE Created(t)
  <2>0. Phase(t) = "absent" /\ epoch[t] = 0 /\ (state[t] \in UnknownOutcome) = FALSE
    BY <1>4, PhaseCases DEF Created, PhaseFacts, FreshInv
  <2>1. ItemOf(t) = Promise!Unborn
    BY <2>0, Zenon DEF Promise!Unborn
  <2>2. lease[t] = NoLease /\ epoch[t] = 0
    BY <1>4 DEF Created, StageHasLease, FreshInv
  <2>3. Promise!Opens(ItemOf(t), ItemOf(t)')
    BY <1>2, <1>4, <2>1, <2>2 DEF Created, PhaseFacts, Promise!Opens
  <2>. QED
    BY <2>3
<1>5. CASE Granted(t)
  <2>1. Phase(t) \in {"idle", "held"} /\ Phase(t)' = "held"
    BY <1>2, <1>5, PhaseCases, RowIsLeased DEF Granted, PhaseFacts
  <2>2. /\ (state[t] \in UnknownOutcome) = FALSE
        /\ (state'[t] \in UnknownOutcome) = FALSE
        /\ epoch'[t] = epoch[t] + 1
    BY <1>5 DEF Granted
  <2>3. ItemOf(t)' = [phase |-> "held", token |-> ItemOf(t).token + 1,
                      inFlight |-> FALSE]
    BY <2>1, <2>2, Zenon
  <2>4. ItemOf(t).phase \in {"idle", "held"} /\ ~ItemOf(t).inFlight
    BY <2>1, <2>2
  <2>. QED
    BY <2>3, <2>4 DEF Promise!Grants
<1>6. CASE Held(t)
  <2>1. Phase(t) = "held"
    BY <1>6, PhaseCases, RowIsLeased DEF Held, PhaseFacts
  <2>2. /\ Phase(t)' \in {"held", "idle", "closed", "unresolved"}
        /\ state'[t] \in UnknownOutcome => Phase(t)' = "held"
    BY <1>2, <1>6, RowIsLeased DEF Held, PhaseFacts
  <2>3. Promise!HolderActs(ItemOf(t), ItemOf(t)')
    BY <1>6, <2>1, <2>2 DEF Held, Promise!HolderActs
  <2>. QED
    BY <2>3
<1>7. CASE Revoked(t)
  <2>1. Phase(t) \in {"idle", "held", "parked"}
    BY <1>7, PhaseCases DEF Revoked, PhaseFacts, TypeOK, State, WorkflowState
  <2>2. /\ Phase(t)' \in {"idle", "parked", "closed", "unresolved"}
        /\ state[t] \in UnknownOutcome => Phase(t)' = "unresolved"
        /\ state[t] \notin UnknownOutcome => Phase(t)' \in {"idle", "parked", "closed"}
    BY <1>2, <1>7 DEF Revoked, PhaseFacts
  <2>3. Promise!Revokes(ItemOf(t), ItemOf(t)')
    BY <1>7, <2>1, <2>2 DEF Revoked, Promise!Revokes
  <2>. QED
    BY <2>3
<1>. QED
  BY <1>3, <1>4, <1>5, <1>6, <1>7, RowSteps DEF RowStep

\* Only a claim leaves a row leased under a new epoch, and it leaves one.
LEMMA GrantIsClaim ==
  ASSUME TypeOK, StageHasLease, [Next]_vars, NEW t \in Task,
         epoch'[t] # epoch[t], lease'[t] # NoLease
  PROVE  \E w \in Worker, now \in ReadSince(0) : Claim(t, w, now)
<1>1. ~Untouched(t) /\ ~Created(t) /\ ~Held(t) /\ ~Revoked(t)
  BY DEF Untouched, Created, Held, Revoked
<1>2. ASSUME NEW u \in Task, NEW w \in Worker, NEW now \in ReadSince(0),
             Claim(u, w, now)
      PROVE  u = t
  BY <1>2 DEF Claim, TypeOK
<1>. QED
  BY <1>1, <1>2, HolderRow, ControlRow, RecoverRow, IngestRow
  DEF Next, Create, Tick, taskVars, vars

\* Every step of the task table is a step of the abstract fencing protocol, or
\* leaves the abstract view unchanged.
THEOREM TaskStoreImplementsFencedWork == Spec => ImplementsFencedWork
<1>1. Init => Promise!Init
  <2> SUFFICES ASSUME Init, NEW t \in Task PROVE ItemOf(t) = Promise!Unborn
    BY DEF Promise!Init
  <2>1. state[t] = "absent" /\ epoch[t] = 0
    BY DEF Init
  <2>2. Phase(t) = "absent" /\ (state[t] \in UnknownOutcome) = FALSE
    BY <2>1 DEF Phase, UnknownOutcome, Terminal
  <2>. QED
    BY <2>1, <2>2, Zenon DEF Promise!Unborn, ItemOf
<1>2. TypeOK /\ TypeOK' /\ StageHasLease /\ FreshInv /\ [Next]_vars
        => [Promise!Next]_([t \in Task |-> ItemOf(t)])
  <2> SUFFICES ASSUME TypeOK, TypeOK', StageHasLease, FreshInv, [Next]_vars
               PROVE  Promise!Next
    OBVIOUS
  <2>1. ([t \in Task |-> ItemOf(t)] \in [Task -> Promise!Item])'
    BY ItemType, PTL
  <2>2. \A t \in Task : Promise!Step(ItemOf(t), ItemOf(t)')
    BY ItemStep
  <2>3. ASSUME NEW t \in Task, NEW u \in Task,
               Phase(t)' = "held", epoch'[t] # epoch[t],
               Phase(u)' = "held", epoch'[u] # epoch[u]
        PROVE  t = u
    <3>1. \A v \in Task : Phase(v)' = "held" => lease'[v] # NoLease
      BY DEF Phase
    <3>2. PICK w \in Worker, now \in ReadSince(0) : Claim(t, w, now)
      BY <2>3, <3>1, GrantIsClaim
    <3>. QED
      BY <2>3, <3>2 DEF Claim, TypeOK
  <2>. QED
    BY <2>1, <2>2, <2>3 DEF Promise!Next, ItemOf
<1>. QED
  BY <1>1, <1>2, TypeCorrect, StagesAreLeased, FreshAlways, PTL
  DEF Spec, ImplementsFencedWork, Promise!Spec

=============================================================================
