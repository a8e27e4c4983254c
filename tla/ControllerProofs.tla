-------------------------- MODULE ControllerProofs --------------------------
(***************************************************************************)
(* Theorems about Controller for every set of tasks, workers and           *)
(* repositories, every fleet, and every value of the numeric constants.    *)
(*                                                                         *)
(* A run is a walk over a small graph of steps.  The tables below give,    *)
(* for each place in a run, the state the task row is in while the worker  *)
(* owns it and what the release hooks have done by then; StepKinds reduces *)
(* the next-state relation to the edges of that graph.                     *)
(***************************************************************************)
EXTENDS Controller, TaskStoreProofs

\* The places of a run from "publishing" on: an external operation may be in
\* flight, and a worker there that lost its task left it unresolved.
Delivering == {"publishing", "opened", "awaiting", "merging", "delivered"}
Releasing ==
  {"deploy", "deploying", "deployed", "health", "healthy", "unhealthy", "rollback",
   "rolling", "rolled", "recovering", "complete"}
Acting == Delivering \cup Releasing

\* The places right before an external operation: cleared to perform it.
Cleared == {"publishing", "merging", "deploying", "rolling"}

\* The states a task row can be in while the worker at this place owns it.
StateAt(p) ==
  CASE p \in {"claimed", "fetched"} -> {"queued"}
    [] p = "prepared" -> {"preparing"}
    [] p \in {"baseline", "passed", "failing"} -> {"testing"}
    [] p \in {"rechecking", "verifying", "candidate", "checking"} -> {"verifying"}
    [] p \in {"diagnosing", "diagnosed"} -> {"diagnosing"}
    [] p \in {"repairing", "proposed"} -> {"repairing"}
    [] p \in {"reviewing", "reviewed"} -> {"reviewing"}
    [] p = "accepted" -> {"reviewing", "verifying"}
    [] p \in Delivering -> {"publishing"}
    [] p = "release" -> {"testing", "verifying", "publishing"}
    [] p \in {"deploy", "deploying", "deployed", "rollback", "rolling", "rolled"}
         -> {"deploying"}
    [] p \in {"health", "healthy", "unhealthy", "recovering", "complete"}
         -> {"monitoring"}
    [] OTHER -> {}

\* What the release hooks of the task have last done at this place.
RolloutAt(p) ==
  CASE p = "deployed" -> "deploying"
    [] p = "health" -> "deployed"
    [] p \in {"healthy", "complete"} -> "healthy"
    [] p \in {"unhealthy", "rollback", "rolling"} -> "broken"
    [] p = "rolled" -> "rolling back"
    [] p = "recovering" -> "rolled back"
    [] OTHER -> "none"

-----------------------------------------------------------------------------
\* The edges of a run.  From, reported state, to.
ReportEdge ==
  {<<"fetched", "preparing", "prepared">>, <<"prepared", "testing", "baseline">>,
   <<"passed", "verifying", "rechecking">>, <<"failing", "diagnosing", "diagnosing">>,
   <<"diagnosed", "repairing", "repairing">>, <<"verifying", "repairing", "repairing">>,
   <<"reviewed", "repairing", "repairing">>, <<"proposed", "verifying", "verifying">>,
   <<"verifying", "reviewing", "reviewing">>, <<"reviewed", "verifying", "candidate">>,
   <<"accepted", "publishing", "publishing">>, <<"opened", "publishing", "awaiting">>,
   <<"opened", "publishing", "delivered">>, <<"release", "verifying", "checking">>,
   <<"release", "deploying", "deploy">>, <<"checking", "deploying", "deploy">>,
   <<"deployed", "monitoring", "health">>, <<"deployed", "monitoring", "unhealthy">>,
   <<"unhealthy", "deploying", "rollback">>, <<"rolled", "monitoring", "recovering">>}
\* Checks that only look at the lease, and the calls to the AI provider.
LookEdge ==
  {<<"baseline", "passed">>, <<"baseline", "failing">>, <<"reviewed", "accepted">>,
   <<"candidate", "accepted">>, <<"awaiting", "merging">>, <<"delivered", "release">>,
   <<"deploy", "deploying">>, <<"rollback", "rolling">>, <<"health", "healthy">>,
   <<"health", "unhealthy">>}
AskEdge ==
  {<<"diagnosing", "diagnosed">>, <<"repairing", "proposed">>,
   <<"reviewing", "reviewed">>}
\* External operations other than the merge: from, operation, to.
ActEdge ==
  {<<"publishing", "publish", "opened">>, <<"publishing", "publish", "awaiting">>,
   <<"publishing", "publish", "delivered">>, <<"deploying", "deploy", "deployed">>,
   <<"rolling", "rollback", "rolled">>}
\* The last report of a run that ends by itself.
EndEdge ==
  {<<"passed", "completed">>, <<"accepted", "completed">>, <<"delivered", "completed">>,
   <<"complete", "completed">>, <<"recovering", "failed">>}

\* The worker goes from p to q with the same lease, under the same instructions.
Goes(w, p, q, sha) ==
  \E x \in Execution :
    /\ run[w].pc = p /\ run' = [run EXCEPT ![w] = x]
    /\ x.pc = q /\ x.lease = run[w].lease /\ x.seen = run[w].seen /\ x.sha = sha

\* The hooks' progress is what the new place says, or did not change.
RolloutMoves(w, p, q) ==
  \/ rollout' = rollout /\ RolloutAt(p) = RolloutAt(q)
  \/ rollout' = [rollout EXCEPT ![Job(w)] = RolloutAt(q)]

Reports(w, p, s, q) ==
  /\ <<p, s, q>> \in ReportEdge
  /\ Goes(w, p, q, run[w].sha)
  /\ Report(w, s)
  /\ RolloutMoves(w, p, q)
  /\ q = "rechecking" => Mode(w) = "watched"
  /\ q = "checking" => Repo(w).checks
  /\ UNCHANGED <<policy, request, head, effects>>

Looks(w, p, q) ==
  /\ <<p, q>> \in LookEdge
  /\ Goes(w, p, q, run[w].sha)
  /\ Active(w)
  /\ RolloutMoves(w, p, q)
  /\ q = "release" => Repo(w).hooks /\ SameTree(w)
  /\ UNCHANGED <<vars, policy, request, head, effects>>

Asks(w, p, q) ==
  /\ <<p, q>> \in AskEdge
  /\ Goes(w, p, q, run[w].sha)
  /\ \E now \in ReadSince(Lease(w).at) : ReserveAiCall(Lease(w), now)
  /\ UNCHANGED outside

Acts(w, p, kind, q, rev) ==
  /\ <<p, kind, q>> \in ActEdge
  /\ rev \in Nat /\ (kind = "deploy" => rev = run[w].sha)
  /\ Goes(w, p, q, run[w].sha)
  /\ Perform(w, kind, rev)
  /\ RolloutMoves(w, p, q)
  /\ UNCHANGED <<vars, policy, request, head>>

Ends(w, p, s) ==
  /\ <<p, s>> \in EndEdge
  /\ run[w].pc = p /\ run' = [run EXCEPT ![w] = Idle]
  /\ Report(w, s)
  /\ IF s = "failed" THEN rollout' = [rollout EXCEPT ![Job(w)] = "restored"]
                     ELSE rollout' = rollout
  /\ UNCHANGED <<policy, request, head, effects>>

WorkerStep(w) ==
  \/ ClaimTask(w) \/ FetchTask(w) \/ ReleaseBase(w) \/ Merge(w)
  \/ \E p, s, q : Reports(w, p, s, q)
  \/ \E p, q : Looks(w, p, q)
  \/ \E p, q : Asks(w, p, q)
  \/ \E p, kind, q, rev : Acts(w, p, kind, q, rev)
  \/ \E p, s : Ends(w, p, s)
  \/ RecordSuccess(w) \/ RecordTorn(w) \/ Raise(w) \/ Crash(w)
  \/ Heartbeat(w) \/ RequestStop(w)

\* A worker that advances keeps its lease, its instructions and its commit.
LEMMA AdvanceGoes ==
  ASSUME run \in [Worker -> Execution], NEW w \in Worker, NEW p \in Step, NEW q \in Step,
         Advance(w, p, q)
  PROVE  Goes(w, p, q, run[w].sha)
<1>1. run[w] \in Execution /\ run[w].pc = p /\ p # "idle"
  BY DEF Advance, Step
<1>2. run[w] \in [pc : Step, lease : Handle, seen : Nat, attempt : Nat, sha : Nat,
                  stop : BOOLEAN]
  BY <1>1 DEF Execution, Idle
<1> DEFINE x == [run[w] EXCEPT !.pc = q]
<1>3. x \in Execution
  BY <1>2 DEF Execution
<1>4. x.pc = q /\ x.lease = run[w].lease /\ x.seen = run[w].seen /\ x.sha = run[w].sha
  BY <1>2
<1>5. run' = [run EXCEPT ![w] = x]
  BY DEF Advance
<1>. QED
  BY <1>1, <1>3, <1>4, <1>5 DEF Goes

\* So does a worker that starts another repair attempt.
LEMMA RepairGoes ==
  ASSUME run \in [Worker -> Execution], NEW w \in Worker, Repair(w)
  PROVE  Goes(w, run[w].pc, "repairing", run[w].sha)
<1>1. run[w] \in Execution /\ run[w].pc # "idle"
  BY DEF Repair
<1>2. run[w] \in [pc : Step, lease : Handle, seen : Nat, attempt : Nat, sha : Nat,
                  stop : BOOLEAN]
  BY <1>1 DEF Execution, Idle
<1> DEFINE x == [run[w] EXCEPT !.pc = "repairing", !.attempt = run[w].attempt + 1]
<1>3. x \in Execution
  <2>1. run[w].attempt + 1 \in Nat /\ "repairing" \in Step
    BY <1>2 DEF Step
  <2>2. x \in [pc : Step, lease : Handle, seen : Nat, attempt : Nat, sha : Nat,
               stop : BOOLEAN]
    BY <1>2, <2>1
  <2>. QED
    BY <2>2 DEF Execution
<1>4. /\ x.pc = "repairing" /\ x.lease = run[w].lease
      /\ x.seen = run[w].seen /\ x.sha = run[w].sha
  BY <1>2
<1>5. run' = [run EXCEPT ![w] = x]
  BY <1>2 DEF Repair
<1>. QED
  BY <1>3, <1>4, <1>5 DEF Goes

\* The reports of the pipeline are edges of the graph.
LEMMA ReportSteps ==
  ASSUME ControllerTypeOK, NEW w \in Worker,
         \/ Prepare(w) \/ StartBaseline(w) \/ RecheckBase(w) \/ Diagnose(w)
         \/ Repair(w) \/ VerifyEdits(w) \/ Review(w) \/ VerifyCandidate(w)
         \/ StartPublishing(w) \/ RecordPullRequest(w) \/ AwaitReleaseChecks(w)
         \/ StartDeploy(w) \/ DeployPasses(w) \/ DeployFails(w) \/ StartRollback(w)
         \/ RollbackPasses(w)
  PROVE  \E p, s, q : Reports(w, p, s, q)
<1>0. run \in [Worker -> Execution]
  BY DEF ControllerTypeOK
<1>1. ASSUME NEW p \in Step, NEW s, NEW q \in Step,
             <<p, s, q>> \in ReportEdge, RolloutAt(p) = RolloutAt(q), Advance(w, p, q),
             Report(w, s), UNCHANGED outside, q \notin {"rechecking", "checking"}
      PROVE  Reports(w, p, s, q)
  BY <1>0, <1>1, AdvanceGoes DEF Reports, RolloutMoves, outside
<1>2. ASSUME Repair(w) PROVE \E p, s, q : Reports(w, p, s, q)
  <2>1. Goes(w, run[w].pc, "repairing", run[w].sha)
    BY <1>0, <1>2, RepairGoes
  <2>2. <<run[w].pc, "repairing", "repairing">> \in ReportEdge
    BY <1>2 DEF Repair, ReportEdge
  <2>3. RolloutAt(run[w].pc) = RolloutAt("repairing")
    BY <1>2 DEF Repair, RolloutAt
  <2>4. Reports(w, run[w].pc, "repairing", "repairing")
    BY <1>2, <2>1, <2>2, <2>3 DEF Repair, Reports, RolloutMoves, outside
  <2>. QED
    BY <2>4, <1>2 DEF Repair
<1>3. ASSUME RecheckBase(w) PROVE Reports(w, "passed", "verifying", "rechecking")
  BY <1>0, <1>3, AdvanceGoes
  DEF RecheckBase, Reports, RolloutMoves, ReportEdge, RolloutAt, Step, outside
<1>4. ASSUME AwaitReleaseChecks(w) PROVE Reports(w, "release", "verifying", "checking")
  BY <1>0, <1>4, AdvanceGoes
  DEF AwaitReleaseChecks, Reports, RolloutMoves, ReportEdge, RolloutAt, Step, outside
<1>5. ASSUME NEW p \in Step, NEW q \in Step, <<p, "monitoring", q>> \in ReportEdge,
             Advance(w, p, q), Report(w, "monitoring"), Mark(w, RolloutAt(q)),
             UNCHANGED <<policy, request, head, effects>>, q \notin {"rechecking", "checking"}
      PROVE  Reports(w, p, "monitoring", q)
  BY <1>0, <1>5, AdvanceGoes DEF Reports, RolloutMoves, Mark
<1>6. ASSUME DeployPasses(w) PROVE Reports(w, "deployed", "monitoring", "health")
  BY <1>5, <1>6 DEF DeployPasses, Monitor, ReportEdge, RolloutAt, Step
<1>7. ASSUME DeployFails(w) PROVE Reports(w, "deployed", "monitoring", "unhealthy")
  <2>1. RolloutAt("unhealthy") = "broken" /\ {"deployed", "unhealthy"} \subseteq Step
    BY DEF RolloutAt, Step
  <2>2. <<"deployed", "monitoring", "unhealthy">> \in ReportEdge
    BY DEF ReportEdge
  <2>. QED
    BY <1>5, <1>7, <2>1, <2>2 DEF DeployFails, Monitor
<1>8. ASSUME RollbackPasses(w) PROVE Reports(w, "rolled", "monitoring", "recovering")
  <2>1. RolloutAt("recovering") = "rolled back" /\ {"rolled", "recovering"} \subseteq Step
    BY DEF RolloutAt, Step
  <2>2. <<"rolled", "monitoring", "recovering">> \in ReportEdge
    BY DEF ReportEdge
  <2>. QED
    BY <1>5, <1>8, <2>1, <2>2 DEF RollbackPasses
<1>10. ASSUME Prepare(w) PROVE Reports(w, "fetched", "preparing", "prepared")
  BY <1>1, <1>10 DEF Prepare, ReportEdge, RolloutAt, Step
<1>11. ASSUME StartBaseline(w) PROVE Reports(w, "prepared", "testing", "baseline")
  BY <1>1, <1>11 DEF StartBaseline, ReportEdge, RolloutAt, Step
<1>12. ASSUME Diagnose(w) PROVE Reports(w, "failing", "diagnosing", "diagnosing")
  BY <1>1, <1>12 DEF Diagnose, ReportEdge, RolloutAt, Step
<1>13. ASSUME VerifyEdits(w) PROVE Reports(w, "proposed", "verifying", "verifying")
  BY <1>1, <1>13 DEF VerifyEdits, ReportEdge, RolloutAt, Step
<1>14. ASSUME Review(w) PROVE Reports(w, "verifying", "reviewing", "reviewing")
  BY <1>1, <1>14 DEF Review, ReportEdge, RolloutAt, Step
<1>15. ASSUME VerifyCandidate(w) PROVE Reports(w, "reviewed", "verifying", "candidate")
  BY <1>1, <1>15 DEF VerifyCandidate, ReportEdge, RolloutAt, Step
<1>16. ASSUME StartPublishing(w) PROVE Reports(w, "accepted", "publishing", "publishing")
  BY <1>1, <1>16 DEF StartPublishing, ReportEdge, RolloutAt, Step
<1>17. ASSUME RecordPullRequest(w)
       PROVE  \/ Reports(w, "opened", "publishing", "awaiting")
              \/ Reports(w, "opened", "publishing", "delivered")
  BY <1>1, <1>17 DEF RecordPullRequest, ReportEdge, RolloutAt, Step
<1>18. ASSUME StartDeploy(w)
       PROVE  \/ Reports(w, "release", "deploying", "deploy")
              \/ Reports(w, "checking", "deploying", "deploy")
  BY <1>1, <1>18 DEF StartDeploy, ReportEdge, RolloutAt, Step
<1>19. ASSUME StartRollback(w) PROVE Reports(w, "unhealthy", "deploying", "rollback")
  BY <1>1, <1>19 DEF StartRollback, ReportEdge, RolloutAt, Step
<1>. QED
  BY <1>2, <1>3, <1>4, <1>6, <1>7, <1>8, <1>10, <1>11, <1>12, <1>13, <1>14, <1>15,
     <1>16, <1>17, <1>18, <1>19

\* The checks that only look at the lease are edges of the graph.
LEMMA LookSteps ==
  ASSUME ControllerTypeOK, NEW w \in Worker,
         \/ BaselinePasses(w) \/ BaselineFails(w) \/ Approve(w) \/ AcceptCandidate(w)
         \/ MayMerge(w) \/ ReleaseMerged(w) \/ EnterHook(w) \/ HealthPasses(w)
         \/ HealthFails(w)
  PROVE  \E p, q : Looks(w, p, q)
<1>0. run \in [Worker -> Execution]
  BY DEF ControllerTypeOK
<1>1. ASSUME NEW p \in Step, NEW q \in Step, <<p, q>> \in LookEdge,
             RolloutAt(p) = RolloutAt(q), Advance(w, p, q), Active(w), Look,
             q = "release" => Repo(w).hooks /\ SameTree(w)
      PROVE  Looks(w, p, q)
  BY <1>0, <1>1, AdvanceGoes DEF Looks, RolloutMoves, Look, outside
<1>2. ASSUME BaselinePasses(w) PROVE Looks(w, "baseline", "passed")
  BY <1>1, <1>2 DEF BaselinePasses, LookEdge, RolloutAt, Step
<1>3. ASSUME BaselineFails(w) PROVE Looks(w, "baseline", "failing")
  BY <1>1, <1>3 DEF BaselineFails, LookEdge, RolloutAt, Step
<1>4. ASSUME Approve(w) PROVE Looks(w, "reviewed", "accepted")
  BY <1>1, <1>4 DEF Approve, LookEdge, RolloutAt, Step
<1>5. ASSUME AcceptCandidate(w) PROVE Looks(w, "candidate", "accepted")
  BY <1>1, <1>5 DEF AcceptCandidate, LookEdge, RolloutAt, Step
<1>6. ASSUME MayMerge(w) PROVE Looks(w, "awaiting", "merging")
  BY <1>1, <1>6 DEF MayMerge, LookEdge, RolloutAt, Step
<1>7. ASSUME ReleaseMerged(w) PROVE Looks(w, "delivered", "release")
  BY <1>1, <1>7 DEF ReleaseMerged, LookEdge, RolloutAt, Step
<1>8. ASSUME EnterHook(w)
      PROVE  Looks(w, "deploy", "deploying") \/ Looks(w, "rollback", "rolling")
  BY <1>1, <1>8 DEF EnterHook, LookEdge, RolloutAt, Step
<1>9. ASSUME NEW q \in {"healthy", "unhealthy"}, Probe(w, q, RolloutAt(q))
      PROVE  Looks(w, "health", q)
  <2>1. {"health", "healthy", "unhealthy"} \subseteq Step
    BY DEF Step
  <2>2. <<"health", q>> \in LookEdge /\ q # "release"
    BY DEF LookEdge
  <2>. QED
    BY <1>0, <1>9, <2>1, <2>2, AdvanceGoes DEF Looks, RolloutMoves, Probe, Mark
<1>10. HealthPasses(w) => Looks(w, "health", "healthy")
  <2>1. RolloutAt("healthy") = "healthy"
    BY DEF RolloutAt
  <2>. QED
    BY <1>9, <2>1 DEF HealthPasses
<1>11. HealthFails(w) => Looks(w, "health", "unhealthy")
  <2>1. RolloutAt("unhealthy") = "broken"
    BY DEF RolloutAt
  <2>. QED
    BY <1>9, <2>1 DEF HealthFails
<1>. QED
  BY <1>2, <1>3, <1>4, <1>5, <1>6, <1>7, <1>8, <1>10, <1>11

\* So are the calls to the AI provider.
LEMMA AskSteps ==
  ASSUME ControllerTypeOK, NEW w \in Worker, Ask(w)
  PROVE  \E p, q : Asks(w, p, q)
<1>0. run \in [Worker -> Execution]
  BY DEF ControllerTypeOK
<1>1. \E p \in Step, q \in Step : <<p, q>> \in AskEdge /\ Advance(w, p, q)
  BY DEF Ask, AskEdge, Step
<1>. QED
  BY <1>0, <1>1, AdvanceGoes DEF Ask, Asks

\* So are the external operations other than the merge.
LEMMA ActSteps ==
  ASSUME ControllerTypeOK, NEW w \in Worker, run[w].pc # "idle",
         run[w].lease.task \in Task,
         \/ Publish(w) \/ Deploy(w) \/ Rollback(w)
  PROVE  \E p, kind, q, rev : Acts(w, p, kind, q, rev)
<1>0. /\ run \in [Worker -> Execution]
      /\ run[w].sha \in Nat /\ Want(w) \in Nat
  BY DEF ControllerTypeOK, Execution, Idle, Want, Job
<1>1. ASSUME NEW q \in {"opened", "awaiting", "delivered"},
             Advance(w, "publishing", q), Publish(w)
      PROVE  Acts(w, "publishing", "publish", q, Want(w))
  <2>1. "publishing" \in Step /\ q \in Step /\ RolloutAt("publishing") = RolloutAt(q)
    BY DEF Step, RolloutAt
  <2>2. <<"publishing", "publish", q>> \in ActEdge
    BY DEF ActEdge
  <2>. QED
    BY <1>0, <1>1, <2>1, <2>2, AdvanceGoes DEF Acts, RolloutMoves, Publish
<1>2. Publish(w) => \E p, kind, q, rev : Acts(w, p, kind, q, rev)
  BY <1>1 DEF Publish
<1>3. Deploy(w) => Acts(w, "deploying", "deploy", "deployed", run[w].sha)
  <2>1. {"deploying", "deployed"} \subseteq Step /\ RolloutAt("deployed") = "deploying"
    BY DEF Step, RolloutAt
  <2>. QED
    BY <1>0, <2>1, AdvanceGoes DEF Acts, RolloutMoves, Deploy, Mark, ActEdge
<1>4. Rollback(w) => Acts(w, "rolling", "rollback", "rolled", run[w].sha)
  <2>1. {"rolling", "rolled"} \subseteq Step /\ RolloutAt("rolled") = "rolling back"
    BY DEF Step, RolloutAt
  <2>. QED
    BY <1>0, <2>1, AdvanceGoes DEF Acts, RolloutMoves, Rollback, Mark, ActEdge
<1>. QED
  BY <1>2, <1>3, <1>4

\* So are the reports that end a run.
LEMMA EndSteps ==
  ASSUME NEW w \in Worker,
         \/ CompleteHealthy(w) \/ CompleteUndelivered(w) \/ CompleteDelivered(w)
         \/ CompleteRelease(w) \/ FailRestored(w)
  PROVE  \E p, s : Ends(w, p, s)
<1>1. ASSUME NEW p, <<p, "completed">> \in EndEdge, Finish(w, p), Report(w, "completed"),
             UNCHANGED outside
      PROVE  Ends(w, p, "completed")
  BY <1>1 DEF Ends, Finish, outside
<1>2. CompleteHealthy(w) => Ends(w, "passed", "completed")
  BY <1>1 DEF CompleteHealthy, EndEdge
<1>3. CompleteUndelivered(w) => Ends(w, "accepted", "completed")
  BY <1>1 DEF CompleteUndelivered, EndEdge
<1>4. CompleteDelivered(w) => Ends(w, "delivered", "completed")
  BY <1>1 DEF CompleteDelivered, EndEdge
<1>5. CompleteRelease(w) => Ends(w, "complete", "completed")
  BY <1>1 DEF CompleteRelease, EndEdge
<1>6. FailRestored(w) => Ends(w, "recovering", "failed")
  BY DEF FailRestored, Ends, Finish, EndEdge, Mark
<1>. QED
  BY <1>2, <1>3, <1>4, <1>5, <1>6

-----------------------------------------------------------------------------
\* A worker that runs has a lease object of its own.  While that lease is current
\* the row is in the state the place in the run says; a worker that lost it from
\* "publishing" on left the task unresolved.
Tied(w) ==
  run[w].pc # "idle" =>
    /\ Lease(w) \in issued /\ Lease(w).worker = w
    /\ state[Job(w)] # "absent"
    /\ Current(Lease(w)) => state[Job(w)] \in StateAt(run[w].pc)
    /\ run[w].pc \in Acting => Current(Lease(w)) \/ state[Job(w)] = "unresolved"

RunInv == \A w \in Worker : Tied(w)

ControllerInv == ControllerTypeOK /\ StageHasLease /\ HandlesInv /\ RunInv

\* A worker that is not idle is at a step, with a lease object.
LEMMA BusyType ==
  ASSUME ControllerTypeOK, NEW w \in Worker, run[w].pc # "idle"
  PROVE  /\ run[w] \in [pc : Step, lease : Handle, seen : Nat, attempt : Nat,
                        sha : Nat, stop : BOOLEAN]
         /\ Lease(w) \in Handle /\ Job(w) \in Task /\ Lease(w).task = Job(w)
         /\ run[w].pc \in Step /\ run[w].seen \in Nat /\ run[w].sha \in Nat
BY DEF ControllerTypeOK, Execution, Idle, Lease, Job, Handle

\* A worker that is idle has no leftovers.
LEMMA IdleRun ==
  ASSUME ControllerTypeOK, NEW w \in Worker, run[w].pc = "idle"
  PROVE  run[w] = Idle
BY DEF ControllerTypeOK, Execution, Idle, Step

\* Every step is an edge of the graph, a change around a run, or not the workers'.
LEMMA StepKinds ==
  ASSUME ControllerTypeOK, [ControllerNext]_allVars
  PROVE  \/ \E w \in Worker : WorkerStep(w)
         \/ Environment
         \/ UNCHANGED allVars
<1>1. ASSUME NEW w \in Worker, Pipeline(w) PROVE WorkerStep(w)
  <2>1. Publish(w) \/ Deploy(w) \/ Rollback(w) => run[w].pc # "idle"
    BY DEF Publish, Deploy, Rollback, Advance
  <2>2. Publish(w) \/ Deploy(w) \/ Rollback(w)
          => \E p, kind, q, rev : Acts(w, p, kind, q, rev)
    <3>1. run[w].pc # "idle" => run[w].lease.task \in Task
      BY BusyType DEF Job
    <3>. QED
      BY <2>1, <3>1, ActSteps
  <2>. QED
    BY <1>1, <2>2, ReportSteps, LookSteps, AskSteps, EndSteps DEF Pipeline, WorkerStep
<1>. QED
  BY <1>1 DEF ControllerNext, WorkerStep

\* Whatever a worker reports is a state its lease allows it to set.
LEMMA StagesReported ==
  /\ \A p, s, q : <<p, s, q>> \in ReportEdge => s \in Reported
  /\ \A p, s : <<p, s>> \in EndEdge => s \in Reported
  /\ {"failed", "unresolved"} \subseteq Reported
BY ReportedStatesAssumption DEF ReportEdge, EndEdge

\* A report is a step of the worker's own lease.
LEMMA ReportIsHolder ==
  ASSUME NEW w \in Worker, NEW s \in Reported, Report(w, s)
  PROVE  HolderStep(Lease(w))
BY DEF Report, HolderStep

\* The exception handler takes a step of the worker's own lease, or none.
LEMMA RaiseIsHolder ==
  ASSUME NEW w \in Worker, Raise(w)
  PROVE  HolderStep(Lease(w)) \/ UNCHANGED vars
<1>1. Outcome(w) \in Reported
  BY StagesReported DEF Outcome
<1>. QED
  BY <1>1 DEF Raise, HandleException, HolderStep

\* What each edge does to the task table.
LEMMA WorkerHolds ==
  ASSUME NEW w \in Worker, WorkerStep(w)
  PROVE  \/ ClaimTask(w)
         \/ run[w].pc # "idle" /\ HolderStep(Lease(w))
         \/ UNCHANGED vars
<1>1. ASSUME NEW p, NEW s, NEW q, Reports(w, p, s, q)
      PROVE  run[w].pc # "idle" /\ HolderStep(Lease(w))
  <2>1. s \in Reported /\ p # "idle"
    BY <1>1, StagesReported DEF Reports, ReportEdge
  <2>. QED
    BY <1>1, <2>1, ReportIsHolder DEF Reports, Goes
<1>2. ASSUME NEW p, NEW s, Ends(w, p, s)
      PROVE  run[w].pc # "idle" /\ HolderStep(Lease(w))
  <2>1. s \in Reported /\ p # "idle"
    BY <1>2, StagesReported DEF Ends, EndEdge
  <2>. QED
    BY <1>2, <2>1, ReportIsHolder DEF Ends
<1>3. ASSUME NEW p, NEW q, Asks(w, p, q)
      PROVE  run[w].pc # "idle" /\ HolderStep(Lease(w))
  <2>1. p # "idle"
    BY <1>3 DEF Asks, AskEdge
  <2>. QED
    BY <1>3, <2>1 DEF Asks, Goes, HolderStep
<1>4. RecordSuccess(w) \/ RecordTorn(w) \/ Heartbeat(w)
        => run[w].pc # "idle" /\ HolderStep(Lease(w))
  BY DEF RecordSuccess, RecordTorn, Heartbeat, HolderStep, Advance, Finish, Step
<1>5. Raise(w) => run[w].pc # "idle"
  BY DEF Raise, Step
<1>6. ASSUME NEW p, NEW q, Looks(w, p, q) PROVE UNCHANGED vars
  BY <1>6 DEF Looks, vars
<1>7. ASSUME NEW p, NEW kind, NEW q, NEW rev, Acts(w, p, kind, q, rev)
      PROVE  UNCHANGED vars
  BY <1>7 DEF Acts, vars
<1>8. FetchTask(w) \/ ReleaseBase(w) \/ Merge(w) \/ Crash(w) \/ RequestStop(w)
        => UNCHANGED vars
  BY DEF FetchTask, ReleaseBase, Merge, Crash, RequestStop, Look, vars
<1>. QED
  BY <1>1, <1>2, <1>3, <1>4, <1>5, <1>6, <1>7, <1>8, RaiseIsHolder DEF WorkerStep

\* Every step of a controller is a step of the task store or leaves it alone.
LEMMA StoreStep ==
  ASSUME ControllerTypeOK, RunInv, [ControllerNext]_allVars
  PROVE  [Next]_vars
<1>1. ASSUME NEW w \in Worker, WorkerStep(w) PROVE [Next]_vars
  <2>1. run[w].pc # "idle" => Lease(w) \in issued
    BY DEF RunInv, Tied
  <2>. QED
    BY <1>1, <2>1, WorkerHolds DEF Next, ClaimTask
<1>2. Environment => [Next]_vars
  BY DEF Environment, Enqueue, Deliver, MoveHead, Next, vars
<1>3. UNCHANGED allVars => UNCHANGED vars
  BY DEF allVars
<1>. QED
  BY <1>1, <1>2, <1>3, StepKinds

-----------------------------------------------------------------------------
\* Types.  What the hooks may be recorded to have done.
LEMMA RolloutType == \A p : RolloutAt(p) \in Rollout
BY DEF RolloutAt, Rollout

\* The run that a step leaves behind, by the kind of the step.
LEMMA RunStep ==
  ASSUME ControllerTypeOK, NEW w \in Worker, WorkerStep(w)
  PROVE  \E x \in Execution : run' = [run EXCEPT ![w] = x]
<1>0. run \in [Worker -> Execution] /\ Idle \in Execution
  BY DEF ControllerTypeOK, Execution
<1>1. ASSUME ClaimTask(w) PROVE \E x \in Execution : run' = [run EXCEPT ![w] = x]
  <2>1. PICK t \in Task :
          run' = [run EXCEPT ![w] =
            [Idle EXCEPT !.pc = "claimed",
                         !.lease = [task |-> t, worker |-> w, epoch |-> NextEpoch(t),
                                    at |-> clock]]]
    BY <1>1 DEF ClaimTask
  <2> DEFINE x == [Idle EXCEPT !.pc = "claimed",
                               !.lease = [task |-> t, worker |-> w,
                                          epoch |-> NextEpoch(t), at |-> clock]]
  <2>2. NextEpoch(t) \in Nat /\ clock \in Nat
    BY DEF ControllerTypeOK, TypeOK, NextEpoch
  <2>3. x \in [pc : Step, lease : Handle, seen : Nat, attempt : Nat, sha : Nat,
               stop : BOOLEAN]
    BY <2>2 DEF Idle, Step, Handle
  <2>. QED
    BY <2>1, <2>3 DEF Execution
<1>2. ASSUME run[w].pc # "idle" /\ run[w].pc \in Step
      PROVE  /\ run[w] \in [pc : Step, lease : Handle, seen : Nat, attempt : Nat,
                            sha : Nat, stop : BOOLEAN]
             /\ request[Job(w)].base \in Nat
             /\ instructions[Job(w)] \in Nat
             /\ Base(w) \in Nat
  <2>1. Job(w) \in Task
    BY <1>2, BusyType
  <2>. QED
    BY <1>2, <2>1, BusyType, RepositoryAssumption DEF ControllerTypeOK, TypeOK, Base
<1>3. ASSUME FetchTask(w) PROVE \E x \in Execution : run' = [run EXCEPT ![w] = x]
  <2> DEFINE x == [run[w] EXCEPT !.pc = "fetched", !.seen = instructions[Job(w)]]
  <2>1. run[w].pc \in Step /\ run[w].pc # "idle" /\ "fetched" \in Step
    BY <1>3 DEF FetchTask, Step
  <2>2. x \in Execution
    BY <1>2, <2>1 DEF Execution
  <2>3. run' = [run EXCEPT ![w] = x]
    BY <1>0, <1>2, <1>3, <2>1 DEF FetchTask
  <2>. QED
    BY <2>2, <2>3
<1>4. ASSUME ReleaseBase(w) PROVE \E x \in Execution : run' = [run EXCEPT ![w] = x]
  <2> DEFINE x == [run[w] EXCEPT !.pc = "release", !.sha = Want(w)]
  <2>1. run[w].pc \in Step /\ run[w].pc # "idle" /\ "release" \in Step
    BY <1>4 DEF ReleaseBase, Step
  <2>2. x \in Execution
    BY <1>2, <2>1 DEF Execution, Want
  <2>3. run' = [run EXCEPT ![w] = x]
    BY <1>0, <1>2, <1>4, <2>1 DEF ReleaseBase
  <2>. QED
    BY <2>2, <2>3
<1>5. ASSUME Merge(w) PROVE \E x \in Execution : run' = [run EXCEPT ![w] = x]
  <2> DEFINE x == [run[w] EXCEPT !.pc = "delivered", !.sha = Base(w) + 1]
  <2>1. run[w].pc \in Step /\ run[w].pc # "idle" /\ "delivered" \in Step
    BY <1>5 DEF Merge, Step
  <2>2. x \in Execution
    <3>1. Base(w) + 1 \in Nat
      BY <1>2, <2>1
    <3>. QED
      BY <1>2, <2>1, <3>1 DEF Execution
  <2>3. run' = [run EXCEPT ![w] = x]
    BY <1>0, <1>2, <1>5, <2>1 DEF Merge
  <2>. QED
    BY <2>2, <2>3
<1>6. ASSUME RecordSuccess(w) PROVE \E x \in Execution : run' = [run EXCEPT ![w] = x]
  <2>1. Goes(w, "healthy", "complete", run[w].sha)
    BY <1>0, <1>6, AdvanceGoes DEF RecordSuccess, Step
  <2>. QED
    BY <2>1 DEF Goes
<1>7. ASSUME RequestStop(w) PROVE \E x \in Execution : run' = [run EXCEPT ![w] = x]
  <2> DEFINE x == [run[w] EXCEPT !.stop = TRUE]
  <2>1. run[w].pc \in Step /\ run[w].pc # "idle"
    BY <1>7, BusyType DEF RequestStop
  <2>2. x \in Execution
    BY <1>2, <2>1 DEF Execution
  <2>3. run' = [run EXCEPT ![w] = x]
    BY <1>0, <1>2, <1>7, <2>1 DEF RequestStop
  <2>. QED
    BY <2>2, <2>3
<1>8. RecordTorn(w) \/ Raise(w) \/ Crash(w) \/ (\E p, s : Ends(w, p, s))
        => run' = [run EXCEPT ![w] = Idle]
  BY DEF RecordTorn, Finish, Raise, Crash, Ends
<1>9. Heartbeat(w) => run' = [run EXCEPT ![w] = run[w]]
  BY <1>0 DEF Heartbeat
<1>10. run[w] \in Execution
  BY <1>0
<1>. QED
  BY <1>0, <1>1, <1>3, <1>4, <1>5, <1>6, <1>7, <1>8, <1>9, <1>10
  DEF WorkerStep, Reports, Looks, Asks, Acts, Goes

\* Every step keeps the types of the runs, the branches and the effects.
LEMMA ControllerTypeStep ==
  ASSUME ControllerTypeOK, RunInv, [ControllerNext]_allVars
  PROVE  ControllerTypeOK'
<1>0. TypeOK'
  BY StoreStep, TypeStep DEF ControllerTypeOK
<1>1. CASE UNCHANGED allVars
  BY <1>0, <1>1 DEF ControllerTypeOK, allVars, outside
<1>2. ASSUME NEW w \in Worker, WorkerStep(w) PROVE ControllerTypeOK'
  <2>1. run' \in [Worker -> Execution]
    BY <1>2, RunStep DEF ControllerTypeOK
  <2>2. head' \in [Repository -> Nat]
    <3>0. head \in [Repository -> Nat]
      BY DEF ControllerTypeOK
    <3>1. ASSUME Merge(w) PROVE head' \in [Repository -> Nat]
      <4>0. RepoOf[Job(w)] \in Repository
        BY <3>1, BusyType, RepositoryAssumption DEF Merge
      <4>1. \E r \in Repository : head' = [head EXCEPT ![r] = head[r] + 1]
        BY <3>1, <4>0 DEF Merge
      <4>. QED
        BY <3>0, <4>1
    <3>2. Raise(w) \/ Crash(w) \/ Heartbeat(w) \/ RequestStop(w) \/ RecordTorn(w)
            \/ RecordSuccess(w) \/ ClaimTask(w) \/ FetchTask(w) \/ ReleaseBase(w)
            => head' = head
      BY DEF Raise, Crash, Heartbeat, RequestStop, RecordTorn, RecordSuccess,
             ClaimTask, FetchTask, ReleaseBase, Look, outside
    <3>. QED
      BY <1>2, <3>1, <3>2
      DEF WorkerStep, Reports, Looks, Asks, Acts, Ends, outside, ControllerTypeOK
  <2>3. policy' = policy /\ request' = request
    BY <1>2 DEF WorkerStep, Reports, Looks, Asks, Acts, Ends, outside, Merge, Raise,
         Crash, Heartbeat, RequestStop, RecordTorn, RecordSuccess, ClaimTask,
         FetchTask, ReleaseBase, Look
  <2>4. effects' \subseteq Effect
    <3>1. ASSUME NEW kind \in {"publish", "merge", "deploy", "rollback"},
                 NEW rev \in Nat, Perform(w, kind, rev), run[w].pc # "idle"
          PROVE  effects' \subseteq Effect
      <4>1. Job(w) \in Task /\ Lease(w).epoch \in Nat
        BY <3>1, BusyType DEF Handle
      <4> DEFINE late == ~(lease[Job(w)].worker = w /\ epoch[Job(w)] = Lease(w).epoch)
                 e == [task |-> Job(w), epoch |-> Lease(w).epoch, kind |-> kind,
                       rev |-> rev, late |-> late]
      <4>2. late \in BOOLEAN
        OBVIOUS
      <4> HIDE DEF late
      <4>3. e \in Effect
        BY <4>1, <4>2 DEF Effect
      <4>4. effects' = effects \cup {e}
        BY <3>1 DEF Perform, late
      <4>. QED
        BY <4>3, <4>4 DEF ControllerTypeOK
    <3>2. ASSUME Merge(w) PROVE effects' \subseteq Effect
      <4>1. run[w].pc # "idle"
        BY <3>2 DEF Merge
      <4>2. Base(w) + 1 \in Nat
        BY <4>1, BusyType, RepositoryAssumption DEF Base, ControllerTypeOK
      <4>. QED
        BY <3>1, <3>2, <4>1, <4>2 DEF Merge
    <3>3. ASSUME NEW p, NEW kind, NEW q, NEW rev, Acts(w, p, kind, q, rev)
          PROVE  effects' \subseteq Effect
      <4>1. p # "idle" /\ kind \in {"publish", "merge", "deploy", "rollback"}
        BY <3>3 DEF Acts, ActEdge
      <4>. QED
        BY <3>1, <3>3, <4>1 DEF Acts, Goes
    <3>4. Raise(w) \/ Crash(w) \/ Heartbeat(w) \/ RequestStop(w) \/ RecordTorn(w)
            \/ RecordSuccess(w) \/ ClaimTask(w) \/ FetchTask(w) \/ ReleaseBase(w)
            => effects' = effects
      BY DEF Raise, Crash, Heartbeat, RequestStop, RecordTorn, RecordSuccess,
             ClaimTask, FetchTask, ReleaseBase, Look, outside
    <3>. QED
      BY <1>2, <3>2, <3>3, <3>4
      DEF WorkerStep, Reports, Looks, Asks, Ends, outside, ControllerTypeOK
  <2>5. rollout' \in [Task -> Rollout]
    <3>1. ASSUME NEW p, NEW q, RolloutMoves(w, p, q) PROVE rollout' \in [Task -> Rollout]
      BY <3>1, RolloutType DEF RolloutMoves, ControllerTypeOK
    <3>2. "restored" \in Rollout
      BY DEF Rollout
    <3>3. Raise(w) \/ Crash(w) \/ Heartbeat(w) \/ RequestStop(w) \/ RecordTorn(w)
            \/ RecordSuccess(w) \/ ClaimTask(w) \/ FetchTask(w) \/ ReleaseBase(w)
            \/ Merge(w) => rollout' = rollout
      BY DEF Raise, Crash, Heartbeat, RequestStop, RecordTorn, RecordSuccess,
             ClaimTask, FetchTask, ReleaseBase, Merge, Look, outside
    <3>4. ASSUME NEW p, NEW s, Ends(w, p, s) PROVE rollout' \in [Task -> Rollout]
      BY <3>2, <3>4 DEF Ends, ControllerTypeOK
    <3>. QED
      BY <1>2, <3>1, <3>3, <3>4
      DEF WorkerStep, Reports, Looks, Asks, Acts, outside, ControllerTypeOK
  <2>. QED
    BY <1>0, <2>1, <2>2, <2>3, <2>4, <2>5 DEF ControllerTypeOK
<1>3. ASSUME Environment PROVE ControllerTypeOK'
  <2>1. ASSUME NEW t \in Task, NEW m \in Submitted
        PROVE  Requested(t, m) \in [mode : Modes, base : Nat]
    BY <2>1, FleetAssumption, RepositoryAssumption DEF Requested, ControllerTypeOK
  <2>2. request' \in [Task -> [mode : Modes, base : Nat]]
    <3>1. ASSUME NEW t \in Task, NEW m \in Submitted, Enqueue(t, m)
          PROVE  request' \in [Task -> [mode : Modes, base : Nat]]
      BY <3>1, <2>1 DEF Enqueue, ControllerTypeOK
    <3>2. ASSUME NEW g \in Group, NEW R \in Replacements, NEW m \in Submitted,
                 Deliver(g, R, m)
          PROVE  request' \in [Task -> [mode : Modes, base : Nat]]
      BY <3>2, <2>1 DEF Deliver, ControllerTypeOK
    <3>. QED
      BY <1>3, <3>1, <3>2 DEF Environment, MoveHead, outside, ControllerTypeOK
  <2>3. head' \in [Repository -> Nat]
    BY <1>3 DEF Environment, Enqueue, Deliver, MoveHead, outside, ControllerTypeOK
  <2>4. UNCHANGED <<run, policy, effects, rollout>>
    BY <1>3 DEF Environment, Enqueue, Deliver, MoveHead, outside
  <2>. QED
    BY <1>0, <2>2, <2>3, <2>4 DEF ControllerTypeOK
<1>. QED
  BY <1>1, <1>2, <1>3, StepKinds

-----------------------------------------------------------------------------
\* Runs and rows.  A holder step is taken under a lease that is still current, on
\* a row that is not terminal.
LEMMA HolderIsCurrent ==
  ASSUME TypeOK, StageHasLease, NEW h \in issued, HolderStep(h)
  PROVE  Current(h)
BY DEF HolderStep, Renew, ReserveAiCall, Transition, Release, RecordReleaseSuccess,
       RecordReleaseCrash, PublishPointer, Valid, Current

\* Two workers never hold the same task at once.
LEMMA OneHolder ==
  ASSUME ControllerInv, NEW v \in Worker, NEW w \in Worker,
         run[v].pc # "idle", run[w].pc # "idle", Job(v) = Job(w),
         Current(Lease(v)), Current(Lease(w))
  PROVE  v = w
<1>1. Lease(v).epoch = Lease(w).epoch /\ Lease(v).task = Lease(w).task
  BY DEF Current, Job, Lease
<1>2. Lease(v) \in issued /\ Lease(w) \in issued
      /\ Lease(v).worker = v /\ Lease(w).worker = w
  BY DEF ControllerInv, RunInv, Tied
<1>. QED
  BY <1>1, <1>2 DEF ControllerInv, HandlesInv, EpochNamesOneHandle

\* A worker whose row is untouched, or whose row somebody else changed in a way
\* its own lease does not allow, stays tied to it.
LEMMA TiedKept ==
  ASSUME ControllerInv, [Next]_vars, NEW v \in Worker, run'[v] = run[v],
         run[v].pc # "idle" => Lease(v) \in issued',
         run[v].pc # "idle" =>
           \/ Untouched(Job(v)) \/ Created(Job(v)) \/ Granted(Job(v)) \/ Revoked(Job(v))
           \/ Held(Job(v)) /\ ~Current(Lease(v))
  PROVE  Tied(v)'
<1> SUFFICES ASSUME run[v].pc # "idle"
             PROVE  /\ Lease(v)' \in issued' /\ Lease(v)'.worker = v
                    /\ state'[Job(v)'] # "absent"
                    /\ Current(Lease(v))' => state'[Job(v)'] \in StateAt(run'[v].pc)
                    /\ run'[v].pc \in Acting =>
                         Current(Lease(v))' \/ state'[Job(v)'] = "unresolved"
  BY DEF Tied
<1> DEFINE h == Lease(v)
           t == Job(v)
<1>1. h' = h /\ t' = t /\ run'[v].pc = run[v].pc
  BY DEF Lease, Job
<1>2. /\ h \in issued /\ h.worker = v /\ state[t] # "absent" /\ t \in Task
      /\ h \in issued' /\ h.task = t
      /\ Current(h) => state[t] \in StateAt(run[v].pc)
      /\ run[v].pc \in Acting => Current(h) \/ state[t] = "unresolved"
  BY BusyType DEF ControllerInv, RunInv, Tied
<1>3. ~Current(h) => ~Current(h)'
  BY <1>1, <1>2, CurrentStep DEF ControllerInv, ControllerTypeOK
<1>4. run[v].pc \in Acting /\ Current(h) => state[t] \in UnknownOutcome
  BY <1>2 DEF StateAt, Acting, Delivering, Releasing, UnknownOutcome
<1>5. epoch[t] \in Nat /\ h.worker # None
  BY <1>2, NoneAssumption DEF ControllerInv, ControllerTypeOK, TypeOK
<1> HIDE DEF h, t
<1>6. Current(h)' <=> /\ lease'[t].worker = h.worker /\ lease'[t].epoch = h.epoch
                      /\ epoch'[t] = h.epoch
  BY <1>1, <1>2 DEF Current
<1>7. Current(h) <=> /\ lease[t].worker = h.worker /\ lease[t].epoch = h.epoch
                     /\ epoch[t] = h.epoch
  BY <1>2 DEF Current
<1>8. CASE Untouched(t)
  BY <1>1, <1>2, <1>6, <1>7, <1>8 DEF Untouched, h, t
<1>9. CASE Created(t)
  BY <1>2, <1>9 DEF Created
<1>10. CASE Granted(t)
  <2>1. ~Current(h)' /\ state'[t] = "queued"
    BY <1>3, <1>5, <1>6, <1>7, <1>10 DEF Granted
  <2>2. run[v].pc \notin Acting
    BY <1>2, <1>4, <1>10 DEF Granted, UnknownOutcome
  <2>. QED
    BY <1>1, <1>2, <2>1, <2>2 DEF h, t
<1>11. CASE Revoked(t)
  <2>1. ~Current(h)'
    BY <1>5, <1>6, <1>11 DEF Revoked, NoLease
  <2>2. state'[t] # "absent"
    BY <1>11 DEF Revoked
  <2>3. run[v].pc \in Acting => state'[t] = "unresolved"
    BY <1>2, <1>4, <1>11 DEF Revoked, Terminal
  <2>. QED
    BY <1>1, <1>2, <2>1, <2>2, <2>3 DEF h, t
<1>12. CASE Held(t) /\ ~Current(h)
  <2>1. ~Current(h)' /\ state'[t] # "absent"
    BY <1>3, <1>12 DEF Held, Stage, UnknownOutcome, Terminal
  <2>2. run[v].pc \notin Acting
    BY <1>2, <1>12 DEF Held, Stage, UnknownOutcome
  <2>. QED
    BY <1>1, <1>2, <2>1, <2>2 DEF h, t
<1>. QED
  BY <1>8, <1>9, <1>10, <1>11, <1>12 DEF h, t

\* The row of another worker under a holder step.
LEMMA OtherRow ==
  ASSUME ControllerInv, NEW w \in Worker, NEW v \in Worker, v # w,
         run[w].pc # "idle", run[v].pc # "idle", HolderStep(Lease(w))
  PROVE  Untouched(Job(v)) \/ (Held(Job(v)) /\ ~Current(Lease(v)))
<1>1. Lease(w) \in issued /\ TypeOK /\ StageHasLease
  BY DEF ControllerInv, ControllerTypeOK, RunInv, Tied
<1>2. Job(v) \in Task /\ Lease(w).task = Job(w)
  BY BusyType DEF ControllerInv
<1>3. Untouched(Job(v)) \/ (Job(w) = Job(v) /\ Held(Job(v)))
  BY <1>1, <1>2, HolderRow
<1>4. Current(Lease(w))
  BY <1>1, HolderIsCurrent
<1>. QED
  BY <1>3, <1>4, OneHolder

\* The Lease objects of the other workers survive a holder step.
LEMMA OtherHandle ==
  ASSUME ControllerInv, NEW w \in Worker, NEW v \in Worker, v # w,
         run[w].pc # "idle", run[v].pc # "idle", HolderStep(Lease(w))
  PROVE  Lease(v) \in issued'
<1>1. issued \ {Lease(w)} \subseteq issued'
  BY DEF HolderStep, Renew, ReserveAiCall, Transition, Release, RecordReleaseSuccess,
         RecordReleaseCrash
<1>2. Lease(v) \in issued /\ Lease(v) # Lease(w)
  BY DEF ControllerInv, RunInv, Tied
<1>. QED
  BY <1>1, <1>2

\* What a report does to the row and to the lease of its worker.
LEMMA ReportRow ==
  ASSUME ControllerInv, NEW w \in Worker, run[w].pc # "idle", NEW s \in Reported,
         Report(w, s)
  PROVE  /\ Current(Lease(w)) /\ state[Job(w)] \in StateAt(run[w].pc)
         /\ state[Job(w)] \notin Terminal \cup {"paused"}
         /\ state' = [state EXCEPT ![Job(w)] = s]
         /\ epoch' = epoch /\ issued' = issued
         /\ s \notin Terminal => lease' = lease
         /\ pointer' = pointer /\ released' = released
         /\ instructions' = instructions
<1>1. Job(w) \in Task /\ Lease(w).task = Job(w)
  BY BusyType DEF ControllerInv
<1>2. PICK now : Transition(Lease(w), s, now)
  BY DEF Report
<1>3. Current(Lease(w))
  BY <1>2 DEF Transition, Valid, Current
<1>4. state[Job(w)] \in StateAt(run[w].pc)
  BY <1>3 DEF ControllerInv, RunInv, Tied
<1>. QED
  BY <1>1, <1>2, <1>3, <1>4 DEF Transition, TransitionRow, Executable, releaseVars

\* The tables agree: a report puts the row where the new place expects it.
LEMMA EdgeStates ==
  /\ \A p, s, q : <<p, s, q>> \in ReportEdge =>
       /\ s \in StateAt(q) /\ s \notin Terminal
       /\ p \in Step /\ q \in Step /\ p # "idle" /\ q # "idle"
  /\ \A p, q : <<p, q>> \in LookEdge \cup AskEdge =>
       /\ StateAt(p) \subseteq StateAt(q)
       /\ p \in Step /\ q \in Step /\ p # "idle" /\ q # "idle"
  /\ \A p, q : <<p, q>> \in AskEdge => q \notin Acting
  /\ \A p, kind, q : <<p, kind, q>> \in ActEdge =>
       /\ StateAt(p) = StateAt(q) /\ p \in Acting /\ q \in Acting
       /\ p \in Step /\ q \in Step /\ p # "idle" /\ q # "idle"
<1>1. \A p, s, q : <<p, s, q>> \in ReportEdge =>
       /\ s \in StateAt(q) /\ s \notin Terminal
       /\ p \in Step /\ q \in Step /\ p # "idle" /\ q # "idle"
  BY DEF ReportEdge, StateAt, Terminal, Step, Delivering
<1>2. \A p, q : <<p, q>> \in LookEdge \cup AskEdge =>
       /\ StateAt(p) \subseteq StateAt(q)
       /\ p \in Step /\ q \in Step /\ p # "idle" /\ q # "idle"
  BY DEF LookEdge, AskEdge, StateAt, Step, Delivering
<1>3. \A p, q : <<p, q>> \in AskEdge => q \notin Acting
  BY DEF AskEdge, Acting, Delivering, Releasing
<1>4. \A p, kind, q : <<p, kind, q>> \in ActEdge =>
       /\ StateAt(p) = StateAt(q) /\ p \in Acting /\ q \in Acting
       /\ p \in Step /\ q \in Step /\ p # "idle" /\ q # "idle"
  BY DEF ActEdge, StateAt, Step, Acting, Delivering, Releasing
<1>. QED
  BY <1>1, <1>2, <1>3, <1>4

\* A worker that moves on without a change of its row stays tied to it.
LEMMA TiedMoves ==
  ASSUME ControllerInv, NEW w \in Worker, run[w].pc # "idle",
         run'[w].lease = run[w].lease, state' = state, epoch' = epoch,
         issued' = issued, Current(Lease(w)) => Current(Lease(w))',
         Current(Lease(w))' => Current(Lease(w)),
         StateAt(run[w].pc) \subseteq StateAt(run'[w].pc),
         run'[w].pc \in Acting => run[w].pc \in Acting \/ Current(Lease(w))
  PROVE  Tied(w)'
<1>1. Lease(w)' = Lease(w) /\ Job(w)' = Job(w)
  BY DEF Lease, Job
<1>2. Tied(w)
  BY DEF ControllerInv, RunInv
<1>. QED
  BY <1>1, <1>2, Zenon DEF Tied

\* With the row untouched, the lease of a worker is as current as it was.
LEMMA CurrentKept ==
  ASSUME NEW w \in Worker, run'[w].lease = run[w].lease, epoch' = epoch, lease' = lease
  PROVE  Current(Lease(w))' <=> Current(Lease(w))
BY DEF Current, Lease

\* The worker that takes a step stays tied to its task, or is done with it.
LEMMA OwnTied ==
  ASSUME ControllerInv, NEW w \in Worker, WorkerStep(w)
  PROVE  Tied(w)'
<1>0. /\ run \in [Worker -> Execution]
      /\ state \in [Task -> State] /\ lease \in [Task -> Row \cup {NoLease}]
  BY DEF ControllerInv, ControllerTypeOK, TypeOK
<1>1. ASSUME ClaimTask(w) PROVE Tied(w)'
  <2>1. PICK t \in Task, now \in ReadSince(0) :
          /\ Claim(t, w, now)
          /\ run' = [run EXCEPT ![w] =
               [Idle EXCEPT !.pc = "claimed",
                            !.lease = [task |-> t, worker |-> w,
                                       epoch |-> NextEpoch(t), at |-> clock]]]
    BY <1>1 DEF ClaimTask
  <2> DEFINE h == [task |-> t, worker |-> w, epoch |-> NextEpoch(t), at |-> clock]
  <2>2. run'[w].pc = "claimed" /\ run'[w].lease = h
    BY <1>0, <2>1 DEF Idle
  <2>3. h \in issued' /\ h.worker = w /\ h.task = t
    BY <2>1 DEF Claim
  <2>4. state'[t] = "queued"
    BY <2>1 DEF Claim, Claimable
  <2>5. "queued" \in StateAt("claimed") /\ "claimed" \notin Acting
    BY DEF StateAt, Acting, Delivering, Releasing
  <2> HIDE DEF h
  <2>. QED
    BY <2>2, <2>3, <2>4, <2>5 DEF Tied, Lease, Job
<1>2. ASSUME run[w].pc # "idle", run'[w].lease = run[w].lease, UNCHANGED vars,
             StateAt(run[w].pc) \subseteq StateAt(run'[w].pc),
             run'[w].pc \in Acting => run[w].pc \in Acting \/ Current(Lease(w))
      PROVE  Tied(w)'
  BY <1>2, TiedMoves, CurrentKept DEF vars
<1>3. ASSUME FetchTask(w) PROVE Tied(w)'
  <2>1. run[w] \in [pc : Step, lease : Handle, seen : Nat, attempt : Nat, sha : Nat,
                    stop : BOOLEAN]
    BY <1>3, BusyType DEF FetchTask, ControllerInv
  <2>2. run'[w].pc = "fetched" /\ run'[w].lease = run[w].lease /\ run[w].pc = "claimed"
    BY <1>0, <1>3, <2>1 DEF FetchTask
  <2>3. /\ StateAt("claimed") = StateAt("fetched") /\ "fetched" \notin Acting
    BY DEF StateAt, Acting, Delivering, Releasing
  <2>. QED
    BY <1>2, <1>3, <2>2, <2>3 DEF FetchTask, Look
<1>4. ASSUME ReleaseBase(w) PROVE Tied(w)'
  <2>1. run[w] \in [pc : Step, lease : Handle, seen : Nat, attempt : Nat, sha : Nat,
                    stop : BOOLEAN]
    BY <1>4, BusyType DEF ReleaseBase, ControllerInv
  <2>2. /\ run'[w].pc = "release" /\ run'[w].lease = run[w].lease
        /\ run[w].pc \in {"passed", "rechecking"}
    BY <1>0, <1>4, <2>1 DEF ReleaseBase
  <2>3. /\ \A p \in {"passed", "rechecking"} : StateAt(p) \subseteq StateAt("release")
        /\ "release" \notin Acting
    BY DEF StateAt, Acting, Delivering, Releasing
  <2>. QED
    BY <1>2, <1>4, <2>2, <2>3 DEF ReleaseBase, Look
<1>5. ASSUME Merge(w) PROVE Tied(w)'
  <2>1. run[w] \in [pc : Step, lease : Handle, seen : Nat, attempt : Nat, sha : Nat,
                    stop : BOOLEAN]
    BY <1>5, BusyType DEF Merge, ControllerInv
  <2>2. /\ run'[w].pc = "delivered" /\ run'[w].lease = run[w].lease
        /\ run[w].pc = "merging"
    BY <1>0, <1>5, <2>1 DEF Merge
  <2>3. StateAt("merging") = StateAt("delivered") /\ "merging" \in Acting
    BY DEF StateAt, Acting, Delivering, Releasing
  <2>. QED
    BY <1>2, <1>5, <2>2, <2>3 DEF Merge, vars
<1>6. ASSUME NEW p, NEW s, NEW q, Reports(w, p, s, q) PROVE Tied(w)'
  <2>1. s \in StateAt(q) /\ s \notin Terminal /\ p # "idle" /\ s \in Reported
    BY <1>6, EdgeStates, StagesReported DEF Reports
  <2>2. run[w].pc = p /\ run'[w].pc = q /\ run'[w].lease = run[w].lease
    BY <1>0, <1>6 DEF Reports, Goes
  <2>3. /\ Current(Lease(w)) /\ state' = [state EXCEPT ![Job(w)] = s]
        /\ epoch' = epoch /\ issued' = issued /\ lease' = lease
    BY <1>6, <2>1, <2>2, ReportRow DEF Reports
  <2>4. Current(Lease(w))' /\ Lease(w)' = Lease(w) /\ Job(w)' = Job(w)
    BY <2>2, <2>3, CurrentKept DEF Lease, Job
  <2>5. state'[Job(w)] = s /\ s # "absent"
    BY <1>0, <2>1, <2>2, <2>3, BusyType, ReportedAssumption
    DEF ControllerInv, WorkflowState, Stage, UnknownOutcome, Terminal
  <2>6. Lease(w) \in issued /\ Lease(w).worker = w
    BY <2>1, <2>2 DEF ControllerInv, RunInv, Tied
  <2>. QED
    BY <2>1, <2>2, <2>3, <2>4, <2>5, <2>6 DEF Tied
<1>7. ASSUME NEW p, NEW q, Looks(w, p, q) PROVE Tied(w)'
  <2>1. run[w].pc = p /\ run'[w].pc = q /\ run'[w].lease = run[w].lease
    BY <1>0, <1>7 DEF Looks, Goes
  <2>2. Current(Lease(w))
    BY <1>7 DEF Looks, Active, Valid, Current
  <2>3. p # "idle" /\ StateAt(p) \subseteq StateAt(q)
    BY <1>7, EdgeStates DEF Looks
  <2>. QED
    BY <1>2, <1>7, <2>1, <2>2, <2>3 DEF Looks, vars
<1>8. ASSUME NEW p, NEW q, Asks(w, p, q) PROVE Tied(w)'
  <2>1. run[w].pc = p /\ run'[w].pc = q /\ run'[w].lease = run[w].lease
    BY <1>0, <1>8 DEF Asks, Goes
  <2>2. p # "idle" /\ StateAt(p) \subseteq StateAt(q) /\ q \notin Acting
    BY <1>8, EdgeStates DEF Asks
  <2>3. state' = state /\ epoch' = epoch /\ lease' = lease /\ issued' = issued
    BY <1>8 DEF Asks, ReserveAiCall, taskVars
  <2>. QED
    BY <2>1, <2>2, <2>3, TiedMoves, CurrentKept
<1>9. ASSUME NEW p, NEW kind, NEW q, NEW rev, Acts(w, p, kind, q, rev) PROVE Tied(w)'
  <2>1. run[w].pc = p /\ run'[w].pc = q /\ run'[w].lease = run[w].lease
    BY <1>0, <1>9 DEF Acts, Goes
  <2>2. p # "idle" /\ StateAt(p) \subseteq StateAt(q) /\ p \in Acting
    BY <1>9, EdgeStates DEF Acts
  <2>. QED
    BY <1>2, <1>9, <2>1, <2>2 DEF Acts, vars
<1>10. ASSUME RecordSuccess(w) PROVE Tied(w)'
  <2>1. Goes(w, "healthy", "complete", run[w].sha)
    BY <1>0, <1>10, AdvanceGoes DEF RecordSuccess, Step
  <2>2. run[w].pc = "healthy" /\ run'[w].pc = "complete" /\ run'[w].lease = run[w].lease
    BY <1>0, <2>1 DEF Goes
  <2>3. StateAt("healthy") = StateAt("complete") /\ "healthy" \in Acting
    BY DEF StateAt, Acting, Delivering, Releasing
  <2>4. state' = state /\ epoch' = epoch /\ lease' = lease /\ issued' = issued
    BY <1>10 DEF RecordSuccess, RecordReleaseSuccess, PublishPointer, taskVars
  <2>. QED
    BY <2>2, <2>3, <2>4, TiedMoves, CurrentKept
<1>11. ASSUME run'[w] = Idle PROVE Tied(w)'
  BY <1>11 DEF Tied, Idle
<1>12. ASSUME RecordTorn(w) \/ Raise(w) \/ Crash(w) \/ (\E p, s : Ends(w, p, s))
       PROVE  Tied(w)'
  BY <1>0, <1>11, <1>12 DEF RecordTorn, Finish, Raise, Crash, Ends
<1>13. ASSUME Heartbeat(w) PROVE Tied(w)'
  <2>1. PICK now : Renew(Lease(w), now)
    BY <1>13 DEF Heartbeat
  <2>2. run' = run /\ run[w].pc # "idle"
    BY <1>13 DEF Heartbeat, Step
  <2>3. Lease(w).task \in Task /\ lease[Lease(w).task] \in Row
    <3>1. Lease(w).task \in Task /\ Lease(w).worker \in Worker
      BY <2>2, BusyType DEF ControllerInv, Handle
    <3>. QED
      BY <1>0, <2>1, <3>1, NoneAssumption DEF Renew, Valid, NoLease
  <2>4. Current(Lease(w)) /\ Lease(w)' = Lease(w)
    BY <2>1, <2>2 DEF Renew, Valid, Current, Lease
  <2>5. state' = state /\ epoch' = epoch /\ issued' = issued
    BY <2>1 DEF Renew
  <2>6. /\ lease'[Lease(w).task].worker = lease[Lease(w).task].worker
        /\ lease'[Lease(w).task].epoch = lease[Lease(w).task].epoch
    BY <1>0, <2>1, <2>3 DEF Renew, Row
  <2>7. Current(Lease(w))'
    BY <2>4, <2>5, <2>6 DEF Current
  <2>. QED
    BY <2>2, <2>4, <2>5, <2>7, TiedMoves
<1>14. ASSUME RequestStop(w) PROVE Tied(w)'
  <2>1. run[w] \in [pc : Step, lease : Handle, seen : Nat, attempt : Nat, sha : Nat,
                    stop : BOOLEAN] /\ run[w].pc # "idle"
    BY <1>14, BusyType DEF RequestStop, ControllerInv
  <2>2. run'[w].pc = run[w].pc /\ run'[w].lease = run[w].lease
    BY <1>0, <1>14, <2>1 DEF RequestStop
  <2>3. state' = state /\ epoch' = epoch /\ lease' = lease /\ issued' = issued
    BY <1>14 DEF RequestStop, Look, vars
  <2>4. Tied(w)
    BY DEF ControllerInv, RunInv
  <2>5. Lease(w)' = Lease(w) /\ Job(w)' = Job(w)
    BY <2>2 DEF Lease, Job
  <2>. QED
    BY <2>2, <2>3, <2>4, <2>5, CurrentKept DEF Tied
<1>. QED
  BY <1>1, <1>3, <1>4, <1>5, <1>6, <1>7, <1>8, <1>9, <1>10, <1>12, <1>13, <1>14
  DEF WorkerStep

\* Every step keeps every run tied to its row.
LEMMA RunInvStep ==
  ASSUME ControllerInv, [ControllerNext]_allVars
  PROVE  RunInv'
<1> SUFFICES ASSUME NEW v \in Worker PROVE Tied(v)'
  BY DEF RunInv
<1>0. /\ run \in [Worker -> Execution] /\ TypeOK /\ StageHasLease
      /\ [Next]_vars
  BY StoreStep DEF ControllerInv, ControllerTypeOK
<1>1. run[v].pc # "idle" => Lease(v) \in issued /\ Job(v) \in Task
  BY BusyType DEF ControllerInv, RunInv, Tied
<1>2. ASSUME UNCHANGED vars, run'[v] = run[v] PROVE Tied(v)'
  BY <1>0, <1>1, <1>2, TiedKept DEF vars, Untouched
<1>3. ASSUME UNCHANGED allVars PROVE Tied(v)'
  BY <1>2, <1>3 DEF allVars
<1>4. ASSUME NEW w \in Worker, WorkerStep(w), w # v PROVE Tied(v)'
  <2>1. run'[v] = run[v]
    BY <1>0, <1>4, RunStep DEF ControllerInv
  <2>2. CASE ClaimTask(w)
    <3>1. PICK t \in Task, now \in ReadSince(0) : Claim(t, w, now)
      BY <2>2 DEF ClaimTask
    <3>2. issued \subseteq issued'
      BY <3>1 DEF Claim
    <3>3. run[v].pc # "idle" => Untouched(Job(v)) \/ Granted(Job(v))
      <4> SUFFICES ASSUME run[v].pc # "idle" PROVE Untouched(Job(v)) \/ Granted(Job(v))
        OBVIOUS
      <4>1. RowStep(Job(v))
        BY <1>0, <1>1, RowSteps
      <4>2. Job(v) # t => Untouched(Job(v))
        BY <1>0, <1>1, <3>1 DEF Claim, TypeOK, Untouched
      <4>3. /\ state[t] = "queued" /\ epoch'[t] = epoch[t] + 1
            /\ lease'[t].worker = w /\ epoch[t] \in Nat
        BY <1>0, <3>1 DEF Claim, Claimable, NextEpoch, TypeOK
      <4>4. Job(v) = t => ~Created(t) /\ ~Held(t) /\ ~Revoked(t)
        BY <4>3, NoneAssumption DEF Created, Held, Revoked, NoLease
      <4>. QED
        BY <4>1, <4>2, <4>4 DEF RowStep
    <3>. QED
      BY <1>0, <1>1, <2>1, <3>2, <3>3, TiedKept
  <2>3. CASE run[w].pc # "idle" /\ HolderStep(Lease(w))
    BY <1>0, <1>4, <2>1, <2>3, OtherRow, OtherHandle, TiedKept
  <2>4. CASE UNCHANGED vars
    BY <1>2, <2>1, <2>4
  <2>. QED
    BY <1>4, <2>2, <2>3, <2>4, WorkerHolds
<1>5. ASSUME Environment PROVE Tied(v)'
  <2>1. run' = run
    BY <1>5 DEF Environment, Enqueue, Deliver, MoveHead, outside
  <2>2. issued' = issued
    BY <1>5 DEF Environment, Enqueue, Create, Deliver, Ingest, MoveHead, RecoverExpired,
      Tick, ControlStep, Pause, Resume, Cancel, Steer, Control, vars
  <2>3. run[v].pc # "idle" => Untouched(Job(v)) \/ Created(Job(v)) \/ Revoked(Job(v))
    <3> SUFFICES ASSUME run[v].pc # "idle"
                 PROVE  Untouched(Job(v)) \/ Created(Job(v)) \/ Revoked(Job(v))
      OBVIOUS
    <3>1. ASSUME NEW t \in Task, Create(t) PROVE Untouched(Job(v)) \/ Created(Job(v))
      BY <1>0, <1>1, <3>1 DEF Create, TypeOK, Untouched, Created
    <3>2. Tick \/ UNCHANGED vars => Untouched(Job(v))
      BY DEF Tick, taskVars, vars, Untouched
    <3>. QED
      BY <1>0, <1>1, <1>5, <3>1, <3>2, ControlRow, RecoverRow, IngestRow
      DEF Environment, Enqueue, Deliver, MoveHead
  <2>. QED
    BY <1>0, <1>1, <2>1, <2>2, <2>3, TiedKept
<1>. QED
  BY <1>3, <1>4, <1>5, StepKinds, OwnTied DEF ControllerInv

\* What holds of the task table and of the runs holds in every state.
LEMMA ControllerInvAlways == ControllerSpec => []ControllerInv
<1>1. ControllerInit => ControllerInv
  <2> SUFFICES ASSUME ControllerInit PROVE ControllerInv
    OBVIOUS
  <2>1. Init => TypeOK /\ StageHasLease /\ HandlesInv
    BY DEF Init, TypeOK, State, Reason, StageHasLease, Stage, UnknownOutcome, Terminal,
           HandlesInv, EpochNamesOneHandle
  <2>2. RunInv
    BY DEF ControllerInit, RunInv, Tied, Idle
  <2>3. Idle \in Execution /\ "none" \in Rollout /\ "check" \in Modes
    BY DEF Execution, Rollout, Modes
  <2>4. policy \in [Repository -> Policy]
    BY FleetAssumption DEF ControllerInit
  <2>5. ControllerTypeOK
    BY <2>1, <2>3, <2>4 DEF ControllerInit, ControllerTypeOK
  <2>. QED
    BY <2>1, <2>2, <2>5 DEF ControllerInv, ControllerInit
<1>2. ControllerInv /\ [ControllerNext]_allVars => ControllerInv'
  BY ControllerTypeStep, RunInvStep, StoreStep, StageHasLeaseStep, HandlesStep
  DEF ControllerInv, ControllerTypeOK
<1>. QED
  BY <1>1, <1>2, PTL DEF ControllerSpec

\* Runs, branches, policies, effects and rollouts keep their types.
THEOREM ControllerTypeCorrect == ControllerSpec => []ControllerTypeOK
<1>1. ControllerInv => ControllerTypeOK
  BY DEF ControllerInv
<1>. QED
  BY <1>1, ControllerInvAlways, PTL

\* Whatever the workers and operators do, the task table only ever takes the steps
\* of TaskStore.
THEOREM ControllerImplementsTaskStore == ControllerSpec => ImplementsTaskStore
<1>1. ControllerInit => Init
  BY DEF ControllerInit
<1>2. ControllerInv /\ [ControllerNext]_allVars => [Next]_vars
  BY StoreStep DEF ControllerInv
<1>. QED
  BY <1>1, <1>2, ControllerInvAlways, PTL DEF ControllerSpec, Spec, ImplementsTaskStore

\* So what is proved of the task store holds of every run of the controllers: the
\* AI budget, exclusive groups, one handle per epoch, visible torn releases, final
\* outcomes, fenced effects, parked replacements, revoked handles and the promise
\* of FencedWork.
THEOREM ControllerKeepsStorePromises ==
  ControllerSpec =>
    /\ []StageHasLease /\ []AiBudget /\ []OneOpenTaskPerGroup
    /\ []EpochNamesOneHandle /\ []TornReleaseStaysVisible
    /\ TerminalIsFinal /\ FencedEffectIsUnresolved /\ ReplacementWaits
    /\ RevokedForever /\ ImplementsFencedWork
<1>1. ControllerSpec => Spec
  BY ControllerImplementsTaskStore DEF ImplementsTaskStore
<1>. QED
  BY <1>1, StagesAreLeased, AiBudgetHolds, OneOpenTask, OneHandlePerEpoch,
     TornReleasesStayVisible, TerminalTasksAreFinal, FencedEffectsAreUnresolved,
     ReplacementsWait, RevokedHandlesStayRevoked, TaskStoreImplementsFencedWork, PTL

-----------------------------------------------------------------------------
\* How the worker that takes a step goes on: with a new task, with what it just
\* read, with nothing, or under the same lease and the same instructions.
LEMMA MovesOn ==
  ASSUME ControllerInv, NEW w \in Worker, WorkerStep(w)
  PROVE  \/ ClaimTask(w) \/ FetchTask(w) \/ run'[w] = Idle
         \/ /\ run[w].pc # "idle"
            /\ run'[w].lease = run[w].lease /\ run'[w].seen = run[w].seen
            /\ run[w].pc = "claimed" => run'[w].pc = "claimed"
<1>0. run \in [Worker -> Execution]
  BY DEF ControllerInv, ControllerTypeOK
<1> DEFINE Same == /\ run[w].pc # "idle"
                   /\ run'[w].lease = run[w].lease /\ run'[w].seen = run[w].seen
                   /\ run[w].pc = "claimed" => run'[w].pc = "claimed"
<1>1. run[w].pc # "idle" =>
        run[w] \in [pc : Step, lease : Handle, seen : Nat, attempt : Nat, sha : Nat,
                    stop : BOOLEAN]
  BY BusyType DEF ControllerInv
<1>2. ASSUME NEW p, NEW q, NEW sha, Goes(w, p, q, sha), p \notin {"idle", "claimed"}
      PROVE  Same
  BY <1>0, <1>2 DEF Goes
<1>3. /\ \A p, s, q : <<p, s, q>> \in ReportEdge => p \notin {"idle", "claimed"}
      /\ \A p, q : <<p, q>> \in LookEdge \cup AskEdge => p \notin {"idle", "claimed"}
      /\ \A p, kind, q : <<p, kind, q>> \in ActEdge => p \notin {"idle", "claimed"}
  BY DEF ReportEdge, LookEdge, AskEdge, ActEdge
<1>4. /\ \A p, s, q : Reports(w, p, s, q) => Same
      /\ \A p, q : Looks(w, p, q) => Same
      /\ \A p, q : Asks(w, p, q) => Same
      /\ \A p, kind, q, rev : Acts(w, p, kind, q, rev) => Same
  <2> HIDE DEF Same
  <2>. QED
    BY <1>2, <1>3 DEF Reports, Looks, Asks, Acts
<1>5. ReleaseBase(w) => Same
  BY <1>0, <1>1 DEF ReleaseBase
<1>6. Merge(w) => Same
  BY <1>0, <1>1 DEF Merge
<1>7. RequestStop(w) => Same
  BY <1>0, <1>1 DEF RequestStop
<1>8. RecordSuccess(w) => Same
  <2>1. RecordSuccess(w) => Goes(w, "healthy", "complete", run[w].sha)
    BY <1>0, AdvanceGoes DEF RecordSuccess, Step
  <2>. QED
    BY <1>2, <2>1
<1>9. Heartbeat(w) => Same
  BY DEF Heartbeat, Step
<1>10. RecordTorn(w) \/ Raise(w) \/ Crash(w) \/ (\E p, s : Ends(w, p, s))
         => run'[w] = Idle
  BY <1>0 DEF RecordTorn, Finish, Raise, Crash, Ends
<1>. QED
  BY <1>4, <1>5, <1>6, <1>7, <1>8, <1>9, <1>10 DEF WorkerStep

\* A step that leaves the holder in possession leaves its instructions alone.
LEMMA InstructionsStep ==
  ASSUME TypeOK, [Next]_vars, NEW h \in issued, Current(h)'
  PROVE  instructions'[h.task] = instructions[h.task]
<1>1. h.task \in Task /\ h.worker # None
  BY NoneAssumption DEF TypeOK, Handle
<1>2. ASSUME NEW t \in Task, Steer(t) PROVE instructions'[h.task] = instructions[h.task]
  <2>1. lease'[t] = NoLease
    BY <1>2 DEF Steer, Control, Fence
  <2>2. h.task # t
    BY <1>1, <2>1 DEF Current, NoLease
  <2>. QED
    BY <1>1, <1>2, <2>2 DEF Steer, TypeOK
<1>3. ASSUME NEW t \in Task, ControlStep(t)
      PROVE  instructions'[h.task] = instructions[h.task]
  BY <1>2, <1>3 DEF ControlStep, Pause, Resume, Cancel
<1>4. ASSUME NEW g \in issued, HolderStep(g) PROVE instructions' = instructions
  BY <1>4 DEF HolderStep, Renew, ReserveAiCall, Transition, Release,
              RecordReleaseSuccess, RecordReleaseCrash, PublishPointer
<1>. QED
  BY <1>3, <1>4 DEF Next, Create, Claim, RecoverExpired, Ingest, Tick, vars

\* A lease that is current after a step, and was handed out before it, was current.
LEMMA WasCurrent ==
  ASSUME ControllerInv, [Next]_vars, NEW w \in Worker, run[w].pc # "idle",
         run'[w].lease = run[w].lease, Current(Lease(w))'
  PROVE  Current(Lease(w)) /\ Lease(w) \in issued
<1>1. Lease(w) \in issued /\ Lease(w)' = Lease(w)
  BY DEF ControllerInv, RunInv, Tied, Lease
<1>. QED
  BY <1>1, CurrentStep DEF ControllerInv, ControllerTypeOK

\* A worker acts only on instructions that are still all there are, however
\* steering, expiry and the pipeline interleave.
THEOREM OwnersKnowInstructions == ControllerSpec => []OwnerKnowsInstructions
<1>1. ControllerInit => OwnerKnowsInstructions
  BY DEF ControllerInit, OwnerKnowsInstructions, Idle, Step
<1>2. ASSUME ControllerInv, OwnerKnowsInstructions, [ControllerNext]_allVars
      PROVE  OwnerKnowsInstructions'
  <2> SUFFICES ASSUME NEW v \in Worker, run'[v].pc \in Step \ {"claimed"},
                      Current(Lease(v))'
               PROVE  run'[v].seen = instructions'[Job(v)']
    BY DEF OwnerKnowsInstructions
  <2>0. [Next]_vars /\ run \in [Worker -> Execution] /\ TypeOK
    BY <1>2, StoreStep DEF ControllerInv, ControllerTypeOK
  <2>1. ASSUME run[v].pc # "idle", run'[v].lease = run[v].lease,
               run'[v].seen = run[v].seen, run[v].pc # "claimed"
        PROVE  run'[v].seen = instructions'[Job(v)']
    <3>1. Current(Lease(v)) /\ Lease(v) \in issued /\ Lease(v)' = Lease(v)
      BY <1>2, <2>0, <2>1, WasCurrent DEF Lease
    <3>2. run[v].seen = instructions[Job(v)]
      BY <1>2, <2>1, <3>1, BusyType DEF OwnerKnowsInstructions, ControllerInv
    <3>3. instructions'[Lease(v).task] = instructions[Lease(v).task]
      BY <2>0, <3>1, InstructionsStep
    <3>. QED
      BY <2>1, <3>2, <3>3 DEF Job, Lease
  <2>2. ASSUME run'[v] = run[v] PROVE run'[v].seen = instructions'[Job(v)']
    BY <2>1, <2>2 DEF Step
  <2>3. ASSUME WorkerStep(v) PROVE run'[v].seen = instructions'[Job(v)']
    <3>1. ~ClaimTask(v)
      BY <2>0 DEF ClaimTask, Idle
    <3>2. run'[v] # Idle
      BY DEF Idle, Step
    <3>3. ASSUME FetchTask(v) PROVE run'[v].seen = instructions'[Job(v)']
      <4>1. run[v] \in [pc : Step, lease : Handle, seen : Nat, attempt : Nat, sha : Nat,
                        stop : BOOLEAN]
        BY <1>2, <3>3, BusyType DEF FetchTask, ControllerInv
      <4>2. run'[v].seen = instructions[Job(v)] /\ run'[v].lease = run[v].lease
        BY <2>0, <3>3, <4>1 DEF FetchTask
      <4>. QED
        BY <3>3, <4>2 DEF FetchTask, Look, vars, Job
    <3>4. CASE /\ run[v].pc # "idle"
               /\ run'[v].lease = run[v].lease /\ run'[v].seen = run[v].seen
               /\ run[v].pc = "claimed" => run'[v].pc = "claimed"
      BY <2>1, <3>4
    <3>. QED
      BY <1>2, <2>3, <3>1, <3>2, <3>3, <3>4, MovesOn
  <2>4. ASSUME NEW w \in Worker, WorkerStep(w), w # v PROVE run'[v] = run[v]
    BY <1>2, <2>0, <2>4, RunStep DEF ControllerInv
  <2>5. Environment \/ UNCHANGED allVars => run' = run
    BY DEF Environment, Enqueue, Deliver, MoveHead, outside, allVars
  <2>. QED
    BY <1>2, <2>2, <2>3, <2>4, <2>5, StepKinds DEF ControllerInv
<1>. QED
  BY <1>1, <1>2, ControllerInvAlways, PTL DEF ControllerSpec

-----------------------------------------------------------------------------
\* External effects.  What a step adds to them: one operation that its worker had
\* been cleared for, marked late exactly if the worker has lost its task by now.
NewEffect(w, e) ==
  /\ run[w].pc \in Cleared /\ run'[w].pc \in Step \ Cleared
  /\ run'[w].lease = run[w].lease
  /\ UNCHANGED vars
  /\ effects' = effects \cup {e}
  /\ e.task = Job(w) /\ e.epoch = Lease(w).epoch
  /\ e.late <=> ~Current(Lease(w))
  /\ e.kind = "merge" => /\ e.rev = Base(w) + 1
                         /\ Repo(w).delivery = "local" => Base(w) = Want(w)
  /\ e.kind = "deploy" => run[w].pc = "deploying" /\ e.rev = run[w].sha

\* An operation is late exactly if the lease is no longer current.
LEMMA PerformIsNew ==
  ASSUME ControllerInv, NEW w \in Worker, run[w].pc # "idle", NEW kind, NEW rev,
         Perform(w, kind, rev)
  PROVE  \E e : /\ effects' = effects \cup {e}
                /\ e.task = Job(w) /\ e.epoch = Lease(w).epoch
                /\ e.kind = kind /\ e.rev = rev
                /\ e.late <=> ~Current(Lease(w))
<1> DEFINE late == ~(lease[Job(w)].worker = w /\ epoch[Job(w)] = Lease(w).epoch)
           e == [task |-> Job(w), epoch |-> Lease(w).epoch, kind |-> kind,
                 rev |-> rev, late |-> late]
<1>1. effects' = effects \cup {e}
  BY DEF Perform
<1>2. /\ Lease(w).worker = w /\ Lease(w).task = Job(w) /\ Job(w) \in Task
      /\ w # None
  BY BusyType, NoneAssumption DEF ControllerInv, RunInv, Tied
<1>3. lease[Job(w)].worker = w => lease[Job(w)].epoch = epoch[Job(w)]
  BY <1>2 DEF ControllerInv, HandlesInv, NoLease
<1>4. late <=> ~Current(Lease(w))
  BY <1>2, <1>3 DEF Current
<1> HIDE DEF late
<1>5. /\ e.task = Job(w) /\ e.epoch = Lease(w).epoch /\ e.kind = kind
      /\ e.rev = rev /\ e.late = late
  OBVIOUS
<1> HIDE DEF e
<1>. QED
  BY <1>1, <1>4, <1>5

\* Only the four external operations change the set of effects.
LEMMA EffectSteps ==
  ASSUME ControllerInv, [ControllerNext]_allVars
  PROVE  \/ effects' = effects
         \/ \E w \in Worker : /\ WorkerStep(w)
                              /\ \E e : NewEffect(w, e)
<1>0. run \in [Worker -> Execution]
  BY DEF ControllerInv, ControllerTypeOK
<1>1. ASSUME NEW w \in Worker, NEW p, NEW kind, NEW q, NEW rev, Acts(w, p, kind, q, rev)
      PROVE  \E e : NewEffect(w, e)
  <2>1. /\ p \in Cleared /\ q \in Step \ Cleared /\ p # "idle" /\ kind # "merge"
        /\ kind = "deploy" => p = "deploying"
    BY <1>1 DEF Acts, ActEdge, Cleared, Step
  <2>2. run[w].pc = p /\ run'[w].pc = q /\ run'[w].lease = run[w].lease
    BY <1>0, <1>1 DEF Acts, Goes
  <2>3. PICK e : /\ effects' = effects \cup {e}
                 /\ e.task = Job(w) /\ e.epoch = Lease(w).epoch
                 /\ e.kind = kind /\ e.rev = rev
                 /\ e.late <=> ~Current(Lease(w))
    BY <1>1, <2>1, <2>2, PerformIsNew DEF Acts
  <2>4. NewEffect(w, e)
    BY <1>1, <2>1, <2>2, <2>3 DEF NewEffect, Acts, vars
  <2>. QED
    BY <2>4
<1>2. ASSUME NEW w \in Worker, Merge(w) PROVE \E e : NewEffect(w, e)
  <2>1. run[w].pc = "merging" /\ run[w].pc # "idle"
    BY <1>2 DEF Merge
  <2>2. run[w] \in [pc : Step, lease : Handle, seen : Nat, attempt : Nat, sha : Nat,
                    stop : BOOLEAN]
    BY <2>1, BusyType DEF ControllerInv
  <2>3. run'[w].pc = "delivered" /\ run'[w].lease = run[w].lease
    BY <1>0, <1>2, <2>2 DEF Merge
  <2>4. PICK e : /\ effects' = effects \cup {e}
                 /\ e.task = Job(w) /\ e.epoch = Lease(w).epoch
                 /\ e.kind = "merge" /\ e.rev = Base(w) + 1
                 /\ e.late <=> ~Current(Lease(w))
    BY <1>2, <2>1, PerformIsNew DEF Merge
  <2>5. "merging" \in Cleared /\ "delivered" \in Step \ Cleared
    BY DEF Cleared, Step
  <2>6. NewEffect(w, e)
    BY <1>2, <2>1, <2>3, <2>4, <2>5 DEF NewEffect, Merge, vars
  <2>. QED
    BY <2>6
<1>3. ASSUME NEW w \in Worker, WorkerStep(w)
      PROVE  effects' = effects \/ \E e : NewEffect(w, e)
  <2>1. Raise(w) \/ Crash(w) \/ Heartbeat(w) \/ RequestStop(w) \/ RecordTorn(w)
          \/ RecordSuccess(w) \/ ClaimTask(w) \/ FetchTask(w) \/ ReleaseBase(w)
          => effects' = effects
    BY DEF Raise, Crash, Heartbeat, RequestStop, RecordTorn, RecordSuccess,
           ClaimTask, FetchTask, ReleaseBase, Look, outside
  <2>. QED
    BY <1>1, <1>2, <1>3, <2>1 DEF WorkerStep, Reports, Looks, Asks, Ends, outside
<1>4. Environment \/ UNCHANGED allVars => effects' = effects
  BY DEF Environment, Enqueue, Deliver, MoveHead, outside, allVars
<1>. QED
  BY <1>3, <1>4, StepKinds DEF ControllerInv

\* A worker is cleared for an operation only while its lease is current.
LEMMA ClearedIsCurrent ==
  ASSUME ControllerInv, NEW w \in Worker, WorkerStep(w), run[w].pc \notin Cleared,
         run'[w].pc \in Cleared
  PROVE  Current(Lease(w))
<1>0. run \in [Worker -> Execution] /\ "idle" \notin Cleared
  BY DEF ControllerInv, ControllerTypeOK, Cleared
<1>1. run[w].pc # "idle" =>
        run[w] \in [pc : Step, lease : Handle, seen : Nat, attempt : Nat, sha : Nat,
                    stop : BOOLEAN]
  BY BusyType DEF ControllerInv
<1>2. \A p, s, q : Reports(w, p, s, q) => Current(Lease(w))
  BY DEF Reports, Report, Transition, Valid, Current
<1>3. Active(w) => Current(Lease(w))
  BY DEF Active, Valid, Current
<1>4. ASSUME NEW p, NEW q, Asks(w, p, q) PROVE FALSE
  <2>1. run'[w].pc = q
    BY <1>0, <1>4 DEF Asks, Goes
  <2>. QED
    BY <1>4, <2>1 DEF Asks, AskEdge, Cleared
<1>5. ASSUME NEW p, NEW kind, NEW q, NEW rev, Acts(w, p, kind, q, rev) PROVE FALSE
  <2>1. run'[w].pc = q
    BY <1>0, <1>5 DEF Acts, Goes
  <2>. QED
    BY <1>5, <2>1 DEF Acts, ActEdge, Cleared
<1>6. ~ClaimTask(w)
  BY <1>0 DEF ClaimTask, Idle, Cleared
<1>7. ~FetchTask(w)
  BY <1>0, <1>1 DEF FetchTask, Cleared
<1>8. ~ReleaseBase(w)
  BY <1>0, <1>1 DEF ReleaseBase, Cleared
<1>9. ~Merge(w)
  BY <1>0, <1>1 DEF Merge, Cleared
<1>10. run'[w] # Idle
  BY <1>0 DEF Idle
<1>11. ~(RecordTorn(w) \/ Raise(w) \/ Crash(w) \/ (\E p, s : Ends(w, p, s)))
  BY <1>0, <1>10 DEF RecordTorn, Finish, Raise, Crash, Ends
<1>12. ~Heartbeat(w)
  BY DEF Heartbeat
<1>13. ~RequestStop(w)
  BY <1>0, <1>1 DEF RequestStop, Cleared
<1>14. ~RecordSuccess(w)
  <2>1. RecordSuccess(w) => Goes(w, "healthy", "complete", run[w].sha)
    BY <1>0, AdvanceGoes DEF RecordSuccess, Step
  <2>. QED
    BY <1>0, <2>1 DEF Goes, Cleared
<1>. QED
  BY <1>2, <1>3, <1>4, <1>5, <1>6, <1>7, <1>8, <1>9, <1>11, <1>12, <1>13, <1>14
  DEF WorkerStep, Looks

\* A task that exists keeps existing, and keeps its request and its policy.
LEMMA RequestsFixed ==
  ASSUME ControllerInv, [ControllerNext]_allVars, NEW t \in Task, state[t] # "absent"
  PROVE  state'[t] # "absent" /\ request'[t] = request[t] /\ policy' = policy
<1>1. state'[t] # "absent"
  BY StoreStep, RowSteps
  DEF ControllerInv, ControllerTypeOK, RowStep, Untouched, Created, Granted, Held,
      Revoked, Stage, UnknownOutcome, Terminal
<1>2. ASSUME NEW u \in Task, NEW m, Enqueue(u, m)
      PROVE  request'[t] = request[t] /\ policy' = policy
  BY <1>2 DEF Enqueue, Create, ControllerInv, ControllerTypeOK
<1>3. ASSUME NEW g, NEW R, NEW m, Deliver(g, R, m)
      PROVE  request'[t] = request[t] /\ policy' = policy
  BY <1>3 DEF Deliver, Ingest
<1>4. ASSUME NEW w \in Worker, WorkerStep(w) PROVE request' = request /\ policy' = policy
  BY <1>4 DEF WorkerStep, Reports, Looks, Asks, Acts, Ends, outside, Merge, Raise,
       Crash, Heartbeat, RequestStop, RecordTorn, RecordSuccess, ClaimTask,
       FetchTask, ReleaseBase, Look
<1>5. UNCHANGED allVars => request' = request /\ policy' = policy
  BY DEF allVars, outside
<1>6. Environment => request'[t] = request[t] /\ policy' = policy
  BY <1>2, <1>3 DEF Environment, MoveHead, outside
<1>. QED
  BY <1>1, <1>4, <1>5, <1>6, StepKinds DEF ControllerInv

-----------------------------------------------------------------------------
\* Late effects.  No effect is ahead of its task's epoch; whoever performed a late
\* one has lost its lease and is not cleared for another.
LateInv ==
  /\ \A e \in effects : e.epoch <= epoch[e.task] /\ state[e.task] # "absent"
  /\ \A e \in effects, w \in Worker :
       e.late /\ run[w].pc # "idle" /\ Job(w) = e.task /\ Lease(w).epoch = e.epoch
         => ~Current(Lease(w)) /\ run[w].pc \notin Cleared
  /\ AtMostOneLateEffect

\* A worker that performed a late effect stays locked out.
LEMMA LockedOut ==
  ASSUME ControllerInv, LateInv, [ControllerNext]_allVars, NEW e \in effects, e.late,
         NEW v \in Worker, run'[v].pc # "idle", Job(v)' = e.task,
         Lease(v)'.epoch = e.epoch
  PROVE  ~Current(Lease(v))' /\ run'[v].pc \notin Cleared
<1>0. /\ run \in [Worker -> Execution] /\ TypeOK /\ StageHasLease /\ HandlesInv
      /\ [Next]_vars
  BY StoreStep DEF ControllerInv, ControllerTypeOK
<1>1. ASSUME run[v].pc # "idle", run'[v].lease = run[v].lease
      PROVE  /\ ~Current(Lease(v))' /\ ~Current(Lease(v)) /\ run[v].pc \notin Cleared
  <2>1. Job(v) = e.task /\ Lease(v).epoch = e.epoch
    BY <1>1 DEF Job, Lease
  <2>2. ~Current(Lease(v)) /\ run[v].pc \notin Cleared
    BY <1>1, <2>1 DEF LateInv
  <2>. QED
    BY <1>0, <1>1, <2>2, WasCurrent
<1>2. CASE run'[v] = run[v]
  BY <1>1, <1>2
<1>3. CASE WorkerStep(v)
  <2>1. run'[v] # Idle
    BY DEF Idle
  <2>2. ~ClaimTask(v)
    <3> SUFFICES ASSUME ClaimTask(v) PROVE FALSE
      OBVIOUS
    <3>1. PICK t \in Task : run'[v].lease.task = t /\ run'[v].lease.epoch = epoch[t] + 1
      BY <1>0 DEF ClaimTask, Idle, NextEpoch
    <3>2. e.task = t /\ e.epoch = epoch[t] + 1
      BY <3>1 DEF Job, Lease
    <3>. QED
      BY <1>0, <3>2 DEF LateInv, TypeOK
  <2>3. run[v].pc # "idle" /\ run'[v].lease = run[v].lease
    <3>1. FetchTask(v) => run[v].pc # "idle" /\ run'[v].lease = run[v].lease
      <4>1. FetchTask(v) => run[v] \in [pc : Step, lease : Handle, seen : Nat,
                                       attempt : Nat, sha : Nat, stop : BOOLEAN]
        BY BusyType DEF FetchTask, ControllerInv
      <4>. QED
        BY <1>0, <4>1 DEF FetchTask
    <3>. QED
      BY <1>3, <2>1, <2>2, <3>1, MovesOn
  <2>. QED
    BY <1>1, <1>3, <2>3, ClearedIsCurrent
<1>4. ASSUME NEW w \in Worker, WorkerStep(w), w # v PROVE run'[v] = run[v]
  BY <1>0, <1>4, RunStep DEF ControllerInv
<1>5. Environment \/ UNCHANGED allVars => run' = run
  BY DEF Environment, Enqueue, Deliver, MoveHead, outside, allVars
<1>. QED
  BY <1>2, <1>3, <1>4, <1>5, StepKinds DEF ControllerInv

\* Every step keeps late effects single.
LEMMA LateStep ==
  ASSUME ControllerInv, LateInv, [ControllerNext]_allVars
  PROVE  LateInv'
<1>0. /\ run \in [Worker -> Execution] /\ TypeOK /\ StageHasLease /\ HandlesInv
      /\ [Next]_vars /\ effects \subseteq Effect /\ TypeOK'
  BY StoreStep, TypeStep DEF ControllerInv, ControllerTypeOK
<1>1. \A e \in effects : e.epoch <= epoch'[e.task] /\ state'[e.task] # "absent"
  <2> TAKE e \in effects
  <2>1. e.task \in Task /\ e.epoch \in Nat
    BY <1>0 DEF Effect
  <2>2. epoch'[e.task] >= epoch[e.task] /\ epoch[e.task] \in Nat /\ epoch'[e.task] \in Nat
    BY <1>0, <2>1, EpochGrows DEF TypeOK
  <2>. QED
    BY <2>1, <2>2, RequestsFixed DEF LateInv
<1>2. \A e \in effects, v \in Worker :
        e.late /\ run'[v].pc # "idle" /\ Job(v)' = e.task /\ Lease(v)'.epoch = e.epoch
          => ~Current(Lease(v))' /\ run'[v].pc \notin Cleared
  BY LockedOut
<1>3. CASE effects' = effects
  BY <1>1, <1>2, <1>3 DEF LateInv, AtMostOneLateEffect
<1>4. ASSUME NEW w \in Worker, NEW n, WorkerStep(w), NewEffect(w, n) PROVE LateInv'
  <2>1. /\ Lease(w) \in issued /\ Lease(w).worker = w /\ state[Job(w)] # "absent"
        /\ Lease(w).task = Job(w) /\ run[w].pc # "idle"
    BY <1>4, BusyType DEF NewEffect, Cleared, ControllerInv, RunInv, Tied
  <2>2. n.epoch <= epoch'[n.task] /\ state'[n.task] # "absent"
    BY <1>0, <1>4, <2>1 DEF NewEffect, HandlesInv, vars
  <2>3. ASSUME NEW v \in Worker, n.late, run'[v].pc # "idle", Job(v)' = n.task,
               Lease(v)'.epoch = n.epoch
        PROVE  ~Current(Lease(v))' /\ run'[v].pc \notin Cleared
    <3>1. CASE v = w
      <4>1. Lease(v)' = Lease(v)
        BY <1>4, <3>1 DEF NewEffect, Lease
      <4>2. ~Current(Lease(v)) /\ lease' = lease /\ epoch' = epoch
        BY <1>4, <2>3, <3>1 DEF NewEffect, vars
      <4>. QED
        BY <1>4, <3>1, <4>1, <4>2 DEF NewEffect, Current
    <3>2. CASE v # w
      <4>1. run'[v] = run[v]
        BY <1>0, <1>4, <3>2, RunStep DEF ControllerInv
      <4>2. /\ run[v].pc # "idle" /\ Job(v) = Job(w) /\ Lease(v).epoch = Lease(w).epoch
        BY <1>4, <2>3, <4>1 DEF NewEffect, Job, Lease
      <4>3. /\ Lease(v) \in issued /\ Lease(v).worker = v /\ Lease(v).task = Job(v)
        BY <4>2, BusyType DEF ControllerInv, RunInv, Tied
      <4>. QED
        BY <1>0, <2>1, <3>2, <4>2, <4>3 DEF HandlesInv, EpochNamesOneHandle
    <3>. QED
      BY <3>1, <3>2
  <2>4. ASSUME NEW f \in effects, f.late, n.late, f.task = n.task, f.epoch = n.epoch
        PROVE  FALSE
    BY <1>4, <2>1, <2>4 DEF NewEffect, LateInv
  <2>5. effects' = effects \cup {n}
    BY <1>4 DEF NewEffect
  <2>6. AtMostOneLateEffect'
    BY <2>4, <2>5 DEF AtMostOneLateEffect, LateInv
  <2>. QED
    BY <1>1, <1>2, <2>2, <2>3, <2>5, <2>6 DEF LateInv
<1>. QED
  BY <1>3, <1>4, EffectSteps

\* The strengthened invariant about late effects holds in every state.
LEMMA LateAlways == ControllerSpec => []LateInv
<1>1. ControllerInit => LateInv
  BY DEF ControllerInit, LateInv, AtMostOneLateEffect
<1>. QED
  BY <1>1, LateStep, ControllerInvAlways, PTL DEF ControllerSpec

\* Whatever the interleaving of expiry, recovery and controls with the pipeline, a
\* worker that lost its task performs at most one operation more.
THEOREM LateEffectsAreSingle == ControllerSpec => []AtMostOneLateEffect
<1>1. LateInv => AtMostOneLateEffect
  BY DEF LateInv
<1>. QED
  BY <1>1, LateAlways, PTL

\* Local delivery only fast-forwards the base that was tested, although the request
\* of a task and the policy of its repository are read again at the merge.
THEOREM MergesAreFastForwards == ControllerSpec => []MergedOntoTestedBase
<1>1. ControllerInit => MergedOntoTestedBase
  BY DEF ControllerInit, MergedOntoTestedBase
<1>2. ASSUME ControllerInv, LateInv, MergedOntoTestedBase, [ControllerNext]_allVars
      PROVE  MergedOntoTestedBase'
  <2>1. ASSUME NEW e \in effects, policy'[RepoOf[e.task]].delivery = "local",
               e.kind = "merge"
        PROVE  e.rev = request'[e.task].base + 1
    <3>1. e.task \in Task /\ state[e.task] # "absent"
      BY <1>2 DEF ControllerInv, ControllerTypeOK, Effect, LateInv
    <3>. QED
      BY <1>2, <2>1, <3>1, RequestsFixed DEF MergedOntoTestedBase
  <2>2. ASSUME NEW w \in Worker, NEW n, WorkerStep(w), NewEffect(w, n),
               policy'[RepoOf[n.task]].delivery = "local", n.kind = "merge"
        PROVE  n.rev = request'[n.task].base + 1
    <3>1. run[w].pc # "idle"
      BY <2>2 DEF NewEffect, Cleared
    <3>2. Job(w) \in Task /\ state[Job(w)] # "absent"
      BY <1>2, <3>1, BusyType DEF ControllerInv, RunInv, Tied
    <3>3. policy' = policy /\ request'[Job(w)] = request[Job(w)]
      BY <1>2, <3>2, RequestsFixed
    <3>. QED
      BY <2>2, <3>3 DEF NewEffect, Repo, Want, Base, Job
  <2>3. ASSUME NEW w \in Worker, NEW n, WorkerStep(w), NewEffect(w, n)
        PROVE  MergedOntoTestedBase'
    BY <2>1, <2>2, <2>3 DEF MergedOntoTestedBase, NewEffect
  <2>. QED
    BY <1>2, <2>1, <2>3, EffectSteps DEF MergedOntoTestedBase
<1>. QED
  BY <1>1, <1>2, ControllerInvAlways, LateAlways, PTL DEF ControllerSpec

-----------------------------------------------------------------------------
\* Verified trees.  The commit of a run is none before the merge, the requested base
\* or the task's own merge after it.
Early == Step \ ({"delivered", "release", "checking"} \cup Releasing)
Late  == {"release", "checking"} \cup Releasing

Merged(w) ==
  \E m \in effects : m.task = Job(w) /\ m.kind = "merge" /\ m.rev = run[w].sha

Pinned(w) ==
  /\ run[w].pc \in Early => run[w].sha = 0
  /\ run[w].pc = "delivered" => run[w].sha = 0 \/ Merged(w)
  /\ run[w].pc \in Late =>
       run[w].sha = Want(w) \/ (run[w].sha = Want(w) + 1 /\ Merged(w))

PinnedInv == (\A w \in Worker : Pinned(w)) /\ DeployedTreeWasVerified

\* The graph: nothing leaves a place after the merge except towards the hooks, and
\* nothing reaches one without a delivered candidate.
LEMMA EdgeOrder ==
  /\ \A p, s, q : <<p, s, q>> \in ReportEdge =>
       /\ p \in Early => q \in Early \cup {"delivered"}
       /\ p \in Late => q \in Late
       /\ p # "delivered"
  /\ \A p, q : <<p, q>> \in LookEdge \cup AskEdge =>
       /\ p \in Early => q \in Early
       /\ p \in Late => q \in Late
       /\ p = "delivered" => q = "release"
  /\ \A p, kind, q : <<p, kind, q>> \in ActEdge =>
       /\ p \in Early => q \in Early \cup {"delivered"}
       /\ p \in Late => q \in Late
       /\ p # "delivered"
<1>1. \A p, s, q : <<p, s, q>> \in ReportEdge =>
       /\ p \in Early => q \in Early \cup {"delivered"}
       /\ p \in Late => q \in Late
       /\ p # "delivered"
  BY DEF ReportEdge, Early, Late, Releasing, Step
<1>2. \A p, q : <<p, q>> \in LookEdge \cup AskEdge =>
       /\ p \in Early => q \in Early
       /\ p \in Late => q \in Late
       /\ p = "delivered" => q = "release"
  BY DEF LookEdge, AskEdge, Early, Late, Releasing, Step
<1>3. \A p, kind, q : <<p, kind, q>> \in ActEdge =>
       /\ p \in Early => q \in Early \cup {"delivered"}
       /\ p \in Late => q \in Late
       /\ p # "delivered"
  BY DEF ActEdge, Early, Late, Releasing, Step
<1>. QED
  BY <1>1, <1>2, <1>3

\* How the worker that takes a step carries its commit along.
LEMMA CommitMoves ==
  ASSUME ControllerInv, NEW w \in Worker, WorkerStep(w)
  PROVE  \/ run'[w].pc \in Early \cup {"idle"} /\ run'[w].sha = 0
         \/ ReleaseBase(w) \/ Merge(w)
         \/ /\ run[w].pc # "idle"
            /\ run'[w].lease = run[w].lease /\ run'[w].sha = run[w].sha
            /\ run[w].pc \in Early => run'[w].pc \in Early \cup {"delivered"}
            /\ run[w].pc \in Late => run'[w].pc \in Late
            /\ run[w].pc = "delivered" =>
                 run'[w].pc = "delivered" \/ (run'[w].pc = "release" /\ SameTree(w))
<1>0. run \in [Worker -> Execution]
  BY DEF ControllerInv, ControllerTypeOK
<1> DEFINE Kept ==
         /\ run[w].pc # "idle"
         /\ run'[w].lease = run[w].lease /\ run'[w].sha = run[w].sha
         /\ run[w].pc \in Early => run'[w].pc \in Early \cup {"delivered"}
         /\ run[w].pc \in Late => run'[w].pc \in Late
         /\ run[w].pc = "delivered" =>
              run'[w].pc = "delivered" \/ (run'[w].pc = "release" /\ SameTree(w))
<1>1. run[w].pc # "idle" =>
        run[w] \in [pc : Step, lease : Handle, seen : Nat, attempt : Nat, sha : Nat,
                    stop : BOOLEAN]
  BY BusyType DEF ControllerInv
<1>2. ClaimTask(w) => run'[w].pc \in Early /\ run'[w].sha = 0
  <2>1. "claimed" \in Early
    BY DEF Early, Step, Releasing
  <2>2. ClaimTask(w) => run'[w].pc = "claimed" /\ run'[w].sha = 0
    BY <1>0 DEF ClaimTask, Idle
  <2>. QED
    BY <2>1, <2>2
<1>3. FetchTask(w) => Kept
  <2>1. /\ "claimed" \in Early /\ "fetched" \in Early
        /\ "claimed" \notin Late /\ "claimed" # "idle"
    BY DEF Early, Late, Step, Releasing
  <2>2. FetchTask(w) => /\ run[w].pc = "claimed" /\ run'[w].pc = "fetched"
                        /\ run'[w].lease = run[w].lease /\ run'[w].sha = run[w].sha
    BY <1>0, <1>1 DEF FetchTask
  <2>. QED
    BY <2>1, <2>2
<1>4. ASSUME NEW p, NEW s, NEW q, Reports(w, p, s, q) PROVE Kept
  <2>1. /\ run[w].pc = p /\ run'[w].pc = q /\ run'[w].lease = run[w].lease
        /\ run'[w].sha = run[w].sha /\ <<p, s, q>> \in ReportEdge
    BY <1>0, <1>4 DEF Reports, Goes
  <2>. QED
    BY <2>1, EdgeOrder, EdgeStates
<1>5. ASSUME NEW p, NEW q, Looks(w, p, q) PROVE Kept
  <2>1. /\ run[w].pc = p /\ run'[w].pc = q /\ run'[w].lease = run[w].lease
        /\ run'[w].sha = run[w].sha /\ <<p, q>> \in LookEdge
        /\ q = "release" => SameTree(w)
    BY <1>0, <1>5 DEF Looks, Goes
  <2>. QED
    BY <2>1, EdgeOrder, EdgeStates
<1>6. ASSUME NEW p, NEW q, Asks(w, p, q) PROVE Kept
  <2>1. /\ run[w].pc = p /\ run'[w].pc = q /\ run'[w].lease = run[w].lease
        /\ run'[w].sha = run[w].sha /\ <<p, q>> \in AskEdge
    BY <1>0, <1>6 DEF Asks, Goes
  <2>2. p # "delivered"
    BY <2>1 DEF AskEdge
  <2>. QED
    BY <2>1, <2>2, EdgeOrder, EdgeStates
<1>7. ASSUME NEW p, NEW kind, NEW q, NEW rev, Acts(w, p, kind, q, rev) PROVE Kept
  <2>1. /\ run[w].pc = p /\ run'[w].pc = q /\ run'[w].lease = run[w].lease
        /\ run'[w].sha = run[w].sha /\ <<p, kind, q>> \in ActEdge
    BY <1>0, <1>7 DEF Acts, Goes
  <2>. QED
    BY <2>1, EdgeOrder, EdgeStates
<1>8. RecordTorn(w) \/ Raise(w) \/ Crash(w) \/ (\E p, s : Ends(w, p, s))
        => run'[w] = Idle
  BY <1>0 DEF RecordTorn, Finish, Raise, Crash, Ends
<1>9. RecordSuccess(w) => Kept
  <2>1. RecordSuccess(w) => Goes(w, "healthy", "complete", run[w].sha)
    BY <1>0, AdvanceGoes DEF RecordSuccess, Step
  <2>2. RecordSuccess(w) =>
          /\ run[w].pc = "healthy" /\ run'[w].pc = "complete"
          /\ run'[w].lease = run[w].lease /\ run'[w].sha = run[w].sha
    BY <1>0, <2>1 DEF Goes
  <2>3. {"healthy", "complete"} \subseteq Late /\ "healthy" \notin Early
    BY DEF Early, Late, Releasing
  <2>. QED
    BY <2>2, <2>3
<1>10. Heartbeat(w) => Kept
  BY DEF Heartbeat, Step
<1>11. RequestStop(w) => Kept
  <2>1. RequestStop(w) =>
          /\ run[w].pc # "idle" /\ run'[w].pc = run[w].pc
          /\ run'[w].lease = run[w].lease /\ run'[w].sha = run[w].sha
    BY <1>0, <1>1 DEF RequestStop
  <2>. QED
    BY <2>1
<1>12. Idle.pc = "idle" /\ Idle.sha = 0
  BY DEF Idle
<1> HIDE DEF Kept
<1>13. Kept \/ ReleaseBase(w) \/ Merge(w)
         \/ (run'[w].pc \in Early \cup {"idle"} /\ run'[w].sha = 0)
  BY <1>2, <1>3, <1>4, <1>5, <1>6, <1>7, <1>8, <1>9, <1>10, <1>11, <1>12
  DEF WorkerStep
<1>. QED
  BY <1>13 DEF Kept

\* Every step keeps every run at a commit that was verified.
LEMMA PinnedStep ==
  ASSUME ControllerInv, LateInv, PinnedInv, [ControllerNext]_allVars
  PROVE  PinnedInv'
<1>0. run \in [Worker -> Execution]
  BY DEF ControllerInv, ControllerTypeOK
<1>1. effects \subseteq effects'
  BY EffectSteps DEF NewEffect
<1>2. ASSUME NEW v \in Worker, run[v].pc # "idle", run'[v].lease = run[v].lease
      PROVE  /\ Job(v)' = Job(v) /\ Want(v)' = Want(v) /\ Want(v) \in Nat
  <2>1. Job(v)' = Job(v) /\ Job(v) \in Task /\ state[Job(v)] # "absent"
    BY <1>2, BusyType DEF Job, ControllerInv, RunInv, Tied
  <2>2. request'[Job(v)] = request[Job(v)]
    BY <2>1, RequestsFixed
  <2>3. request[Job(v)].base \in Nat
    BY <2>1 DEF ControllerInv, ControllerTypeOK
  <2>. QED
    BY <2>1, <2>2, <2>3 DEF Want
<1>3. ASSUME NEW v \in Worker, run'[v] = run[v] PROVE Pinned(v)'
  <2>1. CASE run[v].pc = "idle"
    BY <1>3, <2>1 DEF Pinned, Early, Late, Step, Releasing
  <2>2. CASE run[v].pc # "idle"
    BY <1>1, <1>2, <1>3, <2>2 DEF PinnedInv, Pinned, Merged
  <2>. QED
    BY <2>1, <2>2
<1>4. ASSUME NEW v \in Worker, WorkerStep(v) PROVE Pinned(v)'
  <2>1. CASE run'[v].pc \in Early \cup {"idle"} /\ run'[v].sha = 0
    <3>1. /\ Early \cap Late = {} /\ "delivered" \notin Early /\ "idle" \notin Late
          /\ "idle" # "delivered"
      BY DEF Early, Late, Releasing
    <3>. QED
      BY <2>1, <3>1 DEF Pinned
  <2>2. CASE ReleaseBase(v)
    <3>1. run[v].pc # "idle"
      BY <2>2 DEF ReleaseBase
    <3>2. run[v] \in [pc : Step, lease : Handle, seen : Nat, attempt : Nat, sha : Nat,
                      stop : BOOLEAN]
      BY <3>1, BusyType DEF ControllerInv
    <3>3. /\ run'[v].pc = "release" /\ run'[v].lease = run[v].lease
          /\ run'[v].sha = Want(v)
      BY <1>0, <2>2, <3>2 DEF ReleaseBase
    <3>4. "release" \notin Early
      BY DEF Early
    <3>. QED
      BY <1>2, <3>1, <3>3, <3>4 DEF Pinned
  <2>3. CASE Merge(v)
    <3>1. run[v].pc # "idle"
      BY <2>3 DEF Merge
    <3>2. run[v] \in [pc : Step, lease : Handle, seen : Nat, attempt : Nat, sha : Nat,
                      stop : BOOLEAN]
      BY <3>1, BusyType DEF ControllerInv
    <3>3. /\ run'[v].pc = "delivered" /\ run'[v].lease = run[v].lease
          /\ run'[v].sha = Base(v) + 1
      BY <1>0, <2>3, <3>2 DEF Merge
    <3>4. PICK n : /\ effects' = effects \cup {n}
                   /\ n.task = Job(v) /\ n.kind = "merge" /\ n.rev = Base(v) + 1
      BY <2>3, <3>1, PerformIsNew DEF Merge
    <3>5. Merged(v)'
      BY <1>2, <3>1, <3>3, <3>4 DEF Merged
    <3>6. "delivered" \notin Early /\ "delivered" \notin Late
      BY DEF Early, Late, Releasing
    <3>. QED
      BY <3>3, <3>5, <3>6 DEF Pinned
  <2>4. CASE /\ run[v].pc # "idle"
             /\ run'[v].lease = run[v].lease /\ run'[v].sha = run[v].sha
             /\ run[v].pc \in Early => run'[v].pc \in Early \cup {"delivered"}
             /\ run[v].pc \in Late => run'[v].pc \in Late
             /\ run[v].pc = "delivered" =>
                  run'[v].pc = "delivered" \/ (run'[v].pc = "release" /\ SameTree(v))
    <3>1. Merged(v) => Merged(v)'
      BY <1>1, <1>2, <2>4 DEF Merged
    <3>2. run[v].pc \in Early \cup Late \cup {"delivered"}
      BY <2>4, BusyType DEF ControllerInv, Early, Late
    <3>3. /\ Early \cap Late = {} /\ "delivered" \notin Early /\ "delivered" \notin Late
          /\ "release" \notin Early /\ "release" # "delivered"
      BY DEF Early, Late, Releasing
    <3>4. Pinned(v)
      BY DEF PinnedInv
    <3>5. Want(v)' = Want(v) /\ Want(v) \in Nat
      BY <1>2, <2>4
    <3>6. CASE run[v].pc \in Early
      BY <2>4, <3>3, <3>4, <3>6 DEF Pinned
    <3>7. CASE run[v].pc \in Late
      BY <2>4, <3>1, <3>3, <3>4, <3>5, <3>7 DEF Pinned
    <3>8. CASE run[v].pc = "delivered"
      <4>1. run[v].sha = 0 \/ Merged(v)
        BY <3>4, <3>8 DEF Pinned
      <4>2. SameTree(v) => run[v].sha = Want(v) + 1 /\ run[v].sha # 0
        BY <3>5 DEF SameTree
      <4>. QED
        BY <2>4, <3>1, <3>3, <3>5, <3>8, <4>1, <4>2 DEF Pinned
    <3>. QED
      BY <3>2, <3>6, <3>7, <3>8
  <2>. QED
    BY <1>4, <2>1, <2>2, <2>3, <2>4, CommitMoves
<1>5. ASSUME NEW v \in Worker PROVE Pinned(v)'
  <2>1. ASSUME NEW w \in Worker, WorkerStep(w), w # v PROVE run'[v] = run[v]
    BY <1>0, <2>1, RunStep DEF ControllerInv
  <2>2. Environment \/ UNCHANGED allVars => run' = run
    BY DEF Environment, Enqueue, Deliver, MoveHead, outside, allVars
  <2>. QED
    BY <1>3, <1>4, <2>1, <2>2, StepKinds DEF ControllerInv
<1>6. ASSUME NEW e \in effects, e.kind = "deploy"
      PROVE  \/ e.rev = request'[e.task].base
             \/ /\ e.rev = request'[e.task].base + 1
                /\ \E m \in effects' : m.task = e.task /\ m.kind = "merge" /\ m.rev = e.rev
  <2>1. e.task \in Task /\ state[e.task] # "absent"
    BY <1>6 DEF ControllerInv, ControllerTypeOK, Effect, LateInv
  <2>2. request'[e.task] = request[e.task]
    BY <2>1, RequestsFixed
  <2>. QED
    BY <1>1, <1>6, <2>2 DEF PinnedInv, DeployedTreeWasVerified
<1>7. ASSUME NEW w \in Worker, NEW n, NewEffect(w, n), n.kind = "deploy"
      PROVE  \/ n.rev = request'[n.task].base
             \/ /\ n.rev = request'[n.task].base + 1
                /\ \E m \in effects' : m.task = n.task /\ m.kind = "merge" /\ m.rev = n.rev
  <2>1. run[w].pc = "deploying" /\ n.rev = run[w].sha /\ n.task = Job(w)
    BY <1>7 DEF NewEffect
  <2>2. request'[Job(w)] = request[Job(w)]
    BY <2>1, BusyType, RequestsFixed DEF ControllerInv, RunInv, Tied
  <2>3. "deploying" \in Late
    BY DEF Late, Releasing
  <2>4. run[w].sha = Want(w) \/ (run[w].sha = Want(w) + 1 /\ Merged(w))
    BY <2>1, <2>3 DEF PinnedInv, Pinned
  <2>. QED
    BY <1>1, <2>1, <2>2, <2>4 DEF Want, Merged
<1>8. DeployedTreeWasVerified'
  BY <1>6, <1>7, EffectSteps DEF DeployedTreeWasVerified, NewEffect
<1>. QED
  BY <1>5, <1>8 DEF PinnedInv

\* What a worker deploys is the requested base, which it checked, or its own merge
\* of the checked candidate onto exactly that base.
THEOREM DeployedTreesWereVerified == ControllerSpec => []DeployedTreeWasVerified
<1>1. ControllerInit => PinnedInv
  BY DEF ControllerInit, PinnedInv, Pinned, Idle, Early, Late, Step, Releasing,
         DeployedTreeWasVerified
<1>2. PinnedInv => DeployedTreeWasVerified
  BY DEF PinnedInv
<1>. QED
  BY <1>1, <1>2, PinnedStep, ControllerInvAlways, LateAlways, PTL DEF ControllerSpec

-----------------------------------------------------------------------------
\* Outcomes.  The hooks of a task have done what the place of its holder says, its
\* row is in a stage that admits it, and a pointer names a release nobody works on.
HooksAgree(w) ==
  run[w].pc # "idle" /\ Current(Lease(w)) => rollout[Job(w)] = RolloutAt(run[w].pc)

Told(t) ==
  /\ rollout[t] # "none" =>
       state[t] \in {"deploying", "monitoring", "unresolved", "completed", "failed"}
  /\ state[t] = "completed" /\ rollout[t] # "none" =>
       rollout[t] = "healthy" /\ t \in released
  /\ state[t] = "failed" /\ rollout[t] # "none" => rollout[t] = "restored"

\* No worker acts on this task any more, except one that only has to report it.
LeftAlone(w, t) == run[w].pc \in Acting /\ Job(w) = t => run[w].pc = "complete"

Pointed(r) ==
  pointer[r] # None =>
    /\ state[pointer[r]] \in {"monitoring", "unresolved", "completed"}
    /\ rollout[pointer[r]] = "healthy"
    /\ \A w \in Worker : LeftAlone(w, pointer[r])

RolloutInv ==
  /\ \A w \in Worker : HooksAgree(w) /\ (run[w].pc = "complete" => Job(w) \in released)
  /\ \A t \in Task : Told(t)
  /\ \A r \in Repository : Pointed(r)

\* What a worker's step does to rows, hooks and pointers.
Quiet(w) ==
  /\ UNCHANGED <<state, rollout, pointer, released>>
  /\ run'[w].pc # "idle" => RolloutAt(run'[w].pc) = RolloutAt(run[w].pc)
Marked(w) ==
  /\ run[w].pc \notin {"idle", "complete"}
  /\ Current(Lease(w)) \/ (run[w].pc \in Acting /\ state' = state)
  /\ Current(Lease(w)) => state'[Job(w)] \in StateAt(run'[w].pc)
  /\ state' = state \/ \E s : <<run[w].pc, s, run'[w].pc>> \in ReportEdge
  /\ \A t \in Task \ {Job(w)} : state'[t] = state[t]
  /\ RolloutMoves(w, run[w].pc, run'[w].pc)
  /\ UNCHANGED <<pointer, released>>
Ended(w) ==
  /\ Current(Lease(w)) /\ run'[w].pc = "idle"
  /\ \E s : /\ <<run[w].pc, s>> \in EndEdge
            /\ state' = [state EXCEPT ![Job(w)] = s]
            /\ rollout' = IF s = "failed" THEN [rollout EXCEPT ![Job(w)] = "restored"]
                          ELSE rollout
  /\ UNCHANGED <<pointer, released>>
Recorded(w) ==
  /\ Current(Lease(w)) /\ run[w].pc = "healthy" /\ state[Job(w)] = "monitoring"
  /\ run'[w].pc \in {"complete", "idle"}
  /\ pointer' = [pointer EXCEPT ![RepoOf[Job(w)]] = Job(w)]
  /\ released \subseteq released'
  /\ run'[w].pc = "complete" => Job(w) \in released'
  /\ UNCHANGED <<state, rollout>>
Dropped(w) ==
  /\ Current(Lease(w)) /\ run[w].pc # "idle" /\ run'[w].pc = "idle"
  /\ \E s \in {"queued", "failed", "unresolved"} :
       /\ state' = [state EXCEPT ![Job(w)] = s]
       /\ state[Job(w)] \in UnknownOutcome => s = "unresolved"
  /\ UNCHANGED <<rollout, pointer, released>>

\* How its place in the run changes meanwhile.
Moved(w) ==
  /\ run[w].pc # "idle" /\ run'[w].lease = run[w].lease
  /\ run[w].pc = "complete" => run'[w].pc = "complete"
  /\ run'[w].pc = "complete" => run[w].pc = "complete" \/ Recorded(w)
  /\ run'[w].pc \in Acting => run[w].pc \in Acting \/ Current(Lease(w))

\* The tables agree: where the hooks have run, the row is deploying or monitoring,
\* and a row is monitoring only while operations are in flight.
LEMMA PlaceRollouts ==
  ASSUME NEW p
  PROVE  /\ RolloutAt(p) # "none" => StateAt(p) \subseteq {"deploying", "monitoring"}
         /\ StateAt(p) \cap {"completed", "failed", "unresolved"} = {}
         /\ "monitoring" \in StateAt(p) => p \in Acting
         /\ RolloutAt("complete") = "healthy" /\ RolloutAt("healthy") = "healthy"
<1>1. RolloutAt(p) # "none" => StateAt(p) \subseteq {"deploying", "monitoring"}
  BY DEF RolloutAt, StateAt, Delivering
<1>2. StateAt(p) \cap {"completed", "failed", "unresolved"} = {}
  BY DEF StateAt
<1>3. "monitoring" \in StateAt(p) => p \in Acting
  BY DEF StateAt, Acting, Releasing
<1>4. RolloutAt("complete") = "healthy" /\ RolloutAt("healthy") = "healthy"
  BY DEF RolloutAt
<1>. QED
  BY <1>1, <1>2, <1>3, <1>4

\* Nothing leaves "complete" but the last report, and only that one can complete a
\* task whose hooks have run.
LEMMA EdgeRollouts ==
  /\ \A p, s, q : <<p, s, q>> \in ReportEdge => p # "complete" /\ q # "complete"
  /\ \A p, q : <<p, q>> \in LookEdge \cup AskEdge => p # "complete" /\ q # "complete"
  /\ \A p, q : <<p, q>> \in AskEdge => RolloutAt(p) = RolloutAt(q)
  /\ \A p, kind, q : <<p, kind, q>> \in ActEdge => p # "complete" /\ q # "complete"
  /\ \A p, s : <<p, s>> \in EndEdge =>
       /\ p # "idle" /\ s \in {"completed", "failed"}
       /\ s = "completed" /\ p # "complete" => RolloutAt(p) = "none"
       /\ p = "complete" => s = "completed"
<1>1. \A p, s, q : <<p, s, q>> \in ReportEdge => p # "complete" /\ q # "complete"
  BY DEF ReportEdge
<1>2. \A p, q : <<p, q>> \in LookEdge \cup AskEdge => p # "complete" /\ q # "complete"
  BY DEF LookEdge, AskEdge
<1>3. \A p, q : <<p, q>> \in AskEdge => RolloutAt(p) = RolloutAt(q)
  BY DEF AskEdge, RolloutAt
<1>4. \A p, kind, q : <<p, kind, q>> \in ActEdge => p # "complete" /\ q # "complete"
  BY DEF ActEdge
<1>5. \A p, s : <<p, s>> \in EndEdge =>
       /\ p # "idle" /\ s \in {"completed", "failed"}
       /\ s = "completed" /\ p # "complete" => RolloutAt(p) = "none"
       /\ p = "complete" => s = "completed"
  BY DEF EndEdge, RolloutAt
<1>. QED
  BY <1>1, <1>2, <1>3, <1>4, <1>5

\* Every step of a worker does one of these.
LEMMA OutcomeSteps ==
  ASSUME ControllerInv, NEW w \in Worker, WorkerStep(w)
  PROVE  /\ Quiet(w) \/ Marked(w) \/ Ended(w) \/ Recorded(w) \/ Dropped(w)
         /\ run'[w].pc = "idle" \/ ClaimTask(w) \/ Moved(w)
<1>0. /\ run \in [Worker -> Execution] /\ state \in [Task -> State]
      /\ run'[w] = Idle => run'[w].pc = "idle"
  BY DEF ControllerInv, ControllerTypeOK, TypeOK, Idle
<1>1. run[w].pc # "idle" =>
        /\ Job(w) \in Task /\ Lease(w).task = Job(w) /\ Tied(w)
        /\ run[w] \in [pc : Step, lease : Handle, seen : Nat, attempt : Nat, sha : Nat,
                    stop : BOOLEAN]
  BY BusyType DEF ControllerInv, RunInv
<1> DEFINE Goal == /\ Quiet(w) \/ Marked(w) \/ Ended(w) \/ Recorded(w) \/ Dropped(w)
                   /\ run'[w].pc = "idle" \/ ClaimTask(w) \/ Moved(w)
<1>2. ASSUME ClaimTask(w) PROVE Goal
  <2>1. run[w].pc = "idle" /\ run'[w].pc = "claimed"
    BY <1>0, <1>2 DEF ClaimTask, Idle
  <2>2. RolloutAt("idle") = RolloutAt("claimed")
    BY DEF RolloutAt
  <2>. QED
    BY <1>2, <2>1, <2>2 DEF ClaimTask, Claim, Quiet, releaseVars, outside
<1>3. ASSUME FetchTask(w) \/ ReleaseBase(w) \/ Merge(w) PROVE Goal
  <2>1. /\ run[w].pc # "idle" /\ run'[w].lease = run[w].lease
        /\ \/ run[w].pc = "claimed" /\ run'[w].pc = "fetched"
           \/ run[w].pc \in {"passed", "rechecking"} /\ run'[w].pc = "release"
           \/ run[w].pc = "merging" /\ run'[w].pc = "delivered"
    BY <1>0, <1>1, <1>3 DEF FetchTask, ReleaseBase, Merge
  <2>2. /\ RolloutAt("claimed") = "none" /\ RolloutAt("fetched") = "none"
        /\ RolloutAt("passed") = "none" /\ RolloutAt("rechecking") = "none"
        /\ RolloutAt("release") = "none" /\ RolloutAt("merging") = "none"
        /\ RolloutAt("delivered") = "none"
    BY DEF RolloutAt
  <2>3. /\ "fetched" \notin Acting /\ "release" \notin Acting /\ "merging" \in Acting
    BY DEF Acting, Delivering, Releasing
  <2>4. UNCHANGED <<state, rollout, pointer, released>>
    BY <1>3 DEF FetchTask, ReleaseBase, Merge, Look, vars, outside
  <2>5. Quiet(w)
    BY <2>1, <2>2, <2>4 DEF Quiet
  <2>6. Moved(w)
    BY <2>1, <2>3 DEF Moved
  <2>. QED
    BY <2>5, <2>6
<1>4. ASSUME NEW p, NEW s, NEW q, Reports(w, p, s, q) PROVE Goal
  <2>1. /\ s \in StateAt(q) /\ s \notin Terminal /\ p # "idle" /\ s \in Reported
        /\ p # "complete" /\ q # "complete"
    BY <1>4, EdgeStates, EdgeRollouts, StagesReported DEF Reports
  <2>2. run[w].pc = p /\ run'[w].pc = q /\ run'[w].lease = run[w].lease
    BY <1>0, <1>4 DEF Reports, Goes
  <2>3. /\ Current(Lease(w)) /\ state' = [state EXCEPT ![Job(w)] = s]
        /\ pointer' = pointer /\ released' = released
    BY <1>4, <2>1, <2>2, ReportRow DEF Reports
  <2>4. RolloutMoves(w, run[w].pc, run'[w].pc)
    BY <1>4, <2>2 DEF Reports
  <2>5. /\ state'[Job(w)] \in StateAt(run'[w].pc)
        /\ \A t \in Task \ {Job(w)} : state'[t] = state[t]
    BY <1>0, <1>1, <2>1, <2>2, <2>3
  <2>6. Marked(w)
    BY <1>4, <2>1, <2>2, <2>3, <2>4, <2>5 DEF Marked, Reports
  <2>7. Moved(w)
    BY <2>1, <2>2, <2>3 DEF Moved
  <2>. QED
    BY <2>6, <2>7
<1>5. ASSUME run[w].pc # "idle", run[w].pc # "complete", run'[w].pc # "complete",
             run'[w].lease = run[w].lease,
             UNCHANGED vars, StateAt(run[w].pc) \subseteq StateAt(run'[w].pc),
             RolloutMoves(w, run[w].pc, run'[w].pc),
             Current(Lease(w)) \/ run[w].pc \in Acting
      PROVE  Goal
  <2>1. UNCHANGED <<state, pointer, released>>
    BY <1>5 DEF vars
  <2>2. Current(Lease(w)) => state[Job(w)] \in StateAt(run[w].pc)
    BY <1>1, <1>5 DEF Tied
  <2>3. Marked(w)
    BY <1>5, <2>1, <2>2 DEF Marked
  <2>4. Moved(w)
    BY <1>5 DEF Moved
  <2>. QED
    BY <2>3, <2>4
<1>6. ASSUME NEW p, NEW q, Looks(w, p, q) PROVE Goal
  <2>1. run[w].pc = p /\ run'[w].pc = q /\ run'[w].lease = run[w].lease
    BY <1>0, <1>6 DEF Looks, Goes
  <2>2. Current(Lease(w))
    BY <1>6 DEF Looks, Active, Valid, Current
  <2>3. /\ p # "idle" /\ StateAt(p) \subseteq StateAt(q)
        /\ p # "complete" /\ q # "complete"
    BY <1>6, EdgeStates, EdgeRollouts DEF Looks
  <2>. QED
    BY <1>5, <1>6, <2>1, <2>2, <2>3 DEF Looks, vars
<1>7. ASSUME NEW p, NEW kind, NEW q, NEW rev, Acts(w, p, kind, q, rev) PROVE Goal
  <2>1. run[w].pc = p /\ run'[w].pc = q /\ run'[w].lease = run[w].lease
    BY <1>0, <1>7 DEF Acts, Goes
  <2>2. /\ p # "idle" /\ StateAt(p) \subseteq StateAt(q) /\ p \in Acting
        /\ p # "complete" /\ q # "complete"
    BY <1>7, EdgeStates, EdgeRollouts DEF Acts
  <2>. QED
    BY <1>5, <1>7, <2>1, <2>2 DEF Acts, vars
<1>8. ASSUME NEW p, NEW q, Asks(w, p, q) PROVE Goal
  <2>1. run[w].pc = p /\ run'[w].pc = q /\ run'[w].lease = run[w].lease
    BY <1>0, <1>8 DEF Asks, Goes
  <2>2. /\ p # "idle" /\ q \notin Acting /\ RolloutAt(p) = RolloutAt(q)
        /\ p # "complete" /\ q # "complete"
    BY <1>8, EdgeStates, EdgeRollouts DEF Asks
  <2>3. UNCHANGED <<state, rollout, pointer, released>>
    BY <1>8 DEF Asks, ReserveAiCall, taskVars, releaseVars, outside
  <2>4. Quiet(w)
    BY <2>1, <2>2, <2>3 DEF Quiet
  <2>5. Moved(w)
    BY <2>1, <2>2 DEF Moved
  <2>. QED
    BY <2>4, <2>5
<1>9. ASSUME NEW p, NEW s, Ends(w, p, s) PROVE Goal
  <2>1. /\ s \in Reported /\ p # "idle" /\ run[w].pc = p /\ run'[w].pc = "idle"
    BY <1>0, <1>9, StagesReported, EdgeRollouts DEF Ends
  <2>2. /\ Current(Lease(w)) /\ state' = [state EXCEPT ![Job(w)] = s]
        /\ pointer' = pointer /\ released' = released
    BY <1>9, <2>1, ReportRow DEF Ends
  <2>3. /\ <<run[w].pc, s>> \in EndEdge
        /\ rollout' = IF s = "failed" THEN [rollout EXCEPT ![Job(w)] = "restored"]
                      ELSE rollout
    BY <1>9, <2>1 DEF Ends
  <2>4. Ended(w)
    BY <2>1, <2>2, <2>3 DEF Ended
  <2>. QED
    BY <2>1, <2>4
<1>10. ASSUME RecordSuccess(w) PROVE Goal
  <2>1. Goes(w, "healthy", "complete", run[w].sha)
    BY <1>0, <1>10, AdvanceGoes DEF RecordSuccess, Step
  <2>2. run[w].pc = "healthy" /\ run'[w].pc = "complete" /\ run'[w].lease = run[w].lease
    BY <1>0, <2>1 DEF Goes
  <2>3. /\ Current(Lease(w)) /\ state[Job(w)] = "monitoring"
        /\ pointer' = [pointer EXCEPT ![RepoOf[Job(w)]] = Job(w)]
        /\ released' = released \cup {Job(w)} /\ UNCHANGED <<state, rollout>>
    BY <1>1, <1>10, <2>2 DEF RecordSuccess, RecordReleaseSuccess, PublishPointer, Valid,
      Current, taskVars, outside
  <2>4. Recorded(w)
    BY <2>2, <2>3 DEF Recorded
  <2>5. "healthy" \in Acting
    BY DEF Acting, Releasing
  <2>6. Moved(w)
    BY <2>2, <2>4, <2>5 DEF Moved
  <2>. QED
    BY <2>4, <2>6
<1>11. ASSUME RecordTorn(w) PROVE Goal
  <2>1. run[w].pc = "healthy" /\ run'[w].pc = "idle"
    BY <1>0, <1>11 DEF RecordTorn, Finish
  <2>2. /\ Current(Lease(w)) /\ state[Job(w)] = "monitoring"
        /\ pointer' = [pointer EXCEPT ![RepoOf[Job(w)]] = Job(w)]
        /\ released' = released /\ UNCHANGED <<state, rollout>>
    BY <1>1, <1>11, <2>1 DEF RecordTorn, RecordReleaseCrash, PublishPointer, Valid,
      Current, taskVars, outside
  <2>3. Recorded(w)
    BY <2>1, <2>2 DEF Recorded
  <2>. QED
    BY <2>1, <2>3
<1>12. ASSUME Crash(w) PROVE Goal
  BY <1>0, <1>12 DEF Crash, Look, Quiet, vars, outside
<1>13. ASSUME Heartbeat(w) \/ RequestStop(w) PROVE Goal
  <2>1. run[w].pc # "idle" /\ run'[w].pc = run[w].pc /\ run'[w].lease = run[w].lease
    BY <1>0, <1>1, <1>13 DEF Heartbeat, RequestStop, Step
  <2>2. UNCHANGED <<state, rollout, pointer, released>>
    BY <1>13 DEF Heartbeat, RequestStop, Look, Renew, releaseVars, vars, outside
  <2>3. Quiet(w)
    BY <2>1, <2>2 DEF Quiet
  <2>4. Moved(w)
    BY <2>1 DEF Moved
  <2>. QED
    BY <2>3, <2>4
<1>14. ASSUME Raise(w) PROVE Goal
  <2>1. run[w].pc # "idle" /\ run'[w].pc = "idle" /\ rollout' = rollout
    BY <1>0, <1>14 DEF Raise, Step, outside
  <2>2. CASE UNCHANGED vars
    BY <2>1, <2>2 DEF Quiet, vars
  <2>3. ASSUME NEW now, HandleException(w, now) PROVE Dropped(w)
    <3>1. CASE Release(Lease(w), now) /\ state[Job(w)] \notin UnknownOutcome
      BY <1>1, <2>1, <3>1 DEF Release, Valid, Current, Dropped, releaseVars
    <3>2. CASE Transition(Lease(w), Outcome(w), now)
      BY <1>1, <2>1, <3>2
      DEF Transition, TransitionRow, Valid, Current, Dropped, Outcome, releaseVars
    <3>. QED
      BY <2>3, <3>1, <3>2 DEF HandleException
  <2>. QED
    BY <1>14, <2>1, <2>2, <2>3 DEF Raise
<1> HIDE DEF Goal
<1>15. Goal
  BY <1>2, <1>3, <1>4, <1>6, <1>7, <1>8, <1>9, <1>10, <1>11, <1>12, <1>13, <1>14
  DEF WorkerStep
<1>. QED
  BY <1>15 DEF Goal

\* What is not done by a worker leaves runs, hooks and pointers alone, and creates
\* or revokes rows.
LEMMA EnvironmentRows ==
  ASSUME ControllerInv, Environment \/ UNCHANGED allVars
  PROVE  /\ UNCHANGED <<run, rollout, pointer, released>>
         /\ \A t \in Task : Untouched(t) \/ Created(t) \/ Revoked(t)
<1>0. TypeOK /\ StageHasLease
  BY DEF ControllerInv, ControllerTypeOK
<1>1. UNCHANGED <<run, rollout>>
  BY DEF Environment, Enqueue, Deliver, MoveHead, outside, allVars
<1>2. UNCHANGED <<pointer, released>>
  BY DEF Environment, Enqueue, Create, Deliver, Ingest, MoveHead, RecoverExpired,
    Tick, ControlStep, Pause, Resume, Cancel, Steer, Control, vars, allVars, releaseVars
<1>3. ASSUME NEW t \in Task PROVE Untouched(t) \/ Created(t) \/ Revoked(t)
  <2>1. ASSUME NEW u \in Task, Create(u) PROVE Untouched(t) \/ Created(t)
    BY <1>0, <2>1 DEF Create, TypeOK, Untouched, Created
  <2>2. Tick \/ UNCHANGED vars => Untouched(t)
    BY DEF Tick, taskVars, vars, Untouched
  <2>3. UNCHANGED allVars => UNCHANGED vars
    BY DEF allVars
  <2>. QED
    BY <1>0, <2>1, <2>2, <2>3, ControlRow, RecoverRow, IngestRow
    DEF Environment, Enqueue, Deliver, MoveHead
<1>. QED
  BY <1>1, <1>2, <1>3

\* Whoever still holds the task of a pointer has only to report it.
LEMMA HolderOfPointer ==
  ASSUME ControllerInv, RolloutInv, NEW w \in Worker, run[w].pc # "idle",
         Current(Lease(w)) \/ run[w].pc \in Acting,
         NEW r \in Repository, pointer[r] = Job(w)
  PROVE  run[w].pc = "complete"
<1>1. Job(w) \in Task /\ Job(w) # None
  BY BusyType, NoneAssumption DEF ControllerInv
<1>2. /\ state[Job(w)] \in {"monitoring", "unresolved", "completed"}
      /\ LeftAlone(w, Job(w))
  BY <1>1 DEF RolloutInv, Pointed
<1>3. Current(Lease(w)) => state[Job(w)] \in StateAt(run[w].pc)
  BY DEF ControllerInv, RunInv, Tied
<1>4. Current(Lease(w)) => run[w].pc \in Acting
  BY <1>2, <1>3, PlaceRollouts
<1>. QED
  BY <1>2, <1>4 DEF LeftAlone

\* The hooks of a task agree with its holder after a step of that holder.
LEMMA OwnHooksAgree ==
  ASSUME ControllerInv, RolloutInv, [ControllerNext]_allVars, NEW w \in Worker,
         WorkerStep(w)
  PROVE  HooksAgree(w)'
<1> SUFFICES ASSUME run'[w].pc # "idle", Current(Lease(w))'
             PROVE  rollout'[Job(w)'] = RolloutAt(run'[w].pc)
  BY DEF HooksAgree
<1>0. /\ [Next]_vars /\ rollout \in [Task -> Rollout] /\ run \in [Worker -> Execution]
      /\ TypeOK
  BY StoreStep DEF ControllerInv, ControllerTypeOK
<1>1. CASE ClaimTask(w)
  <2>1. PICK t \in Task, now \in ReadSince(0) :
          /\ Claim(t, w, now)
          /\ run'[w].pc = "claimed" /\ run'[w].lease.task = t
    BY <1>0, <1>1 DEF ClaimTask, Idle
  <2>2. rollout[t] = "none"
    BY <2>1 DEF Claim, Claimable, RolloutInv, Told
  <2>3. RolloutAt("claimed") = "none"
    BY DEF RolloutAt
  <2>. QED
    BY <1>1, <2>1, <2>2, <2>3 DEF ClaimTask, outside, Job
<1>2. CASE Moved(w)
  <2>1. Current(Lease(w)) /\ Job(w)' = Job(w) /\ Job(w) \in Task
    BY <1>0, <1>2, WasCurrent, BusyType DEF Moved, Job, ControllerInv
  <2>2. rollout[Job(w)] = RolloutAt(run[w].pc)
    BY <1>2, <2>1 DEF Moved, RolloutInv, HooksAgree
  <2>3. CASE Quiet(w)
    BY <2>1, <2>2, <2>3 DEF Quiet
  <2>4. CASE Marked(w)
    BY <1>0, <2>1, <2>2, <2>4 DEF Marked, RolloutMoves
  <2>5. CASE Recorded(w)
    BY <2>1, <2>2, <2>5, PlaceRollouts DEF Recorded
  <2>. QED
    BY <2>3, <2>4, <2>5, OutcomeSteps DEF Ended, Dropped
<1>. QED
  BY <1>1, <1>2, OutcomeSteps

\* They keep agreeing with the holder when another worker takes a step.
LEMMA OtherHooksAgree ==
  ASSUME ControllerInv, RolloutInv, [ControllerNext]_allVars, NEW w \in Worker,
         WorkerStep(w), NEW v \in Worker, v # w
  PROVE  HooksAgree(v)'
<1>0. /\ [Next]_vars /\ rollout \in [Task -> Rollout] /\ run \in [Worker -> Execution]
      /\ TypeOK /\ StageHasLease
  BY StoreStep DEF ControllerInv, ControllerTypeOK
<1>1. run'[v] = run[v]
  BY <1>0, RunStep DEF ControllerInv
<1> SUFFICES ASSUME run[v].pc # "idle", Current(Lease(v))'
             PROVE  rollout'[Job(v)] = RolloutAt(run[v].pc)
  BY <1>1 DEF HooksAgree, Job
<1>2. Current(Lease(v)) /\ Job(v) \in Task /\ Lease(v).task = Job(v)
      /\ Lease(v).worker = v /\ v # None
  BY <1>0, <1>1, WasCurrent, BusyType, NoneAssumption
  DEF ControllerInv, RunInv, Tied
<1>3. rollout[Job(v)] = RolloutAt(run[v].pc)
  BY <1>2 DEF RolloutInv, HooksAgree
<1>4. state[Job(v)] # "unresolved"
  <2>1. lease[Job(v)] # NoLease
    BY <1>2 DEF Current, NoLease
  <2>. QED
    BY <1>0, <1>2, <2>1 DEF StageHasLease, Terminal
<1>5. ASSUME run[w].pc # "idle", Current(Lease(w)) PROVE Job(w) # Job(v)
  BY <1>2, <1>5, OneHolder
<1>6. ASSUME run[w].pc # "idle", run[w].pc \in Acting PROVE Job(w) # Job(v)
  BY <1>2, <1>4, <1>5, <1>6 DEF ControllerInv, RunInv, Tied
<1>7. "idle" \notin Acting
  BY DEF Acting, Delivering, Releasing
<1>8. CASE Quiet(w) \/ Recorded(w) \/ Dropped(w)
  BY <1>3, <1>8 DEF Quiet, Recorded, Dropped
<1>9. CASE Marked(w)
  <2>1. run[w].pc # "idle"
    BY <1>9 DEF Marked
  <2>2. Job(w) # Job(v)
    BY <1>5, <1>6, <1>9, <2>1 DEF Marked
  <2>. QED
    BY <1>0, <1>2, <1>3, <1>9, <2>2 DEF Marked, RolloutMoves
<1>10. CASE Ended(w)
  <2>1. run[w].pc # "idle"
    BY <1>10, EdgeRollouts DEF Ended
  <2>2. Job(w) # Job(v)
    BY <1>5, <1>10, <2>1 DEF Ended
  <2>. QED
    BY <1>0, <1>2, <1>3, <1>10, <2>2 DEF Ended
<1>. QED
  BY <1>8, <1>9, <1>10, OutcomeSteps

\* A worker's step keeps every row true to its hooks.
LEMMA ToldByWorker ==
  ASSUME ControllerInv, RolloutInv, [ControllerNext]_allVars, NEW w \in Worker,
         WorkerStep(w), NEW t \in Task
  PROVE  Told(t)'
<1>0. /\ rollout \in [Task -> Rollout] /\ state \in [Task -> State]
      /\ Told(t) /\ HooksAgree(w) /\ HooksAgree(w)'
      /\ run[w].pc = "complete" => Job(w) \in released
  BY OwnHooksAgree DEF ControllerInv, ControllerTypeOK, TypeOK, RolloutInv
<1>1. CASE Quiet(w)
  BY <1>0, <1>1 DEF Quiet, Told
<1>2. CASE Recorded(w)
  BY <1>0, <1>2 DEF Recorded, Told
<1>3. CASE Dropped(w)
  <2>1. PICK s \in {"queued", "failed", "unresolved"} :
          /\ state' = [state EXCEPT ![Job(w)] = s]
          /\ state[Job(w)] \in UnknownOutcome => s = "unresolved"
    BY <1>3 DEF Dropped
  <2>2. UNCHANGED <<rollout, released>>
    BY <1>3 DEF Dropped
  <2>3. CASE t # Job(w)
    BY <1>0, <2>1, <2>2, <2>3 DEF Told
  <2>4. CASE t = Job(w)
    <3>1. state[t] \notin Terminal
      <4>1. Lease(w).task = Job(w) /\ Lease(w).worker = w /\ w # None
        BY <1>3, BusyType, NoneAssumption DEF Dropped, ControllerInv, RunInv, Tied
      <4>2. lease[t] # NoLease
        BY <1>3, <2>4, <4>1 DEF Dropped, Current, NoLease
      <4>. QED
        BY <4>2 DEF ControllerInv, StageHasLease
    <3>2. rollout[t] # "none" => s = "unresolved"
      BY <1>0, <2>1, <2>4, <3>1 DEF Told, UnknownOutcome, Terminal
    <3>. QED
      BY <1>0, <2>1, <2>2, <2>4, <3>2 DEF Told
  <2>. QED
    BY <2>3, <2>4
<1>4. CASE Ended(w)
  <2>1. PICK s : /\ <<run[w].pc, s>> \in EndEdge
                 /\ state' = [state EXCEPT ![Job(w)] = s]
                 /\ rollout' = IF s = "failed"
                               THEN [rollout EXCEPT ![Job(w)] = "restored"] ELSE rollout
    BY <1>4 DEF Ended
  <2>2. /\ run[w].pc # "idle" /\ s \in {"completed", "failed"}
        /\ s = "completed" /\ run[w].pc # "complete" => RolloutAt(run[w].pc) = "none"
    BY <2>1, EdgeRollouts
  <2>3. rollout[Job(w)] = RolloutAt(run[w].pc) /\ released' = released
    BY <1>0, <1>4, <2>2 DEF Ended, HooksAgree
  <2>4. CASE t # Job(w)
    BY <1>0, <2>1, <2>3, <2>4 DEF Told
  <2>5. CASE t = Job(w) /\ s = "completed"
    <3>1. state'[t] = "completed" /\ rollout'[t] = RolloutAt(run[w].pc)
      BY <1>0, <2>1, <2>3, <2>5
    <3>. QED
      BY <1>0, <2>2, <2>3, <2>5, <3>1, PlaceRollouts DEF Told
  <2>6. CASE t = Job(w) /\ s = "failed"
    <3>1. state'[t] = "failed" /\ rollout'[t] = "restored"
      BY <1>0, <2>1, <2>6
    <3>. QED
      BY <3>1 DEF Told
  <2>. QED
    BY <2>2, <2>4, <2>5, <2>6
<1>5. CASE Marked(w)
  <2>1. released' = released /\ RolloutMoves(w, run[w].pc, run'[w].pc)
    BY <1>5 DEF Marked
  <2>2. CASE t # Job(w)
    <3>1. rollout'[t] = rollout[t] /\ state'[t] = state[t]
      BY <1>0, <1>5, <2>1, <2>2 DEF Marked, RolloutMoves
    <3>. QED
      BY <1>0, <2>1, <3>1 DEF Told
  <2>3. CASE t = Job(w) /\ Current(Lease(w))
    <3>1. rollout[t] = RolloutAt(run[w].pc)
      BY <1>0, <1>5, <2>3 DEF Marked, HooksAgree
    <3>2. rollout'[t] = RolloutAt(run'[w].pc)
      BY <1>0, <2>1, <2>3, <3>1 DEF RolloutMoves
    <3>3. state'[t] \in StateAt(run'[w].pc)
      BY <1>5, <2>3 DEF Marked
    <3>. QED
      BY <3>2, <3>3, PlaceRollouts DEF Told
  <2>4. CASE t = Job(w) /\ ~Current(Lease(w))
    <3>1. state[t] = "unresolved" /\ state' = state
      BY <1>5, <2>4 DEF Marked, ControllerInv, RunInv, Tied
    <3>. QED
      BY <3>1 DEF Told
  <2>. QED
    BY <2>2, <2>3, <2>4
<1>. QED
  BY <1>1, <1>2, <1>3, <1>4, <1>5, OutcomeSteps

\* A worker's step keeps every pointer at a healthy release.
LEMMA PointedByWorker ==
  ASSUME ControllerInv, RolloutInv, [ControllerNext]_allVars, NEW w \in Worker,
         WorkerStep(w), NEW r \in Repository
  PROVE  Pointed(r)'
<1>0. /\ rollout \in [Task -> Rollout] /\ state \in [Task -> State]
      /\ pointer \in [Repository -> Task \cup {None}] /\ run \in [Worker -> Execution]
      /\ Pointed(r) /\ HooksAgree(w)
  BY DEF ControllerInv, ControllerTypeOK, TypeOK, RolloutInv
<1>1. ASSUME NEW v \in Worker, v # w PROVE run'[v] = run[v]
  BY <1>0, <1>1, RunStep DEF ControllerInv
<1>2. "idle" \notin Acting /\ "claimed" \notin Acting
  BY DEF Acting, Delivering, Releasing
<1>3. ASSUME run'[w].pc \in Acting PROVE Moved(w)
  <2>1. ~ClaimTask(w)
    BY <1>0, <1>2, <1>3 DEF ClaimTask, Idle
  <2>. QED
    BY <1>2, <1>3, <2>1, OutcomeSteps
<1>4. ASSUME Recorded(w), pointer'[r] = Job(w) PROVE Pointed(r)'
  <2>1. run[w].pc # "idle" /\ "healthy" # "idle"
    BY <1>4 DEF Recorded
  <2>2. rollout'[Job(w)] = "healthy" /\ state'[Job(w)] = "monitoring"
    BY <1>0, <1>4, <2>1, PlaceRollouts DEF Recorded, HooksAgree
  <2>3. PICK t \in Task : t = Job(w)
    BY <2>1, BusyType DEF ControllerInv
  <2>4. ASSUME NEW v \in Worker PROVE LeftAlone(v, t)'
    <3>1. CASE v = w
      BY <1>2, <1>4, <3>1 DEF Recorded, LeftAlone
    <3>2. CASE v # w
      <4> SUFFICES ASSUME run[v].pc \in Acting, Job(v) = t PROVE FALSE
        BY <1>1, <3>2 DEF LeftAlone, Job
      <4>1. Current(Lease(v))
        BY <1>2, <1>4, <2>3 DEF Recorded, ControllerInv, RunInv, Tied
      <4>. QED
        BY <1>2, <1>4, <2>1, <2>3, <3>2, <4>1, OneHolder DEF Recorded
    <3>. QED
      BY <3>1, <3>2
  <2>. QED
    BY <1>4, <2>2, <2>3, <2>4 DEF Pointed
<1>5. ASSUME pointer'[r] = pointer[r], pointer[r] # None PROVE Pointed(r)'
  <2> DEFINE t == pointer[r]
  <2>1. t \in Task /\ state[t] \in {"monitoring", "unresolved", "completed"}
        /\ rollout[t] = "healthy" /\ \A v \in Worker : LeftAlone(v, t)
    BY <1>0, <1>5 DEF Pointed
  <2>2. ASSUME run[w].pc # "idle", Current(Lease(w)) \/ run[w].pc \in Acting,
               Job(w) = t
        PROVE  run[w].pc = "complete"
    BY <2>2, HolderOfPointer
  <2>3. /\ state'[t] \in {"monitoring", "unresolved", "completed"}
        /\ rollout'[t] = "healthy"
    <3>1. CASE Quiet(w) \/ Recorded(w)
      BY <2>1, <3>1 DEF Quiet, Recorded
    <3>2. CASE Marked(w)
      <4>1. Job(w) # t
        BY <2>2, <3>2 DEF Marked
      <4>. QED
        BY <1>0, <2>1, <3>2, <4>1 DEF Marked, RolloutMoves
    <3>3. CASE Ended(w)
      <4>1. PICK s : /\ <<run[w].pc, s>> \in EndEdge
                     /\ state' = [state EXCEPT ![Job(w)] = s]
                     /\ rollout' = IF s = "failed"
                                   THEN [rollout EXCEPT ![Job(w)] = "restored"]
                                   ELSE rollout
        BY <3>3 DEF Ended
      <4>2. run[w].pc # "idle" /\ (run[w].pc = "complete" => s = "completed")
        BY <4>1, EdgeRollouts
      <4>3. Job(w) = t => s = "completed"
        BY <2>2, <3>3, <4>2 DEF Ended
      <4>. QED
        BY <1>0, <2>1, <4>1, <4>3
    <3>4. CASE Dropped(w)
      <4>1. PICK s : /\ state' = [state EXCEPT ![Job(w)] = s]
                     /\ state[Job(w)] \in UnknownOutcome => s = "unresolved"
        BY <3>4 DEF Dropped
      <4>2. Job(w) = t => state[t] \in UnknownOutcome
        <5> SUFFICES ASSUME Job(w) = t PROVE state[t] \in UnknownOutcome
          OBVIOUS
        <5>1. run[w].pc = "complete" /\ Current(Lease(w))
          BY <2>2, <3>4 DEF Dropped
        <5>2. state[t] \in StateAt("complete")
          BY <3>4, <5>1 DEF Dropped, ControllerInv, RunInv, Tied
        <5>. QED
          BY <5>2 DEF StateAt, UnknownOutcome, Delivering
      <4>. QED
        BY <1>0, <2>1, <3>4, <4>1, <4>2 DEF Dropped
    <3>. QED
      BY <3>1, <3>2, <3>3, <3>4, OutcomeSteps
  <2>4. ASSUME NEW v \in Worker PROVE LeftAlone(v, t)'
    <3>1. CASE v # w
      BY <1>1, <1>5, <2>1, <3>1 DEF LeftAlone, Job
    <3>2. CASE v = w
      <4> SUFFICES ASSUME run'[w].pc \in Acting, Job(w)' = t'
                   PROVE  run'[w].pc = "complete"
        BY <3>2 DEF LeftAlone
      <4>1. Moved(w)
        BY <1>3
      <4>2. Job(w) = t
        BY <1>5, <4>1 DEF Moved, Job
      <4>. QED
        BY <2>2, <4>1, <4>2 DEF Moved
    <3>. QED
      BY <3>1, <3>2
  <2>. QED
    BY <1>5, <2>3, <2>4 DEF Pointed
<1>6. pointer'[r] = pointer[r] \/ (Recorded(w) /\ pointer'[r] = Job(w))
  BY <1>0, OutcomeSteps DEF Quiet, Marked, Ended, Recorded, Dropped
<1>. QED
  BY <1>4, <1>5, <1>6 DEF Pointed

\* Every step keeps outcomes, hooks and pointers in agreement.
LEMMA RolloutStep ==
  ASSUME ControllerInv, RolloutInv, [ControllerNext]_allVars
  PROVE  RolloutInv'
<1>0. run \in [Worker -> Execution] /\ [Next]_vars
  BY StoreStep DEF ControllerInv, ControllerTypeOK
<1>1. ASSUME NEW w \in Worker, WorkerStep(w) PROVE RolloutInv'
  <2>1. \A v \in Worker : HooksAgree(v)'
    BY <1>1, OwnHooksAgree, OtherHooksAgree
  <2>2. released \subseteq released'
    BY <1>1, OutcomeSteps DEF Quiet, Marked, Ended, Recorded, Dropped
  <2>3. ASSUME NEW v \in Worker, run'[v].pc = "complete" PROVE Job(v)' \in released'
    <3>1. CASE v # w
      <4>1. run'[v] = run[v]
        BY <1>0, <1>1, <3>1, RunStep DEF ControllerInv
      <4>. QED
        BY <2>2, <2>3, <4>1 DEF RolloutInv, Job
    <3>2. CASE v = w
      <4>1. ~ClaimTask(w)
        BY <1>0, <2>3, <3>2 DEF ClaimTask, Idle
      <4>2. Moved(w)
        BY <1>1, <2>3, <3>2, <4>1, OutcomeSteps
      <4>. QED
        BY <2>2, <2>3, <3>2, <4>2 DEF Moved, Recorded, RolloutInv, Job
    <3>. QED
      BY <3>1, <3>2
  <2>. QED
    BY <1>1, <2>1, <2>3, ToldByWorker, PointedByWorker DEF RolloutInv
<1>2. ASSUME Environment \/ UNCHANGED allVars PROVE RolloutInv'
  <2>1. /\ UNCHANGED <<run, rollout, pointer, released>>
        /\ \A t \in Task : Untouched(t) \/ Created(t) \/ Revoked(t)
    BY <1>2, EnvironmentRows
  <2>2. ASSUME NEW v \in Worker PROVE HooksAgree(v)'
    <3>1. run[v].pc # "idle" /\ Current(Lease(v))' => Current(Lease(v))
      BY <1>0, <2>1, WasCurrent
    <3>. QED
      BY <2>1, <3>1 DEF RolloutInv, HooksAgree, Job
  <2>3. ASSUME NEW t \in Task PROVE Told(t)'
    <3>1. Told(t)
      BY DEF RolloutInv
    <3>. QED
      BY <2>1, <3>1 DEF Told, Untouched, Created, Revoked, UnknownOutcome, Terminal
  <2>4. ASSUME NEW r \in Repository PROVE Pointed(r)'
    <3>1. Pointed(r) /\ pointer[r] \in Task \cup {None}
      BY DEF RolloutInv, ControllerInv, ControllerTypeOK, TypeOK
    <3>2. ASSUME NEW v \in Worker, NEW t, LeftAlone(v, t) PROVE LeftAlone(v, t)'
      BY <2>1, <3>2 DEF LeftAlone, Job
    <3>3. pointer[r] # None =>
            state'[pointer[r]] \in {"monitoring", "unresolved", "completed"}
      BY <2>1, <3>1
      DEF Pointed, Untouched, Created, Revoked, UnknownOutcome, Terminal
    <3>. QED
      BY <2>1, <3>1, <3>2, <3>3 DEF Pointed
  <2>5. \A v \in Worker : run'[v].pc = "complete" => Job(v)' \in released'
    BY <2>1 DEF RolloutInv, Job
  <2>. QED
    BY <2>2, <2>3, <2>4, <2>5 DEF RolloutInv
<1>. QED
  BY <1>1, <1>2, StepKinds DEF ControllerInv

\* What a task reports is what its release hooks left behind, and a success pointer
\* names a healthy release, wherever a worker is interrupted.
THEOREM OutcomesMatchRollouts == ControllerSpec => []OutcomeMatchesRollout
<1>1. ControllerInit => RolloutInv
  BY NoneAssumption
  DEF ControllerInit, Init, RolloutInv, HooksAgree, Told, Pointed, Idle
<1>2. RolloutInv => OutcomeMatchesRollout
  BY DEF RolloutInv, Told, Pointed, OutcomeMatchesRollout
<1>. QED
  BY <1>1, <1>2, RolloutStep, ControllerInvAlways, PTL DEF ControllerSpec

-----------------------------------------------------------------------------
\* Release hooks.  A task whose repository waits for checks after the merge can break
\* the next two promises, and a run shows how; no other task is ever at "checking".
Waits(t) == policy[RepoOf[t]].hooks /\ policy[RepoOf[t]].checks
NoChecksAfterMerge == \A p \in Fleet : ~(p.hooks /\ p.checks)

HooksInv ==
  /\ policy \in [Repository -> Fleet]
  /\ \A t \in Task : state[t] # "absent" => MaySubmit(RepoOf[t], request[t].mode)
  /\ \A w \in Worker :
       /\ run[w].pc = "rechecking" => Mode(w) = "watched"
       /\ run[w].pc = "release" => Repo(w).hooks
       /\ run[w].pc = "checking" => Waits(Job(w))

\* How a worker gets to a place that depends on the hooks.
LEMMA HookPlaces ==
  ASSUME ControllerInv, NEW w \in Worker, WorkerStep(w),
         run'[w].pc \in {"rechecking", "release", "checking"}
  PROVE  /\ run[w].pc # "idle" /\ run'[w].lease = run[w].lease
         /\ \/ run'[w].pc = run[w].pc
            \/ run'[w].pc = "rechecking" /\ Mode(w) = "watched"
            \/ run'[w].pc = "release" /\ (Repo(w).hooks \/ ReleaseBase(w))
            \/ run'[w].pc = "checking" /\ run[w].pc = "release" /\ Repo(w).checks
<1>0. run \in [Worker -> Execution] /\ (run'[w] = Idle => FALSE)
  BY DEF ControllerInv, ControllerTypeOK, Idle
<1>1. run[w].pc # "idle" =>
        run[w] \in [pc : Step, lease : Handle, seen : Nat, attempt : Nat, sha : Nat,
                    stop : BOOLEAN]
  BY BusyType DEF ControllerInv
<1> DEFINE Goal ==
      /\ run[w].pc # "idle" /\ run'[w].lease = run[w].lease
      /\ \/ run'[w].pc = run[w].pc
         \/ run'[w].pc = "rechecking" /\ Mode(w) = "watched"
         \/ run'[w].pc = "release" /\ (Repo(w).hooks \/ ReleaseBase(w))
         \/ run'[w].pc = "checking" /\ run[w].pc = "release" /\ Repo(w).checks
<1>2. ~ClaimTask(w)
  BY <1>0 DEF ClaimTask, Idle
<1>3. ~FetchTask(w) /\ ~Merge(w)
  BY <1>0, <1>1 DEF FetchTask, Merge
<1>4. ReleaseBase(w) => Goal
  BY <1>0, <1>1 DEF ReleaseBase
<1>5. ASSUME NEW p, NEW s, NEW q, Reports(w, p, s, q) PROVE Goal
  <2>1. run[w].pc = p /\ run'[w].pc = q /\ run'[w].lease = run[w].lease
    BY <1>0, <1>5 DEF Reports, Goes
  <2>2. p # "idle" /\ q # "release" /\ (q = "checking" => p = "release")
    BY <1>5 DEF Reports, ReportEdge
  <2>. QED
    BY <1>5, <2>1, <2>2 DEF Reports
<1>6. ASSUME NEW p, NEW q, Looks(w, p, q) PROVE Goal
  <2>1. run[w].pc = p /\ run'[w].pc = q /\ run'[w].lease = run[w].lease
    BY <1>0, <1>6 DEF Looks, Goes
  <2>2. p # "idle" /\ q \notin {"rechecking", "checking"}
    BY <1>6 DEF Looks, LookEdge
  <2>. QED
    BY <1>6, <2>1, <2>2 DEF Looks
<1>7. ASSUME NEW p, NEW q, Asks(w, p, q) PROVE FALSE
  <2>1. run'[w].pc = q
    BY <1>0, <1>7 DEF Asks, Goes
  <2>. QED
    BY <1>7, <2>1 DEF Asks, AskEdge
<1>8. ASSUME NEW p, NEW kind, NEW q, NEW rev, Acts(w, p, kind, q, rev) PROVE FALSE
  <2>1. run'[w].pc = q
    BY <1>0, <1>8 DEF Acts, Goes
  <2>. QED
    BY <1>8, <2>1 DEF Acts, ActEdge
<1>9. ~(RecordTorn(w) \/ Raise(w) \/ Crash(w) \/ (\E p, s : Ends(w, p, s)))
  BY <1>0 DEF RecordTorn, Finish, Raise, Crash, Ends
<1>10. ~RecordSuccess(w)
  <2>1. RecordSuccess(w) => Goes(w, "healthy", "complete", run[w].sha)
    BY <1>0, AdvanceGoes DEF RecordSuccess, Step
  <2>. QED
    BY <1>0, <2>1 DEF Goes
<1>11. Heartbeat(w) => Goal
  BY DEF Heartbeat, Step
<1>12. RequestStop(w) => Goal
  BY <1>0, <1>1 DEF RequestStop
<1> HIDE DEF Goal
<1>13. Goal
  BY <1>2, <1>3, <1>4, <1>5, <1>6, <1>7, <1>8, <1>9, <1>10, <1>11, <1>12
  DEF WorkerStep
<1>. QED
  BY <1>13 DEF Goal

\* Policies are pinned.
LEMMA PolicyFixed ==
  ASSUME ControllerInv, [ControllerNext]_allVars
  PROVE  policy' = policy /\ \A t : Waits(t)' = Waits(t)
<1>1. policy' = policy
  <2>1. ASSUME NEW w \in Worker, WorkerStep(w) PROVE policy' = policy
    BY <2>1 DEF WorkerStep, Reports, Looks, Asks, Acts, Ends, outside, Merge, Raise,
       Crash, Heartbeat, RequestStop, RecordTorn, RecordSuccess, ClaimTask,
       FetchTask, ReleaseBase, Look
  <2>2. Environment \/ UNCHANGED allVars => policy' = policy
    BY DEF Environment, Enqueue, Deliver, MoveHead, outside, allVars
  <2>. QED
    BY <2>1, <2>2, StepKinds DEF ControllerInv
<1>. QED
  BY <1>1 DEF Waits

\* A new task has a request that its repository's policy allows.
LEMMA SubmittedStep ==
  ASSUME ControllerInv, HooksInv, [ControllerNext]_allVars, NEW t \in Task,
         state'[t] # "absent"
  PROVE  MaySubmit(RepoOf[t], request[t].mode)' /\ policy' = policy
<1>0. policy' = policy
  BY PolicyFixed
<1>1. CASE state[t] # "absent"
  BY <1>0, <1>1, RequestsFixed DEF HooksInv, MaySubmit
<1>2. CASE state[t] = "absent"
  <2>0. state \in [Task -> State] /\ TypeOK /\ StageHasLease
        /\ request \in [Task -> [mode : Modes, base : Nat]]
    BY DEF ControllerInv, ControllerTypeOK, TypeOK
  <2>1. ASSUME NEW w \in Worker, WorkerStep(w) PROVE FALSE
    <3>1. RowStep(t) /\ ~Held(t) /\ ~Revoked(t) /\ ~Granted(t) /\ ~Untouched(t)
      BY <1>2, <2>0, StoreStep, RowSteps
      DEF ControllerInv, Held, Revoked, Granted, Untouched, Stage, UnknownOutcome
    <3>2. Created(t)
      BY <3>1 DEF RowStep
    <3>3. ~(run[w].pc # "idle" /\ HolderStep(Lease(w)))
      <4> SUFFICES ASSUME run[w].pc # "idle", HolderStep(Lease(w)) PROVE FALSE
        OBVIOUS
      <4>1. Lease(w) \in issued
        BY DEF ControllerInv, RunInv, Tied
      <4>. QED
        BY <1>2, <2>0, <3>1, <4>1, HolderRow
    <3>4. ~ClaimTask(w)
      BY <1>2 DEF ClaimTask, Claim
    <3>. QED
      BY <1>2, <2>1, <3>3, <3>4, WorkerHolds DEF vars
  <2>2. ASSUME NEW u \in Task, NEW m \in Submitted, Enqueue(u, m)
        PROVE  MaySubmit(RepoOf[t], request[t].mode)'
    <3>1. u = t
      BY <1>2, <2>0, <2>2 DEF Enqueue, Create
    <3>2. request'[t].mode = m
      BY <2>0, <2>2, <3>1 DEF Enqueue, Requested
    <3>. QED
      BY <1>0, <2>2, <3>1, <3>2 DEF Enqueue, MaySubmit
  <2>3. ASSUME NEW g \in Group, NEW R \in Replacements, NEW m \in Submitted,
               Deliver(g, R, m)
        PROVE  MaySubmit(RepoOf[t], request[t].mode)'
    <3>1. t \in R
      BY <1>2, <2>0, <2>3 DEF Deliver, Ingest, Fenced, Superseded
    <3>2. request'[t].mode = m
      BY <2>3, <3>1 DEF Deliver, Requested
    <3>. QED
      BY <1>0, <2>3, <3>1, <3>2 DEF Deliver, MaySubmit
  <2>4. ASSUME NEW u \in Task, ControlStep(u) PROVE FALSE
    BY <1>2, <2>0, <2>4, ControlRow DEF Untouched, Revoked
  <2>5. ASSUME NEW now, RecoverExpired(now) PROVE FALSE
    BY <1>2, <2>0, <2>5, RecoverRow DEF Untouched, Revoked
  <2>6. ~Tick /\ ~(\E r \in Repository : MoveHead(r)) /\ ~UNCHANGED allVars
    BY <1>2 DEF Tick, taskVars, MoveHead, vars, allVars
  <2>7. Environment \/ UNCHANGED allVars => MaySubmit(RepoOf[t], request[t].mode)'
    BY <2>2, <2>3, <2>4, <2>5, <2>6 DEF Environment
  <2>. QED
    BY <1>0, <2>1, <2>7, StepKinds DEF ControllerInv
<1>. QED
  BY <1>0, <1>1, <1>2

\* Every step keeps runs of the other repositories away from "checking".
LEMMA HooksStep ==
  ASSUME ControllerInv, HooksInv, [ControllerNext]_allVars
  PROVE  HooksInv'
<1>0. run \in [Worker -> Execution]
  BY DEF ControllerInv, ControllerTypeOK
<1>1. \A t \in Task : state'[t] # "absent" => MaySubmit(RepoOf[t], request[t].mode)'
  BY SubmittedStep
<1>2. policy' = policy
  BY PolicyFixed
<1>3. ASSUME NEW v \in Worker, run[v].pc # "idle", run'[v].lease = run[v].lease
      PROVE  Mode(v)' = Mode(v) /\ Repo(v)' = Repo(v) /\ Waits(Job(v))' = Waits(Job(v))
  <2>1. Job(v)' = Job(v) /\ Job(v) \in Task /\ state[Job(v)] # "absent"
    BY <1>3, BusyType DEF Job, ControllerInv, RunInv, Tied
  <2>. QED
    BY <1>2, <2>1, RequestsFixed DEF Mode, Repo, Waits
<1> DEFINE Placed(v) == /\ run[v].pc = "rechecking" => Mode(v) = "watched"
                        /\ run[v].pc = "release" => Repo(v).hooks
                        /\ run[v].pc = "checking" => Waits(Job(v))
<1>4. ASSUME NEW v \in Worker, run'[v] = run[v] PROVE Placed(v)'
  <2>1. run[v].pc # "idle" =>
          Mode(v)' = Mode(v) /\ Repo(v)' = Repo(v) /\ Waits(Job(v))' = Waits(Job(v))
    BY <1>3, <1>4
  <2>. QED
    BY <1>4, <2>1 DEF HooksInv
<1>5. ASSUME NEW v \in Worker, WorkerStep(v) PROVE Placed(v)'
  <2> SUFFICES ASSUME run'[v].pc \in {"rechecking", "release", "checking"}
               PROVE  Placed(v)'
    OBVIOUS
  <2>1. /\ run[v].pc # "idle" /\ run'[v].lease = run[v].lease
        /\ \/ run'[v].pc = run[v].pc
           \/ run'[v].pc = "rechecking" /\ Mode(v) = "watched"
           \/ run'[v].pc = "release" /\ (Repo(v).hooks \/ ReleaseBase(v))
           \/ run'[v].pc = "checking" /\ run[v].pc = "release" /\ Repo(v).checks
    BY <1>5, HookPlaces
  <2>2. Mode(v)' = Mode(v) /\ Repo(v)' = Repo(v) /\ Waits(Job(v))' = Waits(Job(v))
    BY <1>3, <2>1
  <2>3. Job(v) \in Task /\ state[Job(v)] # "absent" /\ RepoOf[Job(v)] \in Repository
    BY <2>1, BusyType, RepositoryAssumption DEF ControllerInv, RunInv, Tied
  <2>4. Repo(v).hooks /\ Repo(v).checks => Waits(Job(v))
    BY DEF Waits, Repo
  <2>5. ReleaseBase(v) => Repo(v).hooks
    <3>1. ReleaseBase(v) => Mode(v) \in {"release", "watched"}
      BY DEF ReleaseBase, HooksInv
    <3>. QED
      BY <2>3, <3>1 DEF HooksInv, MaySubmit, Mode, Repo
  <2>. QED
    BY <2>1, <2>2, <2>4, <2>5 DEF HooksInv
<1>6. ASSUME NEW v \in Worker PROVE Placed(v)'
  <2>1. ASSUME NEW w \in Worker, WorkerStep(w), w # v PROVE run'[v] = run[v]
    BY <1>0, <2>1, RunStep DEF ControllerInv
  <2>2. Environment \/ UNCHANGED allVars => run' = run
    BY DEF Environment, Enqueue, Deliver, MoveHead, outside, allVars
  <2>. QED
    BY <1>4, <1>5, <2>1, <2>2, StepKinds DEF ControllerInv
<1>. QED
  BY <1>1, <1>2, <1>6 DEF HooksInv

-----------------------------------------------------------------------------
\* Engaged workers: whoever holds its task or is still operating on it.  A task has
\* one at a time, and what has been done outside was done under that one's lease, at
\* least for a task that waits for no checks after its merge.
Engaged(w) == run[w].pc # "idle" /\ (Current(Lease(w)) \/ run[w].pc \in Acting)

OneActor ==
  \A v, w \in Worker : Engaged(v) /\ Engaged(w) /\ Job(v) = Job(w) => v = w

OwnEffects(w) ==
  \A e \in effects :
    Engaged(w) /\ e.task = Job(w) /\ ~Waits(e.task) => e.epoch = Lease(w).epoch

Visible(t) ==
  \/ state[t] \in UnknownOutcome \cup {"completed", "unresolved"}
  \/ state[t] = "failed" /\ rollout[t] = "restored"

EffectsInv ==
  /\ OneActor
  /\ \A w \in Worker : OwnEffects(w)
  /\ \A e, f \in effects : e.task = f.task /\ ~Waits(e.task) => e.epoch = f.epoch
  /\ \A e \in effects : Waits(e.task) \/ Visible(e.task)

\* A worker becomes engaged only by a claim.
LEMMA EngagedStep ==
  ASSUME ControllerInv, [ControllerNext]_allVars, NEW v \in Worker, Engaged(v)'
  PROVE  ClaimTask(v) \/ (run'[v].lease = run[v].lease /\ Engaged(v))
<1>0. run \in [Worker -> Execution] /\ [Next]_vars
  BY StoreStep DEF ControllerInv, ControllerTypeOK
<1>1. ASSUME run'[v] = run[v] PROVE Engaged(v)
  BY <1>0, <1>1, WasCurrent DEF Engaged
<1>2. ASSUME WorkerStep(v) PROVE ClaimTask(v) \/ (run'[v].lease = run[v].lease /\ Engaged(v))
  <2>1. ClaimTask(v) \/ Moved(v)
    BY <1>2, OutcomeSteps DEF Engaged
  <2>. QED
    BY <1>0, <2>1, WasCurrent DEF Moved, Engaged
<1>3. ASSUME NEW w \in Worker, WorkerStep(w), w # v PROVE run'[v] = run[v]
  BY <1>0, <1>3, RunStep DEF ControllerInv
<1>4. Environment \/ UNCHANGED allVars => run' = run
  BY DEF Environment, Enqueue, Deliver, MoveHead, outside, allVars
<1>. QED
  BY <1>1, <1>2, <1>3, <1>4, StepKinds DEF ControllerInv

\* A task that can be claimed has no engaged worker once it is claimed, and nothing
\* has been done for it, unless it waits for checks after its merge.
LEMMA ClaimedAfresh ==
  ASSUME ControllerInv, EffectsInv, [ControllerNext]_allVars, NEW v \in Worker,
         ClaimTask(v)
  PROVE  /\ \A w \in Worker \ {v} : Engaged(w)' => Job(w)' # Job(v)'
         /\ \A e \in effects : Waits(e.task) \/ e.task # Job(v)'
<1>0. run \in [Worker -> Execution] /\ TypeOK
  BY DEF ControllerInv, ControllerTypeOK
<1>1. PICK t \in Task, now \in ReadSince(0) :
        /\ Claim(t, v, now)
        /\ run'[v].lease.task = t
  BY <1>0 DEF ClaimTask, Idle
<1>2. state[t] = "queued" /\ lease'[t].worker = v
  BY <1>0, <1>1 DEF Claim, Claimable, TypeOK
<1>3. ASSUME NEW w \in Worker, w # v, Engaged(w)', Job(w)' = t PROVE FALSE
  <2>1. run'[w] = run[w]
    BY <1>0, <1>3, RunStep DEF ControllerInv, WorkerStep
  <2>2. run[w].pc # "idle" /\ Job(w) = t
    BY <1>3, <2>1 DEF Engaged, Job
  <2>3. Lease(w).worker = w /\ Lease(w).task = t
    BY <2>2, BusyType DEF ControllerInv, RunInv, Tied
  <2>4. ~Current(Lease(w))'
    BY <1>2, <1>3, <2>1, <2>3 DEF Current, Lease
  <2>5. run[w].pc \in Acting
    BY <1>3, <2>1, <2>4 DEF Engaged
  <2>6. Current(Lease(w)) /\ state[t] \in StateAt(run[w].pc)
    BY <1>2, <2>2, <2>5 DEF ControllerInv, RunInv, Tied
  <2>. QED
    BY <1>2, <2>5, <2>6 DEF StateAt, Acting, Delivering, Releasing
<1>4. \A e \in effects : Waits(e.task) \/ e.task # t
  BY <1>2 DEF EffectsInv, Visible, UnknownOutcome
<1>. QED
  BY <1>1, <1>3, <1>4 DEF Job

\* From a stage with external effects a report leads to another one.
LEMMA EffectEdges ==
  \A p, s, q : <<p, s, q>> \in ReportEdge /\ q # "checking"
    /\ StateAt(p) \cap UnknownOutcome # {} => StateAt(q) \subseteq UnknownOutcome
BY DEF ReportEdge, StateAt, UnknownOutcome, Delivering

\* Whoever performs an operation leaves its row in a stage that shows it.
LEMMA ActingIsVisible ==
  ASSUME ControllerInv, NEW w \in Worker, run[w].pc \in Acting
  PROVE  state[Job(w)] \in UnknownOutcome \cup {"unresolved"}
<1>1. run[w].pc # "idle"
  BY DEF Acting, Delivering, Releasing
<1>2. StateAt(run[w].pc) \subseteq UnknownOutcome
  BY DEF StateAt, Acting, Delivering, Releasing, UnknownOutcome
<1>. QED
  BY <1>1, <1>2 DEF ControllerInv, RunInv, Tied

\* Where no checks follow the merge, a row that shows an effect keeps showing it.
LEMMA VisibleStep ==
  ASSUME ControllerInv, HooksInv, HooksInv', [ControllerNext]_allVars, NEW t \in Task,
         Visible(t), ~Waits(t)
  PROVE  Visible(t)'
<1>0. /\ rollout \in [Task -> Rollout] /\ state \in [Task -> State] /\ StageHasLease
  BY DEF ControllerInv, ControllerTypeOK, TypeOK
<1>1. ASSUME NEW w \in Worker, run[w].pc # "idle", Current(Lease(w)), Job(w) = t
      PROVE  state[t] \in UnknownOutcome /\ state[t] \in StateAt(run[w].pc)
  <2>1. Lease(w).task = t /\ Lease(w).worker = w /\ w # None
        /\ state[t] \in StateAt(run[w].pc)
    BY <1>1, BusyType, NoneAssumption DEF ControllerInv, RunInv, Tied
  <2>2. lease[t] # NoLease
    BY <1>1, <2>1 DEF Current, NoLease
  <2>. QED
    BY <1>0, <2>1, <2>2 DEF StageHasLease, Visible, Terminal
<1>2. ASSUME NEW w \in Worker, WorkerStep(w) PROVE Visible(t)'
  <2>1. CASE Quiet(w) \/ Recorded(w)
    BY <2>1 DEF Quiet, Recorded, Visible
  <2>2. CASE Marked(w)
    <3>1. CASE t # Job(w)
      BY <1>0, <2>2, <3>1 DEF Marked, RolloutMoves, Visible
    <3>2. CASE t = Job(w) /\ Current(Lease(w))
      <4>1. state[t] \in UnknownOutcome /\ state[t] \in StateAt(run[w].pc)
        BY <1>1, <2>2, <3>2 DEF Marked
      <4>2. state'[t] \in StateAt(run'[w].pc)
        BY <2>2, <3>2 DEF Marked
      <4>3. ASSUME run'[w].pc = "checking" PROVE FALSE
        <5>1. Job(w)' = t
          BY <1>2, <3>2, <4>3, HookPlaces DEF Job
        <5>2. Waits(Job(w))' = Waits(t)
          BY <5>1, PolicyFixed DEF Waits
        <5>. QED
          BY <4>3, <5>2 DEF HooksInv
      <4>4. state'[t] \in UnknownOutcome
        BY <2>2, <4>1, <4>2, <4>3, EffectEdges DEF Marked
      <4>. QED
        BY <4>4 DEF Visible
    <3>3. CASE t = Job(w) /\ ~Current(Lease(w))
      <4>1. state'[t] = "unresolved"
        BY <2>2, <3>3 DEF Marked, ControllerInv, RunInv, Tied
      <4>. QED
        BY <4>1 DEF Visible
    <3>. QED
      BY <3>1, <3>2, <3>3
  <2>3. CASE Ended(w)
    <3>1. PICK s : /\ <<run[w].pc, s>> \in EndEdge
                   /\ state' = [state EXCEPT ![Job(w)] = s]
                   /\ rollout' = IF s = "failed"
                                 THEN [rollout EXCEPT ![Job(w)] = "restored"] ELSE rollout
      BY <2>3 DEF Ended
    <3>2. s \in {"completed", "failed"}
      BY <3>1, EdgeRollouts
    <3>. QED
      BY <1>0, <3>1, <3>2 DEF Visible
  <2>4. CASE Dropped(w)
    <3>1. PICK s : /\ state' = [state EXCEPT ![Job(w)] = s]
                   /\ state[Job(w)] \in UnknownOutcome => s = "unresolved"
      BY <2>4 DEF Dropped
    <3>2. Job(w) = t => state[t] \in UnknownOutcome
      BY <1>1, <2>4 DEF Dropped
    <3>. QED
      BY <1>0, <2>4, <3>1, <3>2 DEF Dropped, Visible
  <2>. QED
    BY <1>2, <2>1, <2>2, <2>3, <2>4, OutcomeSteps
<1>3. ASSUME Environment \/ UNCHANGED allVars PROVE Visible(t)'
  <2>1. rollout' = rollout /\ (Untouched(t) \/ Created(t) \/ Revoked(t))
    BY <1>3, EnvironmentRows
  <2>. QED
    BY <2>1 DEF Visible, Untouched, Created, Revoked, UnknownOutcome, Terminal
<1>. QED
  BY <1>2, <1>3, StepKinds DEF ControllerInv

\* Every step keeps effects visible and under one lease.
LEMMA EffectsInvStep ==
  ASSUME ControllerInv, HooksInv, HooksInv', EffectsInv, [ControllerNext]_allVars
  PROVE  EffectsInv'
<1>0. /\ effects \subseteq Effect /\ run \in [Worker -> Execution]
      /\ "idle" \notin Acting /\ Cleared \subseteq Acting
  BY DEF ControllerInv, ControllerTypeOK, Acting, Delivering, Releasing, Cleared
<1>1. OneActor'
  <2> SUFFICES ASSUME NEW v \in Worker, NEW w \in Worker, v # w, Engaged(v)',
                      Engaged(w)', Job(v)' = Job(w)'
               PROVE  FALSE
    BY DEF OneActor
  <2>1. ~ClaimTask(v) /\ ~ClaimTask(w)
    BY ClaimedAfresh
  <2>2. /\ Engaged(v) /\ run'[v].lease = run[v].lease
        /\ Engaged(w) /\ run'[w].lease = run[w].lease
    BY <2>1, EngagedStep
  <2>. QED
    BY <2>2 DEF EffectsInv, OneActor, Job
<1>2. ASSUME NEW v \in Worker, NEW e \in effects, Engaged(v)', e.task = Job(v)',
             ~Waits(e.task)
      PROVE  e.epoch = Lease(v)'.epoch
  <2>1. ~ClaimTask(v)
    BY <1>2, ClaimedAfresh
  <2>2. Engaged(v) /\ run'[v].lease = run[v].lease
    BY <1>2, <2>1, EngagedStep
  <2>. QED
    BY <1>2, <2>2 DEF EffectsInv, OwnEffects, Job, Lease
<1>3. \A e \in effects : Waits(e.task) \/ Visible(e.task)'
  BY <1>0, VisibleStep DEF EffectsInv, Effect
<1>4. CASE effects' = effects
  BY <1>1, <1>2, <1>3, <1>4, PolicyFixed DEF EffectsInv, OwnEffects
<1>5. ASSUME NEW w \in Worker, NEW n, WorkerStep(w), NewEffect(w, n)
      PROVE  EffectsInv'
  <2>1. /\ Engaged(w) /\ n.task = Job(w) /\ n.epoch = Lease(w).epoch
        /\ effects' = effects \cup {n} /\ run'[w].lease = run[w].lease
        /\ run[w].pc \in Acting
    BY <1>0, <1>5 DEF NewEffect, Engaged
  <2>2. \A e \in effects : e.task = n.task /\ ~Waits(e.task) => e.epoch = n.epoch
    BY <2>1 DEF EffectsInv, OwnEffects
  <2>3. ASSUME NEW v \in Worker, Engaged(v)', n.task = Job(v)'
        PROVE  n.epoch = Lease(v)'.epoch
    <3>1. CASE v = w
      BY <2>1, <3>1 DEF Lease
    <3>2. CASE v # w
      <4>1. run'[v] = run[v]
        BY <1>0, <1>5, <3>2, RunStep DEF ControllerInv
      <4>2. lease' = lease /\ epoch' = epoch
        BY <1>5 DEF NewEffect, vars
      <4>3. Engaged(v) /\ Job(v) = Job(w)
        BY <2>1, <2>3, <4>1, <4>2 DEF Engaged, Current, Lease, Job
      <4>. QED
        BY <2>1, <3>2, <4>3 DEF EffectsInv, OneActor
    <3>. QED
      BY <3>1, <3>2
  <2>4. Visible(n.task)'
    <3>1. state[Job(w)] \in UnknownOutcome \cup {"unresolved"}
      BY <2>1, ActingIsVisible
    <3>2. state' = state
      BY <1>5 DEF NewEffect, vars
    <3>3. state'[n.task] \in UnknownOutcome \cup {"unresolved"}
      BY <2>1, <3>1, <3>2
    <3>. QED
      BY <3>3 DEF Visible
  <2>5. \A v \in Worker : OwnEffects(v)'
    BY <1>2, <2>1, <2>3, PolicyFixed DEF OwnEffects
  <2>6. \A e, f \in effects' : e.task = f.task /\ ~Waits(e.task) => e.epoch = f.epoch
    BY <2>1, <2>2 DEF EffectsInv
  <2>7. \A e \in effects' : Waits(e.task) \/ Visible(e.task)'
    BY <1>3, <2>1, <2>4
  <2>. QED
    BY <1>1, <2>5, <2>6, <2>7, PolicyFixed DEF EffectsInv
<1>. QED
  BY <1>4, <1>5, EffectSteps

\* The strengthened invariants about hooks and effects hold in every state.
LEMMA EffectsAlways == ControllerSpec => [](ControllerInv /\ HooksInv /\ EffectsInv)
<1>1. ControllerInit => HooksInv /\ EffectsInv
  BY DEF ControllerInit, Init, HooksInv, EffectsInv, OneActor, Engaged, OwnEffects, Idle
<1>2. ControllerInv /\ HooksInv /\ EffectsInv /\ [ControllerNext]_allVars
        => HooksInv' /\ EffectsInv'
  BY HooksStep, EffectsInvStep
<1>. QED
  BY <1>1, <1>2, ControllerInvAlways, PTL DEF ControllerSpec

\* Whatever has been done outside for a task whose repository does not wait for
\* checks after the merge stays visible in the task's outcome, and is done once.
TasksKeepTheirEffects ==
  \A e \in effects :
    ~Waits(e.task) =>
      /\ Visible(e.task)
      /\ \A f \in effects : e.task = f.task /\ e.kind = f.kind => e.epoch = f.epoch

\* That holds beside repositories that do wait for such checks.
THEOREM EffectsAreKept == ControllerSpec => []TasksKeepTheirEffects
<1>1. EffectsInv => TasksKeepTheirEffects
  BY DEF EffectsInv, TasksKeepTheirEffects
<1>. QED
  BY <1>1, EffectsAlways, PTL

\* Where no repository waits for checks after the merge, no task does.
LEMMA NobodyWaits ==
  ASSUME NoChecksAfterMerge, ControllerInv, HooksInv, NEW e \in effects
  PROVE  ~Waits(e.task)
<1>1. RepoOf[e.task] \in Repository
  BY RepositoryAssumption DEF ControllerInv, ControllerTypeOK, Effect
<1>. QED
  BY <1>1 DEF HooksInv, NoChecksAfterMerge, Waits

\* Where no repository waits for checks after the merge, whatever has been done
\* outside stays visible in the task's outcome.
THEOREM EffectsStayVisible ==
  NoChecksAfterMerge => (ControllerSpec => []EffectStaysVisible)
<1> SUFFICES ASSUME NoChecksAfterMerge PROVE ControllerSpec => []EffectStaysVisible
  OBVIOUS
<1>1. ControllerInv /\ HooksInv /\ EffectsInv => EffectStaysVisible
  BY NobodyWaits DEF EffectsInv, Visible, EffectStaysVisible
<1>. QED
  BY <1>1, EffectsAlways, PTL

\* There no external operation of a task is repeated under a later lease.
THEOREM EffectsHappenOnce ==
  NoChecksAfterMerge => (ControllerSpec => []EffectOnce)
<1> SUFFICES ASSUME NoChecksAfterMerge PROVE ControllerSpec => []EffectOnce
  OBVIOUS
<1>1. ControllerInv /\ HooksInv /\ EffectsInv => EffectOnce
  BY NobodyWaits DEF EffectsInv, EffectOnce
<1>. QED
  BY <1>1, EffectsAlways, PTL

=============================================================================
