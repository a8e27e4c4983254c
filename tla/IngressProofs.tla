--------------------------- MODULE IngressProofs ---------------------------
(***************************************************************************)
(* Theorems about EventIngress for every set of groups, threads, delivery  *)
(* IDs and requests, every number of changes, and every number of attempts *)
(* (from two on where a refusal is concerned).                             *)
(*                                                                         *)
(* A delivery is answered from a reading that may be old.  What makes the  *)
(* answer right is a comparison between a thread and everything that was   *)
(* stored since it read the version of its group; the invariant below says *)
(* what those later versions, and the readings of the threads that may     *)
(* still store one, have in common.                                        *)
(***************************************************************************)
EXTENDS EventIngress, TaskStoreProofs

Busy(h)    == work[h] # Ready
Version(h) == work[h].version
Newest(g)  == Len(provider[g])

\* The threads that have read the provider and may still store what they saw.
Holding(h) == work[h].pc \in {"confirm", "store"}

\* Nothing but a change that has happened is announced, read or stored.
Announced ==
  /\ \A g \in Group : Newest(g) >= 1
  /\ \A d \in Delivery :
       receipt[d] # NoReceipt => receipt[d].body.change <= Newest(receipt[d].body.group)
  /\ \A b \in refused : b.change <= Newest(b.group)
  /\ \A h \in Thread : Busy(h) => BodyOf(h).change <= Newest(GroupAt(h))
  /\ \A g \in Group : \A i \in 1..Len(accepted[g]) : accepted[g][i].change <= Newest(g)

\* A thread reads the version of its group first and the provider second, so what
\* it saw is no older than its own announcement or than any version it counted.
InOrder(h) ==
  Busy(h) =>
    /\ Version(h) <= Len(accepted[GroupAt(h)])
    /\ work[h].pc = "replay" => work[h].attempt = 0
    /\ work[h].pc \in {"replay", "version"} => work[h].attempt < MaxAttempts
    /\ Holding(h) =>
         /\ BodyOf(h).change <= work[h].seen
         /\ work[h].seen <= Newest(GroupAt(h))
         /\ \A i \in 1..Version(h) : accepted[GroupAt(h)][i].change <= work[h].seen

\* A thread that handles the delivery of the last change of its group.
OnLastChange(h) ==
  /\ Busy(h)
  /\ BodyOf(h).change = Newest(GroupAt(h))
  /\ KindAt(h) \in {"pull_request", "push"}

\* How many versions after the one it counted may show an earlier change: one, by
\* a thread that read the provider before this delivery came in, and none once an
\* attempt has been lost to such a version.
Lag(h) == IF work[h].attempt >= 2 /\ ~work[h].moved THEN 0 ELSE 1

\* From a version on, a group shows its last change: whoever stored one after it
\* had seen that change, and so has whoever may still store one.
NewestFrom(g, n) ==
  /\ \A k \in Thread :
       Busy(k) /\ Holding(k) /\ GroupAt(k) = g /\ Version(k) >= n
         => work[k].seen = Newest(g)
  /\ \A i \in 1..Len(accepted[g]) : i > n => accepted[g][i].change = Newest(g)

\* The last change can lose a race only to those who have seen it.
RacedByNewest(h) ==
  OnLastChange(h) /\ work[h].attempt >= 1
    => NewestFrom(GroupAt(h), Version(h) + Lag(h))

\* A conflict means that the version was overtaken, and for the last change there
\* is no other way to lose an attempt than a conflict or the base branch.
LostToVersion(h) ==
  Busy(h) =>
    /\ work[h].pc = "conflict" => Version(h) < Len(accepted[GroupAt(h)])
    /\ /\ OnLastChange(h) /\ work[h].pc = "version"
       /\ work[h].attempt >= 1 /\ ~work[h].moved
       => Version(h) < Len(accepted[GroupAt(h)])

LastBody(g) == [group |-> g, change |-> Newest(g)]
Answered(g) ==
  /\ kind[g] \in {"pull_request", "push"}
  /\ Replayed(LastBody(g)) # {} \/ LastBody(g) \in refused

\* An answered group is at its last change.
AnsweredAtNewest ==
  \A g \in Group :
    Answered(g) =>
      /\ accepted[g] # << >>
      /\ accepted[g][Len(accepted[g])].change = Newest(g)

Reading ==
  /\ IngressTypeOK
  /\ Announced
  /\ \A h \in Thread : InOrder(h)

Racing ==
  /\ \A h \in Thread : RacedByNewest(h)
  /\ \A h \in Thread : LostToVersion(h)

-----------------------------------------------------------------------------
\* The kinds of steps.  A thread answers without storing a version, goes on with
\* its delivery, loses an attempt, or stores one.
Answers(h) ==
  /\ Busy(h) /\ Answer(h)
  /\ UNCHANGED <<vars, kind, provider, accepted, refused>>
  /\ \/ UNCHANGED receipt
     \/ \E d \in Replayed(BodyOf(h)) :
          receipt' = [receipt EXCEPT ![work[h].id] = receipt[d]]
     \/ /\ New(h) /\ KindAt(h) = "other"
        /\ receipt' = [receipt EXCEPT ![work[h].id] = [body |-> BodyOf(h), task |-> None]]

Continues(h) ==
  /\ Look
  /\ \/ work[h].pc = "replay" /\ Become(h, "version")
     \/ work[h].pc = "confirm" /\ Become(h, "store")
     \/ work[h].pc = "store" /\ ~VersionStands(h) /\ Become(h, "conflict")

Loses(h, moved) ==
  /\ Retry(h, moved)
  /\ \/ moved = TRUE /\ work[h].pc = "confirm"
     \/ moved = work[h].moved /\ work[h].pc = "conflict"
     \/ /\ moved = work[h].moved /\ work[h].pc = "read"
        /\ Latest(GroupAt(h)).sha # Pushed(h)
     \/ /\ moved = work[h].moved /\ work[h].pc = "confirm"
        /\ Seen(h).sha # Latest(GroupAt(h)).sha

Stores(h, R, t) ==
  /\ work[h].pc = "store" /\ New(h) /\ VersionStands(h)
  /\ Accept(h, R, t)
  /\ (t \in Task /\ R = {t}) \/ (t = None /\ R = {})

\* Every step is one of these.
LEMMA IngressSteps ==
  ASSUME [IngressNext]_<<vars, ingressVars>>
  PROVE  \/ \E h \in Thread :
              \/ \E m \in Sent : Receive(h, m)
              \/ Answers(h) \/ Continues(h) \/ ReadVersion(h) \/ ReadProvider(h)
              \/ \E moved : Loses(h, moved)
              \/ \E R, t : Stores(h, R, t)
         \/ \E g \in Group, s \in Shown : Change(g, s)
         \/ \E t \in Task : Park(t)
         \/ UNCHANGED <<vars, ingressVars>>
<1> DEFINE Some(h) ==
             \/ \E m \in Sent : Receive(h, m)
             \/ Answers(h) \/ Continues(h) \/ ReadVersion(h) \/ ReadProvider(h)
             \/ \E moved : Loses(h, moved)
             \/ \E R, t : Stores(h, R, t)
<1>1. ASSUME NEW h \in Thread, Busy(h), Settle(h) PROVE Answers(h)
  BY <1>1 DEF Settle, Alias, Look, Answers
<1>2. ASSUME NEW h \in Thread, Replay(h) PROVE Some(h)
  <2>1. Busy(h)
    BY <1>2 DEF Replay, Busy, Ready
  <2>2. CASE Settle(h)
    BY <1>1, <2>1, <2>2
  <2>3. CASE Become(h, "version") /\ Look
    BY <1>2, <2>3 DEF Replay, Continues
  <2>. QED
    BY <1>2, <2>2, <2>3 DEF Replay
<1>3. ASSUME NEW h \in Thread, StoreIgnored(h) PROVE Some(h)
  <2>1. Busy(h)
    BY <1>3 DEF StoreIgnored, Busy, Ready
  <2>2. CASE Settle(h)
    BY <1>1, <2>1, <2>2
  <2>3. CASE ~Settle(h)
    BY <1>3, <2>1, <2>3 DEF StoreIgnored, Answers
  <2>. QED
    BY <2>2, <2>3
<1>4. ASSUME NEW h \in Thread, PushedOver(h) PROVE Some(h)
  BY <1>4 DEF PushedOver, Loses
<1>5. ASSUME NEW h \in Thread, ConfirmRef(h) PROVE Some(h)
  BY <1>5 DEF ConfirmRef, Loses, Continues
<1>6. ASSUME NEW h \in Thread, BaseMoved(h) PROVE Some(h)
  BY <1>6 DEF BaseMoved, Loses
<1>7. ASSUME NEW h \in Thread, StoreEvent(h) PROVE Some(h)
  <2>1. Busy(h)
    BY <1>7 DEF StoreEvent, Busy, Ready
  <2>2. CASE Settle(h)
    BY <1>1, <2>1, <2>2
  <2>3. CASE ~VersionStands(h) /\ Become(h, "conflict") /\ Look
    BY <1>7, <2>3 DEF StoreEvent, Continues
  <2>4. ASSUME New(h), VersionStands(h), NEW t \in Task, Accept(h, {t}, t)
        PROVE  Some(h)
    BY <1>7, <2>4 DEF StoreEvent, Stores
  <2>5. ASSUME New(h), VersionStands(h), Accept(h, {}, None) PROVE Some(h)
    BY <1>7, <2>5 DEF StoreEvent, Stores
  <2>. QED
    BY <1>7, <2>2, <2>3, <2>4, <2>5 DEF StoreEvent
<1>8. ASSUME NEW h \in Thread, Reconcile(h) PROVE Some(h)
  <2>1. Busy(h)
    BY <1>8 DEF Reconcile, Busy, Ready
  <2>2. CASE Known(h)
    BY <1>8, <2>1, <2>2 DEF Reconcile, Answers, Look
  <2>3. CASE ~Known(h)
    BY <1>8, <2>3 DEF Reconcile, Loses
  <2>. QED
    BY <2>2, <2>3
<1>9. ASSUME NEW h \in Thread, Abort(h) PROVE Some(h)
  BY <1>9 DEF Abort, Answers, Look, Busy
<1> HIDE DEF Some
<1>10. ASSUME NEW h \in Thread,
              \/ \E m \in Sent : Receive(h, m)
              \/ ReadVersion(h) \/ ReadProvider(h)
       PROVE  Some(h)
  BY <1>10 DEF Some
<1>11. \/ \E h \in Thread : Some(h)
       \/ \E g \in Group, s \in Shown : Change(g, s)
       \/ \E t \in Task : Park(t)
       \/ UNCHANGED <<vars, ingressVars>>
  BY <1>2, <1>3, <1>4, <1>5, <1>6, <1>7, <1>8, <1>9, <1>10 DEF IngressNext
<1>. QED
  BY <1>11 DEF Some

-----------------------------------------------------------------------------
\* A thread that is not ready has a delivery in hand.
LEMMA BusyType ==
  ASSUME IngressTypeOK, NEW h \in Thread, Busy(h)
  PROVE  /\ work[h] \in Handling
         /\ work[h].pc \in Pc /\ work[h].id \in Delivery
         /\ BodyOf(h) \in Body /\ GroupAt(h) \in Group /\ BodyOf(h).change \in Nat \ {0}
         /\ work[h].attempt \in 0..MaxAttempts
         /\ Version(h) \in Nat /\ work[h].seen \in Nat /\ work[h].moved \in BOOLEAN
<1>1. work[h] \in Handling
  BY DEF IngressTypeOK, Busy
<1>2. BodyOf(h) \in Body
  BY <1>1 DEF Handling, BodyOf
<1>3. BodyOf(h).group \in Group /\ BodyOf(h).change \in Nat \ {0}
  BY <1>2 DEF Body
<1>. QED
  BY <1>1, <1>2, <1>3 DEF Handling, GroupAt, BodyOf, Version

\* A place in a delivery is a place of a busy thread.
LEMMA PlaceIsBusy ==
  ASSUME NEW h \in Thread, work[h].pc # "ready"
  PROVE  Busy(h)
BY DEF Busy, Ready

\* Only a delivery that is handled is at one of the places.
LEMMA StepIsBusy ==
  ASSUME NEW h \in Thread, NEW moved, NEW R, NEW t,
         \/ Answers(h) \/ Continues(h) \/ ReadVersion(h) \/ ReadProvider(h)
         \/ Loses(h, moved) \/ Stores(h, R, t)
  PROVE  Busy(h)
BY PlaceIsBusy DEF Answers, Continues, ReadVersion, ReadProvider, Loses, Stores

\* The tables a step leaves alone.
LEMMA StepKeeps ==
  ASSUME NEW h \in Thread, NEW moved, NEW m,
         \/ Receive(h, m) \/ Answers(h) \/ Continues(h) \/ ReadVersion(h)
         \/ ReadProvider(h) \/ Loses(h, moved)
  PROVE  UNCHANGED <<vars, kind, provider, accepted>>
BY DEF Receive, Answers, Continues, ReadVersion, ReadProvider, Loses, Retry, Look

\* Lengths are numbers.
LEMMA Lengths ==
  ASSUME IngressTypeOK, NEW g \in Group
  PROVE  /\ Newest(g) \in Nat /\ Len(accepted[g]) \in Nat
         /\ accepted[g] \in Seq(Acceptance) /\ provider[g] \in Seq(Shown)
         /\ \A i \in 1..Len(accepted[g]) :
              accepted[g][i] \in Acceptance /\ accepted[g][i].change \in Nat
<1>1. provider[g] \in Seq(Shown) /\ accepted[g] \in Seq(Acceptance)
  BY DEF IngressTypeOK
<1>2. \A i \in 1..Len(accepted[g]) : accepted[g][i] \in Acceptance
  BY <1>1
<1>. QED
  BY <1>1, <1>2 DEF Newest, Acceptance

\* What storing a version writes.
LEMMA StoresEffect ==
  ASSUME Reading, NEW h \in Thread, NEW R, NEW t, Stores(h, R, t)
  PROVE  /\ R \in Replacements /\ Ingest(GroupAt(h), R)
         /\ Version(h) = Len(accepted[GroupAt(h)])
         /\ [change |-> work[h].seen, task |-> t] \in Acceptance
         /\ accepted' = [accepted EXCEPT ![GroupAt(h)] =
              Append(accepted[GroupAt(h)], [change |-> work[h].seen, task |-> t])]
         /\ accepted'[GroupAt(h)] =
              Append(accepted[GroupAt(h)], [change |-> work[h].seen, task |-> t])
         /\ \A g \in Group : g # GroupAt(h) => accepted'[g] = accepted[g]
         /\ receipt' = [receipt EXCEPT ![work[h].id] = [body |-> BodyOf(h), task |-> t]]
         /\ work' = [work EXCEPT ![h] = Ready]
         /\ UNCHANGED <<kind, provider, refused>>
         /\ work[h].seen \in 1..Newest(GroupAt(h))
<1>1. Busy(h) /\ Holding(h)
  BY StepIsBusy DEF Stores, Holding
<1>2. work[h].seen \in 1..Newest(GroupAt(h))
  BY <1>1, BusyType, Lengths DEF Reading, InOrder
<1>3. R \in Replacements /\ t \in Task \cup {None}
  BY DEF Stores, Replacements
<1>4. accepted \in [Group -> Seq(Acceptance)] /\ GroupAt(h) \in Group
  BY <1>1, BusyType DEF Reading, IngressTypeOK
<1>. QED
  BY <1>2, <1>3, <1>4 DEF Stores, Accept, VersionStands, Version, Acceptance, Answer

\* What a thread has in hand after its own step.
LEMMA OwnWork ==
  ASSUME IngressTypeOK, NEW h \in Thread, Busy(h)
  PROVE  /\ Answer(h) => work'[h] = Ready
         /\ \A pc \in Pc : Become(h, pc) => work'[h] = [work[h] EXCEPT !.pc = pc]
         /\ ReadVersion(h) =>
              work'[h] = [work[h] EXCEPT !.pc = "read", !.attempt = work[h].attempt + 1,
                                         !.version = Len(accepted[GroupAt(h)])]
         /\ ReadProvider(h) =>
              work'[h] = [work[h] EXCEPT
                !.seen = Newest(GroupAt(h)),
                !.pc = IF KindAt(h) = "pull_request" /\ Latest(GroupAt(h)).open
                       THEN "confirm" ELSE "store"]
         /\ \A moved : Retry(h, moved) =>
              IF MayRetry(h)
              THEN work'[h] = [work[h] EXCEPT !.pc = "version", !.moved = moved]
              ELSE work'[h] = Ready
BY DEF Answer, Become, ReadVersion, ReadProvider, Retry, IngressTypeOK, Newest

\* A thread that goes on keeps its delivery, and its fields change one at a time.
Same(h, fields) == \A f \in fields : work'[h][f] = work[h][f]

LEMMA OwnFields ==
  ASSUME Reading, NEW h \in Thread
  PROVE  /\ Continues(h) =>
              /\ work'[h] \in Handling
              /\ Same(h, {"id", "body", "attempt", "version", "seen", "moved"})
              /\ \/ work[h].pc = "replay" /\ work'[h].pc = "version"
                 \/ work[h].pc = "confirm" /\ work'[h].pc = "store"
                 \/ work[h].pc = "store" /\ work'[h].pc = "conflict"
         /\ ReadVersion(h) =>
              /\ work'[h] \in Handling
              /\ Same(h, {"id", "body", "seen", "moved"})
              /\ work'[h].pc = "read" /\ work'[h].attempt = work[h].attempt + 1
              /\ work'[h].version = Len(accepted[GroupAt(h)])
         /\ ReadProvider(h) =>
              /\ work'[h] \in Handling
              /\ Same(h, {"id", "body", "attempt", "version", "moved"})
              /\ work'[h].pc \in {"confirm", "store"}
              /\ work'[h].seen = Newest(GroupAt(h))
         /\ \A moved : Loses(h, moved) /\ MayRetry(h) =>
              /\ work'[h] \in Handling
              /\ Same(h, {"id", "body", "attempt", "version", "seen"})
              /\ work'[h].pc = "version" /\ work'[h].moved = moved
<1> USE DEF Same, Pc
<1>0. ASSUME Busy(h)
      PROVE  /\ work[h] \in Handling /\ GroupAt(h) \in Group
             /\ Newest(GroupAt(h)) \in Nat /\ Len(accepted[GroupAt(h)]) \in Nat
  BY <1>0, BusyType, Lengths DEF Reading
<1>1. ASSUME Continues(h)
      PROVE  /\ work'[h] \in Handling
             /\ Same(h, {"id", "body", "attempt", "version", "seen", "moved"})
             /\ \/ work[h].pc = "replay" /\ work'[h].pc = "version"
                \/ work[h].pc = "confirm" /\ work'[h].pc = "store"
                \/ work[h].pc = "store" /\ work'[h].pc = "conflict"
  <2>1. Busy(h)
    BY <1>1, StepIsBusy
  <2>2. PICK pc \in Pc : /\ Become(h, pc)
                         /\ \/ work[h].pc = "replay" /\ pc = "version"
                            \/ work[h].pc = "confirm" /\ pc = "store"
                            \/ work[h].pc = "store" /\ pc = "conflict"
    BY <1>1 DEF Continues
  <2>3. work'[h] = [work[h] EXCEPT !.pc = pc]
    BY <2>1, <2>2, OwnWork DEF Reading
  <2>. QED
    BY <1>0, <2>1, <2>2, <2>3 DEF Handling
<1>2. ASSUME ReadVersion(h)
      PROVE  /\ work'[h] \in Handling
             /\ Same(h, {"id", "body", "seen", "moved"})
             /\ work'[h].pc = "read" /\ work'[h].attempt = work[h].attempt + 1
             /\ work'[h].version = Len(accepted[GroupAt(h)])
  <2>1. Busy(h) /\ work[h].pc = "version" /\ work[h].attempt < MaxAttempts
    BY <1>2, StepIsBusy DEF ReadVersion, Reading, InOrder
  <2>2. work'[h] = [work[h] EXCEPT !.pc = "read", !.attempt = work[h].attempt + 1,
                                   !.version = Len(accepted[GroupAt(h)])]
    BY <1>2, <2>1, OwnWork DEF Reading
  <2>3. work[h].attempt + 1 \in 0..MaxAttempts
    BY <1>0, <2>1, IngressAssumption DEF Handling
  <2>. QED
    BY <1>0, <2>1, <2>2, <2>3 DEF Handling
<1>3. ASSUME ReadProvider(h)
      PROVE  /\ work'[h] \in Handling
             /\ Same(h, {"id", "body", "attempt", "version", "moved"})
             /\ work'[h].pc \in {"confirm", "store"}
             /\ work'[h].seen = Newest(GroupAt(h))
  <2>1. Busy(h)
    BY <1>3, StepIsBusy
  <2>2. PICK pc \in {"confirm", "store"} :
          work'[h] = [work[h] EXCEPT !.seen = Newest(GroupAt(h)), !.pc = pc]
    BY <1>3, <2>1, OwnWork DEF Reading
  <2>. QED
    BY <1>0, <2>1, <2>2 DEF Handling
<1>4. ASSUME NEW moved, Loses(h, moved), MayRetry(h)
      PROVE  /\ work'[h] \in Handling
             /\ Same(h, {"id", "body", "attempt", "version", "seen"})
             /\ work'[h].pc = "version" /\ work'[h].moved = moved
  <2>1. Busy(h)
    BY <1>4, StepIsBusy
  <2>2. work'[h] = [work[h] EXCEPT !.pc = "version", !.moved = moved]
    BY <1>4, <2>1, OwnWork DEF Reading, Loses
  <2>3. moved \in BOOLEAN
    BY <1>0, <1>4, <2>1 DEF Loses, Handling
  <2>. QED
    BY <1>0, <2>1, <2>2, <2>3 DEF Handling
<1>. QED
  BY <1>1, <1>2, <1>3, <1>4

\* A thread that answers, or that has used up its attempts, is ready again.
LEMMA OwnEnd ==
  ASSUME Reading, NEW h \in Thread, NEW moved, NEW R, NEW t,
         \/ Answers(h) \/ (Loses(h, moved) /\ ~MayRetry(h)) \/ Stores(h, R, t)
  PROVE  work'[h] = Ready
<1>1. CASE Answers(h)
  BY <1>1, OwnWork DEF Reading, Answers
<1>2. CASE Loses(h, moved) /\ ~MayRetry(h)
  <2>1. Busy(h)
    BY <1>2, StepIsBusy
  <2>. QED
    BY <1>2, <2>1, OwnWork DEF Reading, Loses
<1>3. CASE Stores(h, R, t)
  <2>1. Busy(h)
    BY <1>3, StepIsBusy
  <2>. QED
    BY <1>3, <2>1, OwnWork DEF Reading, Stores, Accept
<1>. QED
  BY <1>1, <1>2, <1>3

\* A request that comes in starts at the replay key.
LEMMA ReceiveWork ==
  ASSUME Reading, NEW h \in Thread, NEW m \in Sent, Receive(h, m)
  PROVE  /\ work'[h] = [pc |-> "replay", id |-> m.id, body |-> m.body, attempt |-> 0,
                        version |-> 0, seen |-> 0, moved |-> FALSE]
         /\ work'[h] \in Handling
         /\ work'[h].pc = "replay" /\ work'[h].body = m.body /\ work'[h].attempt = 0
         /\ work'[h].version = 0
         /\ m.id \in Delivery /\ m.body \in Body /\ m.body.group \in Group
         /\ m.body.change <= Newest(m.body.group)
<1>1. m.id \in Delivery /\ m.body \in Body
  BY IngressAssumption
<1>2. m.body.group \in Group
  BY <1>1 DEF Body
<1>3. work'[h] = [pc |-> "replay", id |-> m.id, body |-> m.body, attempt |-> 0,
                  version |-> 0, seen |-> 0, moved |-> FALSE]
  BY DEF Receive, Reading, IngressTypeOK
<1>4. 0 \in 0..MaxAttempts
  BY IngressAssumption
<1>5. work'[h] \in Handling
  BY <1>1, <1>3, <1>4 DEF Handling, Pc
<1>6. /\ work'[h].pc = "replay" /\ work'[h].body = m.body /\ work'[h].attempt = 0
      /\ work'[h].version = 0
  BY <1>3
<1>7. m.body.change <= Newest(m.body.group)
  BY DEF Receive, Newest
<1>. QED
  BY <1>1, <1>2, <1>3, <1>5, <1>6, <1>7

-----------------------------------------------------------------------------
\* Every step is a step of the task table, or leaves it alone: a stored version is
\* its Ingest, and everything else but parking stays outside it.
LEMMA IngressTableStep ==
  ASSUME Reading, [IngressNext]_<<vars, ingressVars>>
  PROVE  [Next]_vars
<1>1. ASSUME NEW h \in Thread, NEW m \in Sent, Receive(h, m) PROVE UNCHANGED vars
  BY <1>1 DEF Receive, Look
<1>2. ASSUME NEW h \in Thread,
             Answers(h) \/ Continues(h) \/ ReadVersion(h) \/ ReadProvider(h)
      PROVE  UNCHANGED vars
  BY <1>2 DEF Answers, Continues, ReadVersion, ReadProvider, Look
<1>3. ASSUME NEW h \in Thread, NEW moved, Loses(h, moved) PROVE UNCHANGED vars
  BY <1>3 DEF Loses, Retry
<1>4. ASSUME NEW h \in Thread, NEW R, NEW t, Stores(h, R, t) PROVE Next
  <2>1. R \in Replacements /\ Ingest(GroupAt(h), R)
    BY <1>4, StoresEffect
  <2>2. GroupAt(h) \in Group
    BY <1>4, StepIsBusy, BusyType DEF Reading
  <2>. QED
    BY <2>1, <2>2 DEF Next
<1>5. ASSUME NEW g \in Group, NEW s \in Shown, Change(g, s) PROVE UNCHANGED vars
  BY <1>5 DEF Change
<1>6. ASSUME NEW t \in Task, Park(t) PROVE Next
  <2>1. ControlStep(t)
    BY <1>6 DEF Park, ControlStep
  <2>. QED
    BY <2>1 DEF Next
<1>. QED
  BY <1>1, <1>2, <1>3, <1>4, <1>5, <1>6, IngressSteps

\* The receipts of a thread that answers: a copy, or the first of its body.
CopiesReceipt(h) ==
  \E d \in Replayed(BodyOf(h)) : receipt' = [receipt EXCEPT ![work[h].id] = receipt[d]]
FirstReceipt(h, t) ==
  /\ New(h) /\ t \in Task \cup {None}
  /\ \/ Answers(h) /\ KindAt(h) = "other"
     \/ \E R : Stores(h, R, t)
  /\ receipt' = [receipt EXCEPT ![work[h].id] = [body |-> BodyOf(h), task |-> t]]
Writes(h) == Busy(h) /\ (CopiesReceipt(h) \/ \E t : FirstReceipt(h, t))

LEMMA ReceiptsStep ==
  ASSUME Reading, [IngressNext]_<<vars, ingressVars>>
  PROVE  receipt' = receipt \/ \E h \in Thread : Writes(h)
<1>1. ASSUME NEW h \in Thread, NEW m \in Sent, Receive(h, m) PROVE receipt' = receipt
  BY <1>1 DEF Receive, Look
<1>2. ASSUME NEW h \in Thread, Continues(h) \/ ReadVersion(h) \/ ReadProvider(h)
      PROVE  receipt' = receipt
  BY <1>2 DEF Continues, ReadVersion, ReadProvider, Look
<1>3. ASSUME NEW h \in Thread, NEW moved, Loses(h, moved) PROVE receipt' = receipt
  BY <1>3 DEF Loses, Retry
<1>4. ASSUME NEW h \in Thread, Answers(h)
      PROVE  receipt' = receipt \/ Writes(h)
  <2>1. CASE CopiesReceipt(h)
    BY <1>4, <2>1 DEF Answers, Writes
  <2>2. ASSUME New(h), KindAt(h) = "other",
               receipt' = [receipt EXCEPT ![work[h].id] =
                             [body |-> BodyOf(h), task |-> None]]
        PROVE  Writes(h)
    <3>1. FirstReceipt(h, None)
      BY <1>4, <2>2 DEF FirstReceipt
    <3>. QED
      BY <1>4, <3>1 DEF Answers, Writes
  <2>. QED
    BY <1>4, <2>1, <2>2 DEF Answers, CopiesReceipt
<1>5. ASSUME NEW h \in Thread, NEW R, NEW t, Stores(h, R, t) PROVE Writes(h)
  <2>1. Busy(h) /\ New(h) /\ t \in Task \cup {None}
    BY <1>5, StepIsBusy DEF Stores
  <2>2. receipt' = [receipt EXCEPT ![work[h].id] = [body |-> BodyOf(h), task |-> t]]
    BY <1>5 DEF Stores, Accept
  <2>3. FirstReceipt(h, t)
    BY <1>5, <2>1, <2>2 DEF FirstReceipt
  <2>. QED
    BY <2>1, <2>3 DEF Writes
<1>6. ASSUME NEW g \in Group, NEW s \in Shown, Change(g, s) PROVE receipt' = receipt
  BY <1>6 DEF Change
<1>7. ASSUME NEW t \in Task, Park(t) PROVE receipt' = receipt
  BY <1>7 DEF Park, ingressVars
<1>8. UNCHANGED <<vars, ingressVars>> => receipt' = receipt
  BY DEF ingressVars
<1>. QED
  BY <1>1, <1>2, <1>3, <1>4, <1>5, <1>6, <1>7, <1>8, IngressSteps

\* A receipt that is new, or the one it copies, is a receipt.
LEMMA ReceiptType ==
  ASSUME Reading, [IngressNext]_<<vars, ingressVars>>
  PROVE  receipt' \in [Delivery -> Receipt \cup {NoReceipt}]
<1>1. ASSUME NEW h \in Thread, Busy(h), NEW r \in Receipt \cup {NoReceipt},
             receipt' = [receipt EXCEPT ![work[h].id] = r]
      PROVE  receipt' \in [Delivery -> Receipt \cup {NoReceipt}]
  BY <1>1 DEF Reading, IngressTypeOK
<1>2. ASSUME NEW h \in Thread, Busy(h), NEW d \in Replayed(BodyOf(h))
      PROVE  receipt[d] \in Receipt \cup {NoReceipt}
  BY DEF Reading, IngressTypeOK, Replayed
<1>3. ASSUME NEW h \in Thread, Busy(h), NEW t \in Task \cup {None}
      PROVE  [body |-> BodyOf(h), task |-> t] \in Receipt
  BY <1>3, BusyType DEF Reading, Receipt
<1>. QED
  BY <1>1, <1>2, <1>3, ReceiptsStep
  DEF Reading, IngressTypeOK, Writes, CopiesReceipt, FirstReceipt

\* The versions of the groups only grow, by what a thread has seen.
LEMMA AcceptedStep ==
  ASSUME Reading, [IngressNext]_<<vars, ingressVars>>
  PROVE  accepted' = accepted \/ \E h \in Thread : \E R, t : Stores(h, R, t)
<1>1. ASSUME NEW h \in Thread, NEW m \in Sent, Receive(h, m) PROVE accepted' = accepted
  BY <1>1 DEF Receive, Look
<1>2. ASSUME NEW h \in Thread,
             Answers(h) \/ Continues(h) \/ ReadVersion(h) \/ ReadProvider(h)
      PROVE  accepted' = accepted
  BY <1>2 DEF Answers, Continues, ReadVersion, ReadProvider, Look
<1>3. ASSUME NEW h \in Thread, NEW moved, Loses(h, moved) PROVE accepted' = accepted
  BY <1>3 DEF Loses, Retry
<1>4. ASSUME NEW g \in Group, NEW s \in Shown, Change(g, s) PROVE accepted' = accepted
  BY <1>4 DEF Change
<1>5. ASSUME NEW t \in Task, Park(t) PROVE accepted' = accepted
  BY <1>5 DEF Park, ingressVars
<1>6. UNCHANGED <<vars, ingressVars>> => accepted' = accepted
  BY DEF ingressVars
<1>. QED
  BY <1>1, <1>2, <1>3, <1>4, <1>5, <1>6, IngressSteps

\* The provider only gains states, one at a time.
LEMMA ProviderStep ==
  ASSUME Reading, [IngressNext]_<<vars, ingressVars>>
  PROVE  /\ kind' = kind
         /\ provider' = provider \/ \E g \in Group, s \in Shown : Change(g, s)
<1>1. ASSUME NEW h \in Thread, NEW m \in Sent, Receive(h, m)
      PROVE  UNCHANGED <<kind, provider>>
  BY <1>1 DEF Receive, Look
<1>2. ASSUME NEW h \in Thread,
             Answers(h) \/ Continues(h) \/ ReadVersion(h) \/ ReadProvider(h)
      PROVE  UNCHANGED <<kind, provider>>
  BY <1>2 DEF Answers, Continues, ReadVersion, ReadProvider, Look
<1>3. ASSUME NEW h \in Thread, NEW moved, Loses(h, moved)
      PROVE  UNCHANGED <<kind, provider>>
  BY <1>3 DEF Loses, Retry
<1>4. ASSUME NEW h \in Thread, NEW R, NEW t, Stores(h, R, t)
      PROVE  UNCHANGED <<kind, provider>>
  BY <1>4 DEF Stores, Accept
<1>5. ASSUME NEW g \in Group, NEW s \in Shown, Change(g, s) PROVE kind' = kind
  BY <1>5 DEF Change
<1>6. ASSUME NEW t \in Task, Park(t) PROVE UNCHANGED <<kind, provider>>
  BY <1>6 DEF Park, ingressVars
<1>7. UNCHANGED <<vars, ingressVars>> => UNCHANGED <<kind, provider>>
  BY DEF ingressVars
<1>. QED
  BY <1>1, <1>2, <1>3, <1>4, <1>5, <1>6, <1>7, IngressSteps

\* What a thread has in hand is always a delivery.
LEMMA WorkType ==
  ASSUME Reading, [IngressNext]_<<vars, ingressVars>>
  PROVE  work' \in [Thread -> Handling \cup {Ready}]
<1>0. work \in [Thread -> Handling \cup {Ready}]
  BY DEF Reading, IngressTypeOK
<1>1. ASSUME NEW h \in Thread, work'[h] \in Handling \cup {Ready},
             \E t : work' = [work EXCEPT ![h] = t]
      PROVE  work' \in [Thread -> Handling \cup {Ready}]
  BY <1>0, <1>1
<1>2. ASSUME NEW h \in Thread, NEW m \in Sent, Receive(h, m)
      PROVE  work' \in [Thread -> Handling \cup {Ready}]
  BY <1>1, <1>2, ReceiveWork DEF Receive
<1>3. ASSUME NEW h \in Thread, Answers(h) \/ \E R, t : Stores(h, R, t)
      PROVE  work' \in [Thread -> Handling \cup {Ready}]
  BY <1>0, <1>3 DEF Answers, Answer, Stores, Accept
<1>4. ASSUME NEW h \in Thread, Continues(h)
      PROVE  work' \in [Thread -> Handling \cup {Ready}]
  <2>1. \E t : work' = [work EXCEPT ![h] = t]
    BY <1>4 DEF Continues, Become
  <2>. QED
    BY <1>1, <1>4, <2>1, OwnFields
<1>5. ASSUME NEW h \in Thread, ReadVersion(h)
      PROVE  work' \in [Thread -> Handling \cup {Ready}]
  <2>1. \E t : work' = [work EXCEPT ![h] = t]
    BY <1>5 DEF ReadVersion
  <2>. QED
    BY <1>1, <1>5, <2>1, OwnFields
<1>6. ASSUME NEW h \in Thread, ReadProvider(h)
      PROVE  work' \in [Thread -> Handling \cup {Ready}]
  <2>1. \E t : work' = [work EXCEPT ![h] = t]
    BY <1>6 DEF ReadProvider
  <2>. QED
    BY <1>1, <1>6, <2>1, OwnFields
<1>7. ASSUME NEW h \in Thread, NEW moved, Loses(h, moved)
      PROVE  work' \in [Thread -> Handling \cup {Ready}]
  <2>1. \E t : work' = [work EXCEPT ![h] = t]
    BY <1>7 DEF Loses, Retry, Answer
  <2>2. work'[h] \in Handling \cup {Ready}
    BY <1>7, OwnFields, OwnEnd
  <2>. QED
    BY <1>1, <2>1, <2>2
<1>8. ASSUME NEW g \in Group, NEW s \in Shown, Change(g, s) PROVE work' = work
  BY <1>8 DEF Change
<1>9. ASSUME NEW t \in Task, Park(t) PROVE work' = work
  BY <1>9 DEF Park, ingressVars
<1>10. UNCHANGED <<vars, ingressVars>> => work' = work
  BY DEF ingressVars
<1>. QED
  BY <1>0, <1>2, <1>3, <1>4, <1>5, <1>6, <1>7, <1>8, <1>9, <1>10, IngressSteps

\* A body is refused when its thread loses the last attempt to another delivery.
LEMMA RefusedStep ==
  ASSUME Reading, [IngressNext]_<<vars, ingressVars>>
  PROVE  \/ refused' = refused
         \/ \E h \in Thread : \E moved :
              /\ Loses(h, moved) /\ ~MayRetry(h) /\ ~moved
              /\ refused' = refused \cup {BodyOf(h)}
<1>1. ASSUME NEW h \in Thread, NEW m \in Sent, Receive(h, m) PROVE refused' = refused
  BY <1>1 DEF Receive, Look
<1>2. ASSUME NEW h \in Thread,
             Answers(h) \/ Continues(h) \/ ReadVersion(h) \/ ReadProvider(h)
      PROVE  refused' = refused
  BY <1>2 DEF Answers, Continues, ReadVersion, ReadProvider, Look
<1>3. ASSUME NEW h \in Thread, NEW moved, Loses(h, moved), refused' # refused
      PROVE  ~MayRetry(h) /\ ~moved /\ refused' = refused \cup {BodyOf(h)}
  BY <1>3 DEF Loses, Retry
<1>4. ASSUME NEW h \in Thread, NEW R, NEW t, Stores(h, R, t) PROVE refused' = refused
  BY <1>4 DEF Stores, Accept
<1>5. ASSUME NEW g \in Group, NEW s \in Shown, Change(g, s) PROVE refused' = refused
  BY <1>5 DEF Change
<1>6. ASSUME NEW t \in Task, Park(t) PROVE refused' = refused
  BY <1>6 DEF Park, ingressVars
<1>7. UNCHANGED <<vars, ingressVars>> => refused' = refused
  BY DEF ingressVars
<1>. QED
  BY <1>1, <1>2, <1>3, <1>4, <1>5, <1>6, <1>7, IngressSteps

\* The types are preserved.
LEMMA IngressTypeStep ==
  ASSUME Reading, [IngressNext]_<<vars, ingressVars>>
  PROVE  IngressTypeOK'
<1>1. TypeOK'
  BY IngressTableStep, TypeStep DEF Reading, IngressTypeOK
<1>2. kind' \in [Group -> Kind] /\ provider' \in [Group -> Seq(Shown)]
  <2>1. ASSUME NEW g \in Group, NEW s \in Shown, Change(g, s)
        PROVE  provider' \in [Group -> Seq(Shown)]
    <3>1. Append(provider[g], s) \in Seq(Shown)
      BY DEF Reading, IngressTypeOK
    <3>. QED
      BY <2>1, <3>1 DEF Change, Reading, IngressTypeOK
  <2>2. kind' = kind
    BY ProviderStep
  <2>3. provider' \in [Group -> Seq(Shown)]
    BY <2>1, ProviderStep DEF Reading, IngressTypeOK
  <2>. QED
    BY <2>2, <2>3 DEF Reading, IngressTypeOK
<1>3. accepted' \in [Group -> Seq(Acceptance)]
  <2>1. ASSUME NEW h \in Thread, NEW R, NEW t, Stores(h, R, t)
        PROVE  accepted' \in [Group -> Seq(Acceptance)]
    <3>1. GroupAt(h) \in Group
      BY <2>1, StepIsBusy, BusyType DEF Reading
    <3>2. [change |-> work[h].seen, task |-> t] \in Acceptance
      BY <2>1, StoresEffect
    <3>3. accepted' = [accepted EXCEPT ![GroupAt(h)] =
            Append(accepted[GroupAt(h)], [change |-> work[h].seen, task |-> t])]
      BY <2>1 DEF Stores, Accept
    <3>. QED
      BY <3>1, <3>2, <3>3 DEF Reading, IngressTypeOK
  <2>. QED
    BY <2>1, AcceptedStep DEF Reading, IngressTypeOK
<1>4. refused' \subseteq Body
  <2>1. ASSUME NEW h \in Thread, NEW moved, Loses(h, moved) PROVE BodyOf(h) \in Body
    BY <2>1, StepIsBusy, BusyType DEF Reading
  <2>. QED
    BY <2>1, RefusedStep DEF Reading, IngressTypeOK
<1>. QED
  BY <1>1, <1>2, <1>3, <1>4, ReceiptType, WorkType DEF IngressTypeOK

-----------------------------------------------------------------------------
\* How far the provider and the versions of a group move in a step.
LEMMA NewestGrows ==
  ASSUME Reading, [IngressNext]_<<vars, ingressVars>>, NEW g \in Group
  PROVE  /\ Newest(g)' \in Nat /\ Newest(g)' >= Newest(g)
         /\ provider'[g] = provider[g] \/ Newest(g)' > Newest(g)
<1>1. provider \in [Group -> Seq(Shown)] /\ provider[g] \in Seq(Shown)
  BY DEF Reading, IngressTypeOK
<1>2. ASSUME NEW f \in Group, NEW s \in Shown, Change(f, s), f = g
      PROVE  Newest(g)' = Newest(g) + 1
  <2>1. provider'[g] = Append(provider[g], s)
    BY <1>1, <1>2 DEF Change
  <2>. QED
    BY <1>1, <2>1 DEF Newest
<1>3. ASSUME NEW f \in Group, NEW s \in Shown, Change(f, s), f # g
      PROVE  provider'[g] = provider[g]
  BY <1>1, <1>3 DEF Change
<1>. QED
  BY <1>1, <1>2, <1>3, ProviderStep DEF Newest

\* A version that is stored comes after all others, shows what its thread saw, and
\* the versions that were there stay.
Stored(g, h) ==
  /\ Busy(h) /\ work[h].pc = "store" /\ GroupAt(h) = g
  /\ Version(h) = Len(accepted[g])
  /\ Len(accepted[g])' = Len(accepted[g]) + 1
  /\ accepted'[g][Len(accepted[g]) + 1].change = work[h].seen
  /\ work[h].seen \in 1..Newest(g)
  /\ UNCHANGED provider

LEMMA AcceptedGrows ==
  ASSUME Reading, [IngressNext]_<<vars, ingressVars>>, NEW g \in Group
  PROVE  /\ Len(accepted[g])' \in Nat /\ Len(accepted[g])' >= Len(accepted[g])
         /\ \A i \in 1..Len(accepted[g]) : accepted'[g][i] = accepted[g][i]
         /\ \/ accepted'[g] = accepted[g]
            \/ \E h \in Thread : \E R, t : Stores(h, R, t) /\ Stored(g, h)
<1>1. accepted[g] \in Seq(Acceptance) /\ Len(accepted[g]) \in Nat
  BY Lengths DEF Reading
<1>2. ASSUME NEW h \in Thread, NEW R, NEW t, Stores(h, R, t), GroupAt(h) = g
      PROVE  /\ Len(accepted[g])' = Len(accepted[g]) + 1
             /\ \A i \in 1..Len(accepted[g]) : accepted'[g][i] = accepted[g][i]
             /\ Stored(g, h)
  <2>0. /\ [change |-> work[h].seen, task |-> t] \in Acceptance
        /\ accepted'[g] =
             Append(accepted[g], [change |-> work[h].seen, task |-> t])
    <3>1. accepted'[GroupAt(h)] =
            Append(accepted[GroupAt(h)], [change |-> work[h].seen, task |-> t])
      BY <1>2, StoresEffect
    <3>. QED
      BY <1>2, <3>1, StoresEffect
  <2>1. PICK a \in Acceptance :
          a = [change |-> work[h].seen, task |-> t] /\ accepted'[g] = Append(accepted[g], a)
    BY <2>0
  <2>2. /\ Len(accepted'[g]) = Len(accepted[g]) + 1
        /\ \A i \in 1..Len(accepted[g]) : accepted'[g][i] = accepted[g][i]
        /\ accepted'[g][Len(accepted[g]) + 1] = a
    BY <1>1, <2>1
  <2>3. Busy(h) /\ work[h].pc = "store" /\ UNCHANGED provider
    BY <1>2, StepIsBusy DEF Stores, Accept
  <2>4. work[h].seen \in 1..Newest(g) /\ Version(h) = Len(accepted[g])
    BY <1>2, StoresEffect
  <2>. QED
    BY <1>2, <2>1, <2>2, <2>3, <2>4 DEF Stored
<1>3. ASSUME NEW h \in Thread, NEW R, NEW t, Stores(h, R, t), GroupAt(h) # g
      PROVE  accepted'[g] = accepted[g]
  BY <1>3, StoresEffect
<1>. QED
  BY <1>1, <1>2, <1>3, AcceptedStep

\* A body on a receipt was on one before, or was in a thread's hands.
Copied(d) == \E e \in Delivery : receipt[e] # NoReceipt /\ receipt'[d] = receipt[e]
FirstOf(d, h) ==
  /\ Busy(h) /\ \E t : FirstReceipt(h, t)
  /\ d = work[h].id /\ receipt'[d].body = BodyOf(h)

LEMMA ReceiptBodies ==
  ASSUME Reading, [IngressNext]_<<vars, ingressVars>>,
         NEW d \in Delivery, receipt'[d] # NoReceipt
  PROVE  Copied(d) \/ \E h \in Thread : FirstOf(d, h)
<1>1. receipt \in [Delivery -> Receipt \cup {NoReceipt}]
  BY DEF Reading, IngressTypeOK
<1>2. ASSUME NEW h \in Thread, Busy(h), NEW e \in Replayed(BodyOf(h)),
             receipt' = [receipt EXCEPT ![work[h].id] = receipt[e]]
      PROVE  Copied(d)
  BY <1>1, <1>2, BusyType DEF Reading, Replayed, Copied
<1>3. ASSUME NEW h \in Thread, Busy(h), NEW t, FirstReceipt(h, t)
      PROVE  Copied(d) \/ FirstOf(d, h)
  <2>1. work[h].id \in Delivery
    BY <1>3, BusyType DEF Reading
  <2>2. CASE d = work[h].id
    <3>1. receipt'[d] = [body |-> BodyOf(h), task |-> t]
      BY <1>1, <1>3, <2>1, <2>2 DEF FirstReceipt
    <3>2. receipt'[d].body = BodyOf(h)
      BY <3>1
    <3>. QED
      BY <1>3, <2>2, <3>2 DEF FirstOf
  <2>3. CASE d # work[h].id
    BY <1>1, <1>3, <2>1, <2>3 DEF FirstReceipt, Copied
  <2>. QED
    BY <2>2, <2>3
<1>4. receipt' = receipt => Copied(d)
  BY DEF Copied
<1>5. ASSUME NEW h \in Thread, Writes(h) PROVE Copied(d) \/ FirstOf(d, h)
  <2>1. CopiesReceipt(h) => Copied(d)
    BY <1>2, <1>5 DEF Writes, CopiesReceipt
  <2>. QED
    BY <1>3, <1>5, <2>1 DEF Writes
<1>. QED
  BY <1>4, <1>5, ReceiptsStep

\* A thread is left as it was, receives a request, or goes on with its delivery.
GoesOn(h) ==
  \/ Answers(h) \/ Continues(h) \/ ReadVersion(h) \/ ReadProvider(h)
  \/ \E moved : Loses(h, moved)
  \/ \E R, t : Stores(h, R, t)

LEMMA ThreadSteps ==
  ASSUME Reading, [IngressNext]_<<vars, ingressVars>>, NEW h \in Thread
  PROVE  \/ work'[h] = work[h]
         \/ \E m \in Sent : Receive(h, m)
         \/ Busy(h) /\ GoesOn(h)
<1>1. GoesOn(h) => Busy(h)
  BY StepIsBusy DEF GoesOn
<1>2. UNCHANGED <<vars, ingressVars>> => work'[h] = work[h]
  BY DEF ingressVars
<1>3. ASSUME NEW g, NEW s, Change(g, s) PROVE work'[h] = work[h]
  BY <1>3 DEF Change
<1>4. ASSUME NEW t, Park(t) PROVE work'[h] = work[h]
  BY <1>4 DEF Park, ingressVars
<1>5. ASSUME NEW k \in Thread, k # h, NEW m \in Sent, Receive(k, m)
      PROVE  work'[h] = work[h]
  BY <1>5 DEF Receive, Reading, IngressTypeOK
<1>6. ASSUME NEW k \in Thread, k # h, GoesOn(k) PROVE work'[h] = work[h]
  BY <1>6
  DEF GoesOn, Answers, Answer, Continues, Become, ReadVersion, ReadProvider, Loses,
      Retry, Stores, Accept, Reading, IngressTypeOK
<1>7. \/ \E k \in Thread : GoesOn(k) \/ \E m \in Sent : Receive(k, m)
      \/ \E g \in Group, s \in Shown : Change(g, s)
      \/ \E t \in Task : Park(t)
      \/ UNCHANGED <<vars, ingressVars>>
  BY IngressSteps DEF GoesOn
<1>. QED
  BY <1>1, <1>2, <1>3, <1>4, <1>5, <1>6, <1>7

\* Announced changes have happened: the provider never loses a state.
LEMMA AnnouncedStep ==
  ASSUME Reading, [IngressNext]_<<vars, ingressVars>>
  PROVE  Announced'
<1>1. ASSUME NEW b \in Body, b.change <= Newest(b.group)
      PROVE  b.change <= Newest(b.group)'
  <2>1. b.group \in Group /\ b.change \in Nat
    BY DEF Body
  <2>2. PICK g \in Group : g = b.group
    BY <2>1
  <2>3. b.change <= Newest(g)
    BY <1>1, <2>2
  <2>4. b.change <= Newest(g)'
    BY <2>1, <2>3, NewestGrows, Lengths DEF Reading
  <2>. QED
    BY <2>2, <2>4
<1>2. ASSUME NEW h \in Thread, Busy(h)
      PROVE  BodyOf(h) \in Body /\ BodyOf(h).change <= Newest(BodyOf(h).group)
  BY <1>2, BusyType DEF Reading, Announced, GroupAt, BodyOf
<1>3. ASSUME NEW e \in Delivery, receipt[e] # NoReceipt
      PROVE  /\ receipt[e].body \in Body
             /\ receipt[e].body.change <= Newest(receipt[e].body.group)
  BY <1>3 DEF Reading, Announced, IngressTypeOK, Receipt
<1>4. ASSUME NEW d \in Delivery, receipt'[d] # NoReceipt
      PROVE  receipt'[d].body.change <= Newest(receipt[d].body.group)'
  <2>0. \/ \E e \in Delivery :
              receipt[e] # NoReceipt /\ receipt'[d].body = receipt[e].body
        \/ \E h \in Thread : Busy(h) /\ receipt'[d].body = BodyOf(h)
    BY <1>4, ReceiptBodies DEF Copied, FirstOf
  <2>1. PICK b \in Body : b = receipt'[d].body /\ b.change <= Newest(b.group)
    BY <1>2, <1>3, <2>0
  <2>2. b.change <= Newest(b.group)'
    BY <1>1, <2>1
  <2>. QED
    BY <2>1, <2>2 DEF Newest
<1>5. ASSUME NEW b \in refused' PROVE b.change <= Newest(b.group)'
  <2>1. CASE b \in refused
    BY <1>1, <2>1 DEF Reading, Announced, IngressTypeOK
  <2>2. CASE b \notin refused
    <3>1. PICK h \in Thread : Busy(h) /\ b = BodyOf(h)
      BY <1>5, <2>2, RefusedStep, StepIsBusy
    <3>. QED
      BY <1>1, <1>2, <3>1
  <2>. QED
    BY <2>1, <2>2
<1>6. ASSUME NEW h \in Thread, work'[h] # Ready
      PROVE  work'[h].body.change <= Newest(work[h].body.group)'
  <2>1. \E b \in Body : b = work'[h].body /\ b.change <= Newest(b.group)
    <3>1. CASE Busy(h) /\ work'[h].body = work[h].body
      BY <1>2, <3>1 DEF BodyOf
    <3>2. ASSUME NEW m \in Sent, Receive(h, m)
          PROVE  \E b \in Body : b = work'[h].body /\ b.change <= Newest(b.group)
      <4>1. work'[h].body = m.body
        BY <3>2, ReceiveWork
      <4>. QED
        BY <3>2, <4>1, ReceiveWork
    <3>3. ASSUME Busy(h), GoesOn(h) PROVE work'[h].body = work[h].body
      BY <1>6, <3>3, OwnFields, OwnEnd DEF Same, GoesOn
    <3>4. ASSUME work'[h] = work[h] PROVE Busy(h) /\ work'[h].body = work[h].body
      BY <1>6, <3>4 DEF Busy
    <3>. QED
      BY <3>1, <3>2, <3>3, <3>4, ThreadSteps
  <2>2. PICK b \in Body : b = work'[h].body /\ b.change <= Newest(b.group)
    BY <2>1
  <2>3. b.change <= Newest(b.group)'
    BY <1>1, <2>2
  <2>. QED
    BY <2>2, <2>3 DEF Newest
<1>7. ASSUME NEW g \in Group, NEW i \in 1..Len(accepted[g])'
      PROVE  accepted'[g][i].change <= Newest(g)'
  <2>1. i \in 1..Len(accepted[g]) => accepted[g][i].change <= Newest(g)
    BY DEF Reading, Announced
  <2>2. CASE i \in 1..Len(accepted[g])
    BY <2>1, <2>2, NewestGrows, AcceptedGrows, Lengths DEF Reading
  <2>3. CASE i \notin 1..Len(accepted[g])
    <3>1. PICK h \in Thread : Stored(g, h)
      BY <1>7, <2>3, AcceptedGrows
    <3>2. i = Len(accepted[g]) + 1
      BY <1>7, <2>3, <3>1, Lengths DEF Reading, Stored
    <3>. QED
      BY <3>1, <3>2, Lengths DEF Reading, Stored, Newest
  <2>. QED
    BY <2>2, <2>3
<1>8. ASSUME NEW g \in Group PROVE Newest(g)' >= 1
  <2>1. Newest(g) >= 1
    BY DEF Reading, Announced
  <2>. QED
    BY <2>1, NewestGrows, Lengths DEF Reading
<1>. QED
  BY <1>4, <1>5, <1>6, <1>7, <1>8 DEF Announced, Busy, BodyOf, GroupAt

\* A thread's readings stay in order, whatever the others store meanwhile.
LEMMA InOrderStep ==
  ASSUME Reading, [IngressNext]_<<vars, ingressVars>>, NEW h \in Thread
  PROVE  InOrder(h)'
<1> SUFFICES ASSUME Busy(h)' PROVE InOrder(h)'
  BY DEF InOrder
<1>0. work'[h] # Ready
  BY DEF Busy
<1>1. ASSUME work'[h] = work[h] PROVE InOrder(h)'
  <2>1. Busy(h)
    BY <1>0, <1>1 DEF Busy
  <2>2. PICK g \in Group : g = work[h].body.group
    BY <2>1, BusyType DEF Reading, GroupAt
  <2>3. /\ Version(h) \in 0..Len(accepted[g]) /\ Len(accepted[g]) \in Nat
        /\ work[h].pc = "replay" => work[h].attempt = 0
        /\ work[h].pc \in {"replay", "version"} => work[h].attempt < MaxAttempts
        /\ Holding(h) =>
             /\ BodyOf(h).change <= work[h].seen
             /\ work[h].seen \in 0..Newest(g)
             /\ \A i \in 1..Version(h) : accepted[g][i].change <= work[h].seen
    BY <2>1, <2>2, BusyType, Lengths DEF Reading, InOrder, GroupAt
  <2>4. Version(h) <= Len(accepted[g])'
    BY <2>3, AcceptedGrows
  <2>5. \A i \in 1..Version(h) : accepted'[g][i] = accepted[g][i]
    BY <2>3, AcceptedGrows
  <2>6. Holding(h) => work[h].seen <= Newest(g)'
    BY <2>3, NewestGrows, Lengths DEF Reading
  <2>. QED
    BY <1>1, <2>2, <2>3, <2>4, <2>5, <2>6
    DEF InOrder, Busy, Version, GroupAt, BodyOf, Holding, Newest
<1>2. ASSUME NEW m \in Sent, Receive(h, m) PROVE InOrder(h)'
  <2>1. /\ work'[h].pc = "replay" /\ work'[h].attempt = 0 /\ work'[h].version = 0
        /\ work'[h].body.group \in Group
    BY <1>2, ReceiveWork
  <2>2. Len(accepted'[work'[h].body.group]) \in Nat
    BY <2>1, AcceptedGrows
  <2>. QED
    BY <2>1, <2>2, IngressAssumption DEF InOrder, Busy, Version, GroupAt, BodyOf, Holding
<1>3. ASSUME Busy(h), GoesOn(h) PROVE InOrder(h)'
  <2>1. PICK g \in Group : g = work[h].body.group
    BY <1>3, BusyType DEF Reading, GroupAt
  <2>2. /\ Version(h) \in 0..Len(accepted[g]) /\ Len(accepted[g]) \in Nat
        /\ work[h].attempt \in Nat
        /\ work[h].pc = "replay" => work[h].attempt = 0
        /\ work[h].pc \in {"replay", "version"} => work[h].attempt < MaxAttempts
        /\ Holding(h) =>
             /\ BodyOf(h).change <= work[h].seen
             /\ work[h].seen <= Newest(g)
             /\ \A i \in 1..Version(h) : accepted[g][i].change <= work[h].seen
    BY <1>3, <2>1, BusyType, Lengths DEF Reading, InOrder, GroupAt
  <2>3. CASE Continues(h)
    <3>1. UNCHANGED <<accepted, provider>>
      BY <2>3 DEF Continues, Look
    <3>2. /\ work'[h].body = work[h].body /\ work'[h].attempt = work[h].attempt
          /\ work'[h].version = work[h].version /\ work'[h].seen = work[h].seen
      BY <2>3, OwnFields DEF Same
    <3>3. /\ work'[h].pc = "replay" => FALSE
          /\ work'[h].pc = "version" => work[h].attempt < MaxAttempts
          /\ work'[h].pc \in {"confirm", "store"} => Holding(h)
      BY <2>2, <2>3, OwnFields, IngressAssumption DEF Holding
    <3>. QED
      BY <2>1, <2>2, <3>1, <3>2, <3>3
      DEF InOrder, Busy, Version, GroupAt, BodyOf, Holding, Newest
  <2>4. CASE ReadVersion(h)
    <3>1. UNCHANGED <<accepted, provider>>
      BY <2>4 DEF ReadVersion, Look
    <3>2. /\ work'[h].body = work[h].body /\ work'[h].pc = "read"
          /\ work'[h].version = Len(accepted[g])
      BY <2>1, <2>4, OwnFields DEF Same, GroupAt
    <3>. QED
      BY <2>1, <2>2, <3>1, <3>2 DEF InOrder, Busy, Version, GroupAt, BodyOf, Holding
  <2>5. CASE ReadProvider(h)
    <3>1. UNCHANGED <<accepted, provider>>
      BY <2>5 DEF ReadProvider, Look
    <3>2. /\ work'[h].body = work[h].body /\ work'[h].pc \in {"confirm", "store"}
          /\ work'[h].version = work[h].version /\ work'[h].seen = Newest(g)
      BY <2>1, <2>5, OwnFields DEF Same, GroupAt
    <3>3. /\ work[h].body.change <= Newest(g) /\ Newest(g) \in Nat
          /\ \A i \in 1..Len(accepted[g]) : accepted[g][i].change <= Newest(g)
      BY <1>3, <2>1, Lengths DEF Reading, Announced, BodyOf, GroupAt
    <3>4. \A i \in 1..work[h].version : accepted[g][i].change <= Newest(g)
      BY <2>2, <3>3 DEF Version
    <3>. QED
      BY <2>1, <2>2, <3>1, <3>2, <3>3, <3>4
      DEF InOrder, Busy, Version, GroupAt, BodyOf, Holding, Newest
  <2>6. ASSUME NEW moved, Loses(h, moved) PROVE InOrder(h)'
    <3>1. UNCHANGED <<accepted, provider>>
      BY <2>6 DEF Loses, Retry
    <3>2. /\ Same(h, {"id", "body", "attempt", "version", "seen"})
          /\ work'[h].pc = "version" /\ work[h].attempt < MaxAttempts
      BY <1>0, <2>6, OwnFields, OwnEnd DEF MayRetry
    <3>. QED
      BY <2>1, <2>2, <3>1, <3>2
      DEF Same, InOrder, Busy, Version, GroupAt, BodyOf, Holding
  <2>. QED
    BY <1>0, <1>3, <2>3, <2>4, <2>5, <2>6, OwnEnd DEF GoesOn
<1>. QED
  BY <1>1, <1>2, <1>3, ThreadSteps

\* The first part of the invariant, and what follows from it by itself.
LEMMA ReadingInit == IngressInit => Reading
<1> SUFFICES ASSUME IngressInit PROVE Reading
  OBVIOUS
<1>1. TypeOK
  BY DEF IngressInit, Init, TypeOK, State, Reason
<1>2. [sha |-> "a", open |-> TRUE] \in Shown
  BY DEF Shown, Sha
<1>3. <<[sha |-> "a", open |-> TRUE]>> \in Seq(Shown)
  BY <1>2
<1>4. IngressTypeOK
  BY <1>1, <1>3, IngressAssumption DEF IngressInit, IngressTypeOK
<1>5. \A h \in Thread : ~Busy(h)
  BY DEF IngressInit, Busy
<1>6. \A g \in Group : Len(accepted[g]) = 0
  BY DEF IngressInit
<1>7. \A g \in Group : Newest(g) = 1
  BY DEF IngressInit, Newest
<1>8. Announced
  BY <1>5, <1>6, <1>7 DEF IngressInit, Announced
<1>. QED
  BY <1>4, <1>5, <1>8 DEF Reading, InOrder

LEMMA ReadingStep == Reading /\ [IngressNext]_<<vars, ingressVars>> => Reading'
BY IngressTypeStep, AnnouncedStep, InOrderStep DEF Reading

LEMMA ReadingAlways == IngressSpec => []Reading
<1>. QED
  BY ReadingInit, ReadingStep, PTL DEF IngressSpec

\* The types hold in every reachable state.
THEOREM IngressTypeCorrect == IngressSpec => []IngressTypeOK
<1>1. Reading => IngressTypeOK
  BY DEF Reading
<1>. QED
  BY <1>1, ReadingAlways, PTL

\* The ingress keeps to the task table: a delivery touches tasks by one Ingest of
\* its group and in no other way, so that every theorem about the table, fencing
\* and supersession among them, is a theorem about a system with this ingress.
THEOREM IngressImplementsTaskStore == IngressSpec => Spec
<1>1. IngressInit => Init
  BY DEF IngressInit
<1>2. Reading /\ [IngressNext]_<<vars, ingressVars>> => [Next]_vars
  BY IngressTableStep
<1>. QED
  BY <1>1, <1>2, ReadingAlways, PTL DEF IngressSpec, Spec

-----------------------------------------------------------------------------
\* The versions of a group never go back: the version somebody stores was counted
\* before the provider was read, so every earlier version shows an earlier reading.
THEOREM VersionsNeverGoBack == IngressSpec => []NewestStateWins
<1>1. IngressInit => NewestStateWins
  BY DEF IngressInit, NewestStateWins
<1>2. ASSUME Reading, NewestStateWins, [IngressNext]_<<vars, ingressVars>>
      PROVE  NewestStateWins'
  <2> SUFFICES ASSUME NEW g \in Group, NEW i \in 1..Len(accepted[g])',
                      NEW j \in 1..Len(accepted[g])', i < j
               PROVE  accepted'[g][i].change <= accepted'[g][j].change
    BY DEF NewestStateWins
  <2>1. Len(accepted[g]) \in Nat
    BY <1>2, Lengths DEF Reading
  <2>2. CASE j \in 1..Len(accepted[g])
    <3>1. i \in 1..Len(accepted[g])
      BY <2>1, <2>2, AcceptedGrows, <1>2
    <3>2. accepted[g][i].change <= accepted[g][j].change
      BY <1>2, <2>2, <3>1 DEF NewestStateWins
    <3>. QED
      BY <1>2, <2>2, <3>1, <3>2, AcceptedGrows
  <2>3. CASE j \notin 1..Len(accepted[g])
    <3>1. PICK h \in Thread : Stored(g, h)
      BY <1>2, <2>3, AcceptedGrows
    <3>2. j = Len(accepted[g]) + 1 /\ i \in 1..Len(accepted[g])
      BY <2>1, <2>3, <3>1 DEF Stored
    <3>3. accepted[g][i].change <= work[h].seen
      BY <1>2, <3>1, <3>2 DEF Stored, Reading, InOrder, Holding
    <3>4. accepted'[g][i] = accepted[g][i]
      BY <1>2, <3>2, AcceptedGrows
    <3>. QED
      BY <3>1, <3>2, <3>3, <3>4 DEF Stored
  <2>. QED
    BY <2>2, <2>3
<1>. QED
  BY <1>1, <1>2, ReadingAlways, PTL DEF IngressSpec

\* However its deliveries race, a signed body stands for one task, or for none: a
\* receipt is written for a body that has none, or copies one it has.
THEOREM BodiesAreSingle == IngressSpec => []OneTaskPerBody
<1>1. IngressInit => OneTaskPerBody
  BY DEF IngressInit, OneTaskPerBody
<1>2. ASSUME Reading, OneTaskPerBody, [IngressNext]_<<vars, ingressVars>>
      PROVE  OneTaskPerBody'
  <2> SUFFICES ASSUME NEW d \in Delivery, NEW e \in Delivery, receipt'[d] # NoReceipt,
                      receipt'[d].body = receipt'[e].body
               PROVE  receipt'[d] = receipt'[e]
    BY DEF OneTaskPerBody
  <2>1. receipt'[e] # NoReceipt
    <3>1. receipt'[d] \in Receipt
      BY <1>2, ReceiptType
    <3>2. receipt'[d].body \in Body
      BY <3>1 DEF Receipt
    <3>. QED
      BY <3>2, IngressAssumption DEF NoReceipt
  <2>2. ASSUME NEW a \in Delivery, NEW b \in Delivery,
               receipt[a] # NoReceipt, receipt[b] # NoReceipt,
               receipt[a].body = receipt[b].body
        PROVE  receipt[a] = receipt[b]
    BY <1>2, <2>2 DEF OneTaskPerBody
  <2>3. ASSUME NEW x \in Delivery, NEW y \in Delivery, NEW h \in Thread, FirstOf(x, h),
               receipt'[y] # NoReceipt, receipt'[y].body = receipt'[x].body
        PROVE  receipt'[y] = receipt'[x]
    <3>1. PICK t : FirstReceipt(h, t)
      BY <2>3 DEF FirstOf
    <3>2. x = work[h].id /\ receipt'[y].body = BodyOf(h)
      BY <2>3 DEF FirstOf
    <3>3. receipt \in [Delivery -> Receipt \cup {NoReceipt}]
      BY <1>2 DEF Reading, IngressTypeOK
    <3>4. receipt[y].body # BodyOf(h)
      BY <3>1 DEF FirstReceipt, New, Replayed
    <3>. QED
      BY <3>1, <3>2, <3>3, <3>4 DEF FirstReceipt
  <2>4. CASE Copied(d) /\ Copied(e)
    BY <1>2, <2>4 DEF Copied, OneTaskPerBody
  <2>. QED
    BY <1>2, <2>1, <2>3, <2>4, ReceiptBodies
<1>. QED
  BY <1>1, <1>2, ReadingAlways, PTL DEF IngressSpec

\* A task that is still open stands for the newest version of its group: storing a
\* version ends every other open task of the group, and nothing else opens one.
THEOREM OpenTasksAreNewest == IngressSpec => []OpenTaskIsNewest
<1> DEFINE AtNewest == \A t \in Task : \A g \in Group :
             GroupOf[t] = g /\ Open(t) =>
               accepted[g] # << >> /\ accepted[g][Len(accepted[g])].task = t
<1>1. IngressInit => AtNewest
  BY DEF IngressInit, Init, Open
<1>2. ASSUME Reading, AtNewest, [IngressNext]_<<vars, ingressVars>>
      PROVE  AtNewest'
  <2> SUFFICES ASSUME NEW t \in Task, NEW g \in Group, GroupOf[t] = g, Open(t)'
               PROVE  /\ accepted'[g] # << >>
                      /\ accepted'[g][Len(accepted'[g])].task = t
    OBVIOUS
  <2>1. ASSUME Open(t), accepted'[g] = accepted[g]
        PROVE  /\ accepted'[g] # << >>
               /\ accepted'[g][Len(accepted'[g])].task = t
    BY <1>2, <2>1
  <2>2. ASSUME NEW h \in Thread, NEW R, NEW u, Stores(h, R, u), GroupAt(h) = g
        PROVE  /\ accepted'[g] # << >>
               /\ accepted'[g][Len(accepted'[g])].task = t
    <3>1. t \in R
      BY <1>2, <2>2, StoresEffect, IngestCloses DEF Reading, IngressTypeOK
    <3>2. t = u
      BY <2>2, <3>1 DEF Stores
    <3>3. /\ [change |-> work[h].seen, task |-> u] \in Acceptance
          /\ accepted'[GroupAt(h)] =
               Append(accepted[GroupAt(h)], [change |-> work[h].seen, task |-> u])
      BY <1>2, <2>2, StoresEffect
    <3>4. PICK a \in Acceptance : a.task = u /\ accepted'[g] = Append(accepted[g], a)
      BY <2>2, <3>3
    <3>5. accepted[g] \in Seq(Acceptance)
      BY <1>2, Lengths DEF Reading
    <3>. QED
      BY <3>2, <3>4, <3>5
  <2>3. ASSUME NEW h \in Thread, NEW R, NEW u, Stores(h, R, u), GroupAt(h) # g
        PROVE  Open(t) /\ accepted'[g] = accepted[g]
    <3>1. R \in Replacements /\ Ingest(GroupAt(h), R) /\ accepted'[g] = accepted[g]
      BY <1>2, <2>3, StoresEffect
    <3>2. GroupAt(h) \in Group
      BY <1>2, <2>3, StepIsBusy, BusyType DEF Reading
    <3>3. Untouched(t) \/ Revoked(t)
      BY <1>2, <2>3, <3>1, <3>2, IngestRow DEF Reading, IngressTypeOK
    <3>. QED
      BY <3>1, <3>3 DEF Untouched, Revoked, Open
  <2>4. ASSUME NEW u \in Task, Park(u) PROVE Open(t)
    <3>1. ControlStep(u)
      BY <2>4 DEF Park, ControlStep
    <3>2. Untouched(t) \/ Revoked(t)
      BY <1>2, <3>1, ControlRow DEF Reading, IngressTypeOK
    <3>. QED
      BY <3>2 DEF Untouched, Revoked, Open
  <2>5. ASSUME UNCHANGED vars PROVE Open(t)
    BY <2>5 DEF vars, Open
  <2>6. \/ \E h \in Thread : \E R, u : Stores(h, R, u)
        \/ accepted' = accepted /\ (UNCHANGED vars \/ \E u \in Task : Park(u))
    <3>1. ASSUME NEW h \in Thread, NEW m, NEW moved,
                 \/ Receive(h, m) \/ Answers(h) \/ Continues(h) \/ ReadVersion(h)
                 \/ ReadProvider(h) \/ Loses(h, moved)
          PROVE  UNCHANGED <<vars, accepted>>
      BY <3>1, StepKeeps
    <3>2. ASSUME NEW f, NEW s, Change(f, s) PROVE UNCHANGED <<vars, accepted>>
      BY <3>2 DEF Change
    <3>3. ASSUME NEW u, Park(u) PROVE accepted' = accepted
      BY <3>3 DEF Park, ingressVars
    <3>4. UNCHANGED <<vars, ingressVars>> => UNCHANGED <<vars, accepted>>
      BY DEF ingressVars
    <3>. QED
      BY <1>2, <3>1, <3>2, <3>3, <3>4, IngressSteps
  <2>. QED
    BY <2>1, <2>2, <2>3, <2>4, <2>5, <2>6
<1>3. AtNewest => OpenTaskIsNewest
  BY GroupAssumption DEF OpenTaskIsNewest, Open
<1>. QED
  BY <1>1, <1>2, <1>3, ReadingAlways, PTL DEF IngressSpec

-----------------------------------------------------------------------------
\* Races for the last change.  A thread that still handles it found it in the same
\* group before, and the provider has not moved on.
LEMMA LastChangeKept ==
  ASSUME Reading, [IngressNext]_<<vars, ingressVars>>, NEW h \in Thread,
         NEW g \in Group, Busy(h), GroupAt(h) = g, work'[h].body = work[h].body,
         OnLastChange(h)'
  PROVE  OnLastChange(h) /\ provider'[g] = provider[g] /\ Newest(g)' = Newest(g)
<1>1. kind' = kind
  BY ProviderStep
<1>2. BodyOf(h).change \in Nat /\ BodyOf(h).change <= Newest(g)
  BY BusyType DEF Reading, Announced
<1>3. BodyOf(h).change = Newest(g)'
  BY DEF OnLastChange, BodyOf, GroupAt, Newest
<1>4. provider'[g] = provider[g] /\ Newest(g)' = Newest(g)
  BY <1>2, <1>3, NewestGrows, Lengths DEF Reading, Newest
<1>. QED
  BY <1>1, <1>3, <1>4 DEF OnLastChange, KindAt, BodyOf, GroupAt

\* A later starting point asks for less, and nothing is beyond the next version.
LEMMA NewestFromLater ==
  ASSUME Reading, NEW g \in Group, NEW m \in Nat, NEW n \in Nat, m <= n, NewestFrom(g, m)
  PROVE  NewestFrom(g, n)
<1>1. ASSUME NEW k \in Thread, Busy(k), Version(k) >= n PROVE Version(k) >= m
  BY <1>1, BusyType DEF Reading
<1>2. \A i \in 1..Len(accepted[g]) : i > n => i > m
  BY Lengths DEF Reading
<1>. QED
  BY <1>1, <1>2 DEF NewestFrom

LEMMA NewestFromNext ==
  ASSUME Reading, NEW g \in Group
  PROVE  NewestFrom(g, Len(accepted[g]) + 1)
<1>1. Len(accepted[g]) \in Nat
  BY Lengths DEF Reading
<1>2. ASSUME NEW k \in Thread, Busy(k), GroupAt(k) = g
      PROVE  ~(Version(k) >= Len(accepted[g]) + 1)
  BY <1>1, <1>2, BusyType DEF Reading, InOrder
<1>. QED
  BY <1>1, <1>2 DEF NewestFrom

\* While the provider stays, a group that shows its last change keeps showing it.
LEMMA NewestFromStep ==
  ASSUME Reading, [IngressNext]_<<vars, ingressVars>>, NEW g \in Group, NEW n \in Nat,
         provider'[g] = provider[g], NewestFrom(g, n)
  PROVE  NewestFrom(g, n)'
<1>1. Newest(g)' = Newest(g)
  BY DEF Newest
<1>2. ASSUME NEW k \in Thread, work'[k] # Ready, work'[k].pc \in {"confirm", "store"},
             work'[k].body.group = g, work'[k].version >= n
      PROVE  work'[k].seen = Newest(g)
  <2>1. CASE work'[k] = work[k]
    BY <1>2, <2>1 DEF NewestFrom, Busy, Holding, GroupAt, Version
  <2>2. ASSUME NEW m \in Sent, Receive(k, m) PROVE FALSE
    BY <1>2, <2>2, ReceiveWork
  <2>3. ASSUME Busy(k), Continues(k) PROVE work'[k].seen = Newest(g)
    <3>1. /\ Same(k, {"id", "body", "attempt", "version", "seen", "moved"})
          /\ work[k].pc = "confirm"
      BY <1>2, <2>3, OwnFields
    <3>. QED
      BY <1>2, <2>3, <3>1 DEF NewestFrom, Holding, GroupAt, Version, Same
  <2>4. ASSUME Busy(k), ReadProvider(k) PROVE work'[k].seen = Newest(g)
    BY <1>2, <2>4, OwnFields DEF Same, GroupAt
  <2>5. ASSUME ReadVersion(k) PROVE FALSE
    BY <1>2, <2>5, OwnFields
  <2>6. ASSUME NEW moved, Loses(k, moved) PROVE FALSE
    BY <1>2, <2>6, OwnFields, OwnEnd
  <2>7. ASSUME NEW R, NEW t, Answers(k) \/ Stores(k, R, t) PROVE FALSE
    BY <1>2, <2>7, OwnEnd
  <2>. QED
    BY <2>1, <2>2, <2>3, <2>4, <2>5, <2>6, <2>7, ThreadSteps DEF GoesOn
<1>3. ASSUME NEW i \in 1..Len(accepted[g])', i > n
      PROVE  accepted'[g][i].change = Newest(g)
  <2>1. CASE i \in 1..Len(accepted[g])
    BY <1>3, <2>1, AcceptedGrows DEF NewestFrom
  <2>2. CASE i \notin 1..Len(accepted[g])
    <3>1. PICK k \in Thread : Stored(g, k)
      BY <1>3, <2>2, AcceptedGrows
    <3>2. i = Len(accepted[g]) + 1
      BY <1>3, <2>2, <3>1, Lengths DEF Reading, Stored
    <3>3. Version(k) >= n
      BY <1>3, <3>1, <3>2, Lengths DEF Reading, Stored
    <3>. QED
      BY <3>1, <3>2, <3>3 DEF Stored, NewestFrom, Holding
  <2>. QED
    BY <2>1, <2>2
<1>. QED
  BY <1>1, <1>2, <1>3 DEF NewestFrom, Busy, Holding, GroupAt, Version

\* Where a thread starts counting only moves forward.
LEMMA RacedStep ==
  ASSUME Reading, Racing, [IngressNext]_<<vars, ingressVars>>, NEW h \in Thread
  PROVE  RacedByNewest(h)'
<1> SUFFICES ASSUME OnLastChange(h)', work'[h].attempt >= 1
             PROVE  NewestFrom(GroupAt(h), Version(h) + Lag(h))'
  BY DEF RacedByNewest
<1>0. work'[h] # Ready
  BY DEF OnLastChange, Busy
<1>1. ASSUME NEW m \in Sent, Receive(h, m) PROVE FALSE
  <2>1. work'[h].attempt = 0
    BY <1>1, ReceiveWork
  <2>. QED
    BY <2>1
<1>2. Busy(h) /\ (work'[h] = work[h] \/ GoesOn(h))
  BY <1>0, <1>1, ThreadSteps DEF Busy
<1>3. work'[h].body = work[h].body
  BY <1>0, <1>2, OwnFields, OwnEnd DEF GoesOn, Same
<1>4. PICK g \in Group : g = GroupAt(h)
  BY <1>2, BusyType DEF Reading
<1>5. OnLastChange(h) /\ provider'[g] = provider[g]
  BY <1>2, <1>3, <1>4, LastChangeKept
<1>6. Reading' /\ work'[h] \in Handling
  BY <1>0, ReadingStep DEF Reading, IngressTypeOK
<1>7. ASSUME NEW n \in Nat, NEW m \in Nat, NewestFrom(g, n), n <= m,
             m = work'[h].version + Lag(h)'
      PROVE  NewestFrom(GroupAt(h), Version(h) + Lag(h))'
  <2>1. NewestFrom(g, m)
    BY <1>7, NewestFromLater
  <2>2. NewestFrom(g, m)'
    BY <1>5, <2>1, NewestFromStep
  <2>. QED
    BY <1>3, <1>4, <1>7, <2>2 DEF NewestFrom, GroupAt, Version, Newest
<1>8. Lag(h) \in {0, 1} /\ Lag(h)' \in {0, 1} /\ Version(h) \in Nat
  BY <1>2, BusyType DEF Lag, Reading
<1>9. CASE ReadVersion(h)
  <2>1. /\ work'[h].version = Len(accepted[g]) /\ Len(accepted[g]) \in Nat
        /\ work'[h].attempt = work[h].attempt + 1 /\ work'[h].moved = work[h].moved
        /\ work[h].attempt \in Nat
    BY <1>2, <1>4, <1>9, OwnFields, Lengths, BusyType DEF Same, Reading
  <2>2. CASE Lag(h)' = 1
    <3>1. NewestFrom(g, Len(accepted[g]) + 1)
      BY NewestFromNext
    <3>. QED
      BY <1>7, <2>1, <2>2, <3>1
  <2>3. CASE Lag(h)' = 0
    <3>1. work[h].attempt >= 1 /\ ~work[h].moved
      BY <2>1, <2>3 DEF Lag
    <3>2. Version(h) < Len(accepted[g])
      BY <1>2, <1>4, <1>5, <1>9, <3>1 DEF Racing, LostToVersion, ReadVersion
    <3>3. NewestFrom(g, Version(h) + Lag(h))
      BY <1>4, <1>5, <3>1 DEF Racing, RacedByNewest
    <3>. QED
      BY <1>7, <1>8, <2>1, <2>3, <3>2, <3>3
  <2>. QED
    BY <1>8, <2>2, <2>3
<1>10. CASE ~ReadVersion(h)
  <2>1. /\ work'[h].version = work[h].version /\ work'[h].attempt = work[h].attempt
        /\ work'[h].moved = work[h].moved \/ work'[h].moved = TRUE
    <3>1. ASSUME NEW moved, Loses(h, moved) PROVE moved = work[h].moved \/ moved = TRUE
      BY <3>1 DEF Loses
    <3>2. ASSUME NEW moved, Loses(h, moved)
          PROVE  /\ Same(h, {"id", "body", "attempt", "version", "seen"})
                 /\ work'[h].moved = moved
      BY <1>0, <3>2, OwnFields, OwnEnd
    <3>3. ASSUME work'[h] # work[h], ~\E moved : Loses(h, moved)
          PROVE  Same(h, {"id", "body", "attempt", "version", "moved"})
      BY <1>0, <1>2, <1>10, <3>3, OwnFields, OwnEnd DEF GoesOn, Same
    <3>. QED
      BY <3>1, <3>2, <3>3 DEF Same
  <2>2. Lag(h) <= Lag(h)'
    BY <2>1 DEF Lag
  <2>3. NewestFrom(g, Version(h) + Lag(h))
    BY <1>4, <1>5, <2>1 DEF Racing, RacedByNewest
  <2>. QED
    BY <1>7, <1>8, <2>1, <2>2, <2>3 DEF Version
<1>. QED
  BY <1>9, <1>10

\* The last change cannot be found overtaken at the provider: there is nothing to
\* overtake it with.  It loses an attempt to a conflict, or to the base branch.
LEMMA LastChangeLoses ==
  ASSUME Reading, NEW h \in Thread, OnLastChange(h), NEW moved, Loses(h, moved), ~moved
  PROVE  work[h].pc = "conflict" /\ ~work[h].moved
<1>1. Busy(h)
  BY DEF OnLastChange
<1>2. ASSUME work[h].pc = "confirm" PROVE Seen(h) = Latest(GroupAt(h))
  <2>1. work[h].seen = Newest(GroupAt(h))
    BY <1>1, <1>2, BusyType, Lengths DEF Reading, InOrder, OnLastChange, Holding
  <2>. QED
    BY <2>1 DEF Seen, Latest, Newest
<1>3. Latest(GroupAt(h)).sha = Pushed(h)
  BY DEF OnLastChange, Pushed, Latest, Newest
<1>. QED
  BY <1>2, <1>3 DEF Loses

\* A thread is at a conflict only after its version was overtaken.
LEMMA LostStep ==
  ASSUME Reading, Racing, [IngressNext]_<<vars, ingressVars>>, NEW h \in Thread
  PROVE  LostToVersion(h)'
<1> SUFFICES ASSUME work'[h] # Ready,
                    \/ work'[h].pc = "conflict"
                    \/ /\ OnLastChange(h)' /\ work'[h].pc = "version"
                       /\ work'[h].attempt >= 1 /\ ~work'[h].moved
             PROVE  Version(h)' < Len(accepted'[work'[h].body.group])
  BY DEF LostToVersion, Busy, GroupAt
<1>1. ASSUME NEW m \in Sent, Receive(h, m) PROVE FALSE
  <2>1. work'[h].pc = "replay"
    BY <1>1, ReceiveWork
  <2>. QED
    BY <2>1
<1>2. Busy(h) /\ (work'[h] = work[h] \/ GoesOn(h))
  BY <1>1, ThreadSteps DEF Busy
<1>3. work'[h].body = work[h].body
  BY <1>2, OwnFields, OwnEnd DEF GoesOn, Same
<1>4. PICK g \in Group : g = GroupAt(h)
  BY <1>2, BusyType DEF Reading
<1>5. OnLastChange(h)' => OnLastChange(h)
  BY <1>2, <1>3, <1>4, LastChangeKept
<1>6. /\ Len(accepted[g]) \in Nat /\ Version(h) \in 0..Len(accepted[g])
      /\ Len(accepted[g])' \in Nat /\ Len(accepted[g])' >= Len(accepted[g])
  BY <1>2, <1>4, BusyType, Lengths, AcceptedGrows DEF Reading, InOrder
<1>7. ASSUME Version(h) < Len(accepted[g]), work'[h].version = work[h].version
      PROVE  Version(h)' < Len(accepted'[work'[h].body.group])
  <2>1. Version(h) < Len(accepted'[g])
    BY <1>6, <1>7
  <2>. QED
    BY <1>3, <1>4, <1>7, <2>1 DEF Version, GroupAt, BodyOf
<1>8. CASE work'[h] = work[h]
  <2>1. Version(h) < Len(accepted[g])
    BY <1>2, <1>4, <1>5, <1>8 DEF Racing, LostToVersion
  <2>. QED
    BY <1>7, <1>8, <2>1
<1>9. CASE Continues(h)
  <2>1. /\ Same(h, {"id", "body", "attempt", "version", "seen", "moved"})
        /\ \/ work[h].pc = "replay" /\ work'[h].pc = "version"
           \/ work[h].pc = "confirm" /\ work'[h].pc = "store"
           \/ work[h].pc = "store" /\ work'[h].pc = "conflict"
    BY <1>9, OwnFields
  <2>2. work[h].pc = "replay" => work[h].attempt = 0
    BY <1>2 DEF Reading, InOrder
  <2>3. work[h].pc = "store"
    BY <2>1, <2>2 DEF Same
  <2>4. Version(h) # Len(accepted[g])
    BY <1>4, <1>9, <2>3 DEF Continues, VersionStands, Version
  <2>. QED
    BY <1>6, <1>7, <2>1, <2>4 DEF Same
<1>10. ASSUME NEW moved, Loses(h, moved)
       PROVE  Version(h)' < Len(accepted'[work'[h].body.group])
  <2>1. /\ Same(h, {"id", "body", "attempt", "version", "seen"})
        /\ work'[h].pc = "version" /\ work'[h].moved = moved
    BY <1>10, OwnFields, OwnEnd
  <2>2. OnLastChange(h) /\ ~moved
    BY <1>5, <2>1
  <2>3. work[h].pc = "conflict"
    BY <1>10, <2>2, LastChangeLoses
  <2>4. Version(h) < Len(accepted[g])
    BY <1>2, <1>4, <2>3 DEF Racing, LostToVersion
  <2>. QED
    BY <1>7, <2>1, <2>4 DEF Same
<1>11. ASSUME ReadVersion(h) \/ ReadProvider(h) PROVE FALSE
  <2>1. work'[h].pc \in {"read", "confirm", "store"}
    BY <1>11, OwnFields
  <2>. QED
    BY <2>1
<1>12. ASSUME NEW R, NEW t, Answers(h) \/ Stores(h, R, t) PROVE FALSE
  BY <1>12, OwnEnd
<1>. QED
  BY <1>2, <1>8, <1>9, <1>10, <1>11, <1>12 DEF GoesOn

\* The invariant of the races.
LEMMA RacingAlways == IngressSpec => []Racing
<1>1. IngressInit => Racing
  BY DEF IngressInit, Racing, RacedByNewest, LostToVersion, OnLastChange, Busy
<1>2. Reading /\ Racing /\ [IngressNext]_<<vars, ingressVars>> => Racing'
  BY RacedStep, LostStep DEF Racing
<1>. QED
  BY <1>1, <1>2, ReadingAlways, PTL DEF IngressSpec

\* A delivery is refused only after losing its attempts to versions stored since,
\* and from the second one on these show the last change as well.
LEMMA RefusalIsCovered ==
  ASSUME Reading, Racing, MaxAttempts >= 2, NEW h \in Thread, OnLastChange(h),
         NEW moved, Loses(h, moved), ~moved, ~MayRetry(h),
         NEW g \in Group, g = GroupAt(h)
  PROVE  /\ accepted[g] # << >>
         /\ accepted[g][Len(accepted[g])].change = Newest(g)
<1>1. Busy(h) /\ work[h].pc = "conflict" /\ ~work[h].moved
  BY LastChangeLoses DEF OnLastChange
<1>2. work[h].attempt >= 2 /\ work[h].attempt >= 1
  BY <1>1, BusyType, IngressAssumption DEF Reading, MayRetry
<1>3. Lag(h) = 0
  BY <1>1, <1>2 DEF Lag
<1>4. Version(h) \in Nat /\ Version(h) < Len(accepted[g]) /\ Len(accepted[g]) \in Nat
  BY <1>1, BusyType, Lengths DEF Reading, Racing, LostToVersion
<1>5. NewestFrom(g, Version(h) + Lag(h))
  BY <1>2 DEF Racing, RacedByNewest
<1>6. Len(accepted[g]) \in 1..Len(accepted[g]) /\ Len(accepted[g]) > Version(h) + Lag(h)
  BY <1>3, <1>4
<1>7. accepted[g][Len(accepted[g])].change = Newest(g)
  BY <1>5, <1>6 DEF NewestFrom
<1>. QED
  BY <1>4, <1>7

\* A group whose last change was answered before this step, with a receipt or a
\* refusal, or is answered in it.
LEMMA AnsweredCases ==
  ASSUME Reading, [IngressNext]_<<vars, ingressVars>>, NEW g \in Group, Answered(g)'
  PROVE  /\ provider'[g] = provider[g]
         /\ \/ Answered(g)
            \/ \E h \in Thread :
                 /\ OnLastChange(h) /\ GroupAt(h) = g
                 /\ \/ \E R, t : Stores(h, R, t)
                    \/ \E moved : Loses(h, moved) /\ ~moved /\ ~MayRetry(h)
<1>1. kind' = kind
  BY ProviderStep
<1>2. kind[g] \in {"pull_request", "push"}
  BY <1>1 DEF Answered
<1>3. PICK last : last = [group |-> g, change |-> Newest(g)']
  OBVIOUS
<1>4. last.group = g /\ last.change = Newest(g)' /\ Newest(g)' \in Nat /\ Newest(g) \in Nat
  BY <1>3, NewestGrows, Lengths DEF Reading
<1>5. ASSUME last.change <= Newest(last.group)
      PROVE  provider'[g] = provider[g] /\ last = LastBody(g) /\ Newest(g)' = Newest(g)
  <2>1. provider'[g] = provider[g]
    BY <1>4, <1>5, NewestGrows
  <2>2. Newest(g)' = Newest(g)
    BY <2>1 DEF Newest
  <2>. QED
    BY <1>3, <2>1, <2>2 DEF LastBody
<1>6. ASSUME NEW h \in Thread, Busy(h), BodyOf(h) = last
      PROVE  OnLastChange(h) /\ GroupAt(h) = g /\ provider'[g] = provider[g]
  <2>1. last.change <= Newest(last.group)
    BY <1>6 DEF Reading, Announced, GroupAt, BodyOf
  <2>2. BodyOf(h).change = Newest(g) /\ GroupAt(h) = g
    BY <1>4, <1>5, <1>6, <2>1 DEF GroupAt, BodyOf
  <2>. QED
    BY <1>2, <1>5, <1>6, <2>1, <2>2 DEF OnLastChange, KindAt
<1>7. ASSUME NEW d \in Delivery, receipt'[d].body = last
      PROVE  /\ provider'[g] = provider[g]
             /\ \/ Answered(g)
                \/ \E h \in Thread :
                     OnLastChange(h) /\ GroupAt(h) = g /\ \E R, t : Stores(h, R, t)
  <2>1. last \in Body
    <3>1. Newest(g)' >= 1
      BY AnnouncedStep DEF Announced
    <3>. QED
      BY <1>3, <1>4, <3>1 DEF Body
  <2>2. receipt'[d] # NoReceipt
    BY <1>7, <2>1, IngressAssumption DEF NoReceipt
  <2>3. CASE Copied(d)
    <3>1. PICK e \in Delivery : receipt[e] # NoReceipt /\ receipt[e].body = last
      BY <1>7, <2>3 DEF Copied
    <3>2. last.change <= Newest(last.group)
      BY <3>1 DEF Reading, Announced
    <3>3. last = LastBody(g) /\ provider'[g] = provider[g]
      BY <1>5, <3>2
    <3>4. Replayed(LastBody(g)) # {}
      BY <3>1, <3>3 DEF Replayed
    <3>. QED
      BY <1>2, <3>3, <3>4 DEF Answered
  <2>4. ASSUME NEW h \in Thread, FirstOf(d, h)
        PROVE  /\ OnLastChange(h) /\ GroupAt(h) = g /\ provider'[g] = provider[g]
               /\ \E R, t : Stores(h, R, t)
    <3>1. Busy(h) /\ BodyOf(h) = last
      BY <1>7, <2>4 DEF FirstOf
    <3>2. OnLastChange(h) /\ GroupAt(h) = g /\ provider'[g] = provider[g]
      BY <1>6, <3>1
    <3>3. KindAt(h) # "other"
      BY <3>2 DEF OnLastChange
    <3>4. \E R, t : Stores(h, R, t)
      BY <2>4, <3>3 DEF FirstOf, FirstReceipt
    <3>. QED
      BY <3>2, <3>4
  <2>. QED
    BY <2>2, <2>3, <2>4, ReceiptBodies
<1>8. ASSUME last \in refused'
      PROVE  /\ provider'[g] = provider[g]
             /\ \/ Answered(g)
                \/ \E h \in Thread :
                     /\ OnLastChange(h) /\ GroupAt(h) = g
                     /\ \E moved : Loses(h, moved) /\ ~moved /\ ~MayRetry(h)
  <2>1. CASE last \in refused
    <3>1. last.change <= Newest(last.group)
      BY <2>1 DEF Reading, Announced
    <3>. QED
      BY <1>2, <1>5, <2>1, <3>1 DEF Answered
  <2>2. CASE last \notin refused
    <3>0. PICK h \in Thread :
            \E m : Loses(h, m) /\ ~MayRetry(h) /\ ~m /\ BodyOf(h) = last
      BY <1>8, <2>2, RefusedStep
    <3>1. PICK moved : Loses(h, moved) /\ ~MayRetry(h) /\ ~moved /\ BodyOf(h) = last
      BY <3>0
    <3>2. Busy(h)
      BY <3>1, StepIsBusy
    <3>. QED
      BY <1>6, <3>1, <3>2
  <2>. QED
    BY <2>1, <2>2
<1>9. (\E d \in Delivery : receipt'[d].body = last) \/ last \in refused'
  BY <1>3 DEF Answered, Replayed, LastBody, Newest
<1>. QED
  BY <1>7, <1>8, <1>9

\* An answered group is at its last change, and stays there.
LEMMA AnsweredStep ==
  ASSUME Reading, Racing, AnsweredAtNewest, MaxAttempts >= 2,
         [IngressNext]_<<vars, ingressVars>>
  PROVE  AnsweredAtNewest'
<1> SUFFICES ASSUME NEW g \in Group, Answered(g)'
             PROVE  /\ accepted'[g] # << >>
                    /\ accepted'[g][Len(accepted'[g])].change = Newest(g)'
  BY DEF AnsweredAtNewest, Newest
<1>1. provider'[g] = provider[g] /\ Newest(g)' = Newest(g) /\ Newest(g) \in Nat
  BY AnsweredCases, Lengths DEF Reading, Newest
<1>2. accepted[g] \in Seq(Acceptance) /\ Len(accepted[g]) \in Nat
  BY Lengths DEF Reading
<1>3. ASSUME NEW h \in Thread, Stored(g, h), work[h].seen >= Newest(g)
      PROVE  /\ accepted'[g] # << >>
             /\ accepted'[g][Len(accepted'[g])].change = Newest(g)'
  <2>1. work[h].seen = Newest(g) /\ Len(accepted'[g]) = Len(accepted[g]) + 1
    BY <1>1, <1>3 DEF Stored
  <2>2. accepted'[g] # << >>
    BY <1>2, <2>1
  <2>. QED
    BY <1>1, <1>3, <2>1, <2>2 DEF Stored
<1>4. CASE Answered(g)
  <2>1. /\ accepted[g] # << >> /\ accepted[g][Len(accepted[g])].change = Newest(g)
        /\ Len(accepted[g]) \in 1..Len(accepted[g])
    BY <1>2, <1>4 DEF AnsweredAtNewest
  <2>2. ASSUME NEW h \in Thread, Stored(g, h) PROVE work[h].seen >= Newest(g)
    BY <2>1, <2>2 DEF Stored, Reading, InOrder, Holding
  <2>. QED
    BY <1>1, <1>3, <2>1, <2>2, AcceptedGrows
<1>5. ASSUME NEW h \in Thread, OnLastChange(h), GroupAt(h) = g, NEW R, NEW t,
             Stores(h, R, t)
      PROVE  /\ accepted'[g] # << >>
             /\ accepted'[g][Len(accepted'[g])].change = Newest(g)'
  <2>1. Busy(h) /\ Holding(h) /\ BodyOf(h).change = Newest(g)
    BY <1>5 DEF OnLastChange, Stores, Holding
  <2>2. work[h].seen >= Newest(g) /\ work[h].seen <= Newest(g) /\ work[h].seen \in Nat
    BY <1>1, <1>5, <2>1, BusyType DEF Reading, InOrder
  <2>3. /\ [change |-> work[h].seen, task |-> t] \in Acceptance
        /\ accepted'[GroupAt(h)] =
             Append(accepted[GroupAt(h)], [change |-> work[h].seen, task |-> t])
    BY <1>5, StoresEffect
  <2>4. PICK a \in Acceptance :
          a.change = work[h].seen /\ accepted'[g] = Append(accepted[g], a)
    BY <1>5, <2>3
  <2>5. accepted'[g] # << >> /\ accepted'[g][Len(accepted'[g])] = a
    BY <1>2, <2>4
  <2>. QED
    BY <1>1, <2>2, <2>4, <2>5
<1>6. ASSUME NEW h \in Thread, OnLastChange(h), GroupAt(h) = g, NEW moved,
             Loses(h, moved), ~moved, ~MayRetry(h)
      PROVE  /\ accepted'[g] # << >>
             /\ accepted'[g][Len(accepted'[g])].change = Newest(g)'
  <2>1. /\ accepted[g] # << >>
        /\ accepted[g][Len(accepted[g])].change = Newest(g)
    BY <1>6, RefusalIsCovered
  <2>2. accepted' = accepted
    BY <1>6 DEF Loses, Retry
  <2>. QED
    BY <1>1, <2>1, <2>2
<1>. QED
  BY <1>4, <1>5, <1>6, AnsweredCases

\* Once the delivery of the last change is answered, be it with a refusal that the
\* base branch had no part in, the newest version of its group shows what the
\* provider shows.  One attempt would not do: the refusal could be due to a thread
\* that read the provider before the last change.
THEOREM AnsweredGroupsAreCurrent ==
  MaxAttempts >= 2 => (IngressSpec => []AnsweredGroupIsCurrent)
<1> SUFFICES ASSUME MaxAttempts >= 2
             PROVE  IngressSpec => []AnsweredGroupIsCurrent
  OBVIOUS
<1>1. IngressInit => AnsweredAtNewest
  <2> SUFFICES ASSUME IngressInit, NEW g \in Group PROVE ~Answered(g)
    BY DEF AnsweredAtNewest
  <2>1. LastBody(g) \in Body /\ refused = {}
    BY DEF IngressInit, LastBody, Newest, Body
  <2>2. Replayed(LastBody(g)) = {}
    BY <2>1, IngressAssumption DEF IngressInit, Replayed, NoReceipt
  <2>. QED
    BY <2>1, <2>2 DEF Answered
<1>2. Reading /\ Racing /\ AnsweredAtNewest /\ [IngressNext]_<<vars, ingressVars>>
        => AnsweredAtNewest'
  BY AnsweredStep
<1>3. AnsweredAtNewest => AnsweredGroupIsCurrent
  BY DEF AnsweredAtNewest, AnsweredGroupIsCurrent, Answered, LastBody, Latest, Newest
<1>. QED
  BY <1>1, <1>2, <1>3, ReadingAlways, RacingAlways, PTL DEF IngressSpec

=============================================================================
