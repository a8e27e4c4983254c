---------------------------- MODULE EventIngress ----------------------------
(***************************************************************************)
(* katydid.events.GitHubIngress behind the threaded webhook server:        *)
(* provider deliveries arrive late, out of order, repeated under the same  *)
(* or another delivery ID, and several threads handle them at once.  Each  *)
(* thread reads the group version, then the provider's present state, then *)
(* stores; Store.ingest_event is one transaction that refuses a group      *)
(* version somebody else has advanced.                                     *)
(*                                                                         *)
(* The provider is the sequence of states a pull request, branch or tag    *)
(* has gone through; a signed body announces one change of it.  Tasks are  *)
(* those of TaskStore, and accepting a delivery is its Ingest.             *)
(***************************************************************************)
EXTENDS TaskStore

CONSTANTS
  Thread,      \* webhook request threads
  Delivery,    \* X-GitHub-Delivery values
  Sent,        \* the requests that may arrive, any number of times
  Kinds,       \* which kinds a group may be of
  MaxAttempts, \* MAX_RECONCILE_ATTEMPTS
  MaxChanges   \* bound: the provider does not change again

Kind == {"pull_request", "push", "release", "other"}
Body == [group : Group, change : Nat \ {0}]
Sha  == {"a", "b"}

\* What a read of the provider shows.  "open" says that there is something to
\* check: a pull request onto the base branch that is not closed, a tag that is
\* the current base.
Shown == [sha : Sha, open : BOOLEAN]

ASSUME IngressAssumption ==
  /\ Sent \subseteq [id : Delivery, body : Body]
  /\ Kinds \subseteq Kind
  /\ None \notin Delivery
  /\ None \notin Body
  /\ MaxAttempts \in Nat \ {0}
  /\ MaxChanges \in Nat

VARIABLES
  kind,      \* which event type the group belongs to
  provider,  \* the states each provider object has been in
  accepted,  \* event_task_groups: what each version of a group stands for
  receipt,   \* provider_deliveries, with the body its replay key stands for
  refused,   \* bodies answered 409 after losing every attempt to other deliveries
  work       \* what each thread is doing

ingressVars == <<kind, provider, accepted, receipt, refused, work>>

Ready      == [pc |-> "ready"]
Pc         == {"replay", "version", "read", "confirm", "store", "conflict"}
Handling   ==
  [pc : Pc, id : Delivery, body : Body, attempt : 0..MaxAttempts,
   version : Nat, seen : Nat, moved : BOOLEAN]
Acceptance == [change : Nat \ {0}, task : Task \cup {None}]
NoReceipt  == [body |-> None]
Receipt    == [body : Body, task : Task \cup {None}]

IngressTypeOK ==
  /\ TypeOK
  /\ kind \in [Group -> Kind]
  /\ provider \in [Group -> Seq(Shown)]
  /\ accepted \in [Group -> Seq(Acceptance)]
  /\ receipt \in [Delivery -> Receipt \cup {NoReceipt}]
  /\ refused \subseteq Body
  /\ work \in [Thread -> Handling \cup {Ready}]

IngressInit ==
  /\ Init
  /\ kind \in [Group -> Kinds]
  /\ provider = [g \in Group |-> <<[sha |-> "a", open |-> TRUE]>>]
  /\ accepted = [g \in Group |-> << >>]
  /\ receipt = [d \in Delivery |-> NoReceipt]
  /\ refused = {}
  /\ work = [h \in Thread |-> Ready]

-----------------------------------------------------------------------------
Latest(g)  == provider[g][Len(provider[g])]
BodyOf(h)  == work[h].body
GroupAt(h) == work[h].body.group
KindAt(h)  == kind[GroupAt(h)]

\* The row of provider_deliveries, and the one provider_replays leads to: every
\* receipt is stored together with its replay key.
Known(h)         == receipt[work[h].id] # NoReceipt
NeverReplayed(b) == {}                         \* slip: only delivery IDs count
Replayed(b)      == {d \in Delivery : receipt[d].body = b}
New(h)           == ~Known(h) /\ Replayed(BodyOf(h)) = {}

Become(h, pc) == work' = [work EXCEPT ![h].pc = pc]
Answer(h)     == work' = [work EXCEPT ![h] = Ready]
Look          == UNCHANGED <<vars, kind, provider, accepted, receipt, refused>>

-----------------------------------------------------------------------------
\* A request is authenticated and its body announces a change that has happened.
\* _duplicate answers a stored delivery from its receipt, or refuses the ID for
\* another body, without any change; a new delivery goes on.
Receive(h, m) ==
  /\ work[h] = Ready
  /\ m.body.change <= Len(provider[m.body.group])
  /\ receipt[m.id] = NoReceipt
  /\ work' = [work EXCEPT ![h] =
       [pc |-> "replay", id |-> m.id, body |-> m.body, attempt |-> 0,
        version |-> 0, seen |-> 0, moved |-> FALSE]]
  /\ Look

\* A new delivery of a stored body gets a receipt of its own for the same task.
Alias(h) ==
  \E d \in Replayed(BodyOf(h)) :
    /\ receipt' = [receipt EXCEPT ![work[h].id] = receipt[d]]
    /\ Answer(h)
    /\ UNCHANGED <<vars, kind, provider, accepted, refused>>

\* What ingest_event does first: an ID it has got by now is answered from its
\* receipt or refused, a stored body gets an alias.
Settle(h) ==
  \/ Known(h) /\ Answer(h) /\ Look
  \/ ~Known(h) /\ Alias(h)

\* _replay
Replay(h) ==
  /\ work[h].pc = "replay"
  /\ IF Replayed(BodyOf(h)) # {} THEN Settle(h) ELSE Become(h, "version") /\ Look

\* An event nobody asked for is stored without a group.
StoreIgnored(h) ==
  /\ work[h].pc = "version"
  /\ KindAt(h) = "other"
  /\ \/ Settle(h)
     \/ /\ New(h)
        /\ receipt' = [receipt EXCEPT ![work[h].id] = [body |-> BodyOf(h), task |-> None]]
        /\ Answer(h)
        /\ UNCHANGED <<vars, kind, provider, accepted, refused>>

\* group_version, before the provider is read
ReadVersion(h) ==
  /\ work[h].pc = "version"
  /\ KindAt(h) # "other"
  /\ work' = [work EXCEPT ![h].pc = "read", ![h].attempt = @ + 1,
                          ![h].version = Len(accepted[GroupAt(h)])]
  /\ Look

MayRetryOnce(h)  == work[h].attempt < 1            \* slip: one attempt is all
MayRetryAgain(h) == work[h].attempt <= MaxAttempts \* slip: off by one
MayRetry(h)      == work[h].attempt < MaxAttempts

\* The next attempt, or the answer 409.
Retry(h, moved) ==
  /\ IF MayRetry(h)
     THEN /\ work' = [work EXCEPT ![h].pc = "version", ![h].moved = moved]
          /\ UNCHANGED refused
     ELSE /\ Answer(h)
          /\ refused' = IF moved THEN refused ELSE refused \cup {BodyOf(h)}
  /\ UNCHANGED <<vars, kind, provider, accepted, receipt>>

\* build_payload.  A push must still be at the announced commit; a pull request is
\* read from the API first and, when it is open, compared with Git afterwards.
Pushed(h) == provider[GroupAt(h)][BodyOf(h).change].sha
ReadProvider(h) ==
  /\ work[h].pc = "read"
  /\ KindAt(h) = "push" => Latest(GroupAt(h)).sha = Pushed(h)
  /\ work' = [work EXCEPT
       ![h].seen = Len(provider[GroupAt(h)]),
       ![h].pc = IF KindAt(h) = "pull_request" /\ Latest(GroupAt(h)).open
                 THEN "confirm" ELSE "store"]
  /\ Look
PushedOver(h) ==
  /\ work[h].pc = "read"
  /\ KindAt(h) = "push"
  /\ Latest(GroupAt(h)).sha # Pushed(h)
  /\ Retry(h, work[h].moved)

Seen(h) == provider[GroupAt(h)][work[h].seen]

ConfirmRef(h) ==
  /\ work[h].pc = "confirm"
  /\ IF Seen(h).sha = Latest(GroupAt(h)).sha
     THEN Become(h, "store") /\ Look
     ELSE Retry(h, work[h].moved)

\* The base branch is compared as well.  It moves without a delivery for the pull
\* request, so such an attempt is lost to nobody who read the pull request later.
BaseMoved(h) == work[h].pc = "confirm" /\ Retry(h, TRUE)

\* ingest_event: a payload starts a task of the group, none only ends those there
\* are.  Both advance the version.
AnyVersion(h)    == TRUE                       \* slip: no expected version
VersionStands(h) == work[h].version = Len(accepted[GroupAt(h)])

Accept(h, R, t) ==
  /\ Ingest(GroupAt(h), R)
  /\ accepted' = [accepted EXCEPT ![GroupAt(h)] =
       Append(@, [change |-> work[h].seen, task |-> t])]
  /\ receipt' = [receipt EXCEPT ![work[h].id] = [body |-> BodyOf(h), task |-> t]]
  /\ Answer(h)
  /\ UNCHANGED <<kind, provider, refused>>

StoreEvent(h) ==
  /\ work[h].pc = "store"
  /\ \/ Settle(h)
     \/ New(h) /\ ~VersionStands(h) /\ Become(h, "conflict") /\ Look
     \/ /\ New(h) /\ VersionStands(h)
        /\ IF Seen(h).open THEN \E t \in Task : Accept(h, {t}, t)
                           ELSE Accept(h, {}, None)

\* After EventConflict the delivery may be known by now, else the attempt is lost.
Reconcile(h) ==
  /\ work[h].pc = "conflict"
  /\ IF Known(h) THEN Answer(h) /\ Look ELSE Retry(h, work[h].moved)

\* The GitHub query fails, or the server is stopped: nothing was stored.
Abort(h) == work[h] # Ready /\ Answer(h) /\ Look

Change(g, s) ==
  /\ Len(provider[g]) <= MaxChanges
  /\ s # Latest(g)
  /\ kind[g] = "push" => s.open
  /\ provider' = [provider EXCEPT ![g] = Append(@, s)]
  /\ UNCHANGED <<vars, kind, accepted, receipt, refused, work>>

\* Of what happens to tasks meanwhile only parking matters here: a parked task is
\* superseded as well, and parks its replacement.  TaskStore has the rest.
Park(t) == Pause(t) /\ UNCHANGED ingressVars

IngressNext ==
  \/ \E h \in Thread :
       \/ \E m \in Sent : Receive(h, m)
       \/ Replay(h) \/ StoreIgnored(h) \/ ReadVersion(h)
       \/ ReadProvider(h) \/ PushedOver(h) \/ ConfirmRef(h) \/ BaseMoved(h)
       \/ StoreEvent(h) \/ Reconcile(h) \/ Abort(h)
  \/ \E g \in Group, s \in Shown : Change(g, s)
  \/ \E t \in Task : Park(t)

IngressSpec == IngressInit /\ [][IngressNext]_<<vars, ingressVars>>

-----------------------------------------------------------------------------
\* ORCHESTRATION.md: "changing the unsigned delivery-ID header cannot enqueue the
\* same signed payload again".  However its deliveries race, a body stands for one
\* task, or for none.
OneTaskPerBody ==
  \A d, e \in Delivery :
    receipt[d] # NoReceipt /\ receipt[d].body = receipt[e].body => receipt[d] = receipt[e]

\* "prevents an older delivery from winning a race with current provider state":
\* the versions of a group never go back to an earlier state of the provider.
NewestStateWins ==
  \A g \in Group : \A i, j \in 1..Len(accepted[g]) :
    i < j => accepted[g][i].change <= accepted[g][j].change

\* A task that is still open stands for the newest version of its group: nothing
\* works on a state that was closed, retargeted or pushed over.
OpenTaskIsNewest ==
  \A t \in Task :
    GroupOf[t] # None /\ state[t] \notin Terminal \cup {"absent"} =>
      LET a == accepted[GroupOf[t]] IN a # << >> /\ a[Len(a)].task = t

\* Once the delivery of the last change is answered, even with a refusal that
\* the base branch had no part in, the
\* newest version of its group shows what the provider shows: whoever won the
\* races that used up its attempts had read the last change as well.
AnsweredGroupIsCurrent ==
  \A g \in Group :
    LET a    == accepted[g]
        last == [group |-> g, change |-> Len(provider[g])]
    IN  kind[g] \in {"pull_request", "push"} /\ (Replayed(last) # {} \/ last \in refused) =>
          /\ a # << >>
          /\ provider[g][a[Len(a)].change].open = Latest(g).open
          /\ Latest(g).open => provider[g][a[Len(a)].change].sha = Latest(g).sha

=============================================================================
