---------------------------- MODULE CommentOutbox ----------------------------
(***************************************************************************)
(* katydid.reporting: the report of one task on its pull request.  Every   *)
(* process that runs a reporter (the service, a worker started by hand)    *)
(* shares the outbox, a row of github-comments.db.  collect renders the    *)
(* task into the row; tick claims a due row by a lock that ends after a    *)
(* time, talks to GitHub without holding any transaction, and stores what  *)
(* came of it by task ID, without looking at its lock again.               *)
(*                                                                         *)
(* A body is a rendering of the task; the same rendering may come back, as *)
(* when a task is paused and resumed.  Time is counted in the timeout of   *)
(* one request (20 s); only requests take time.  The pause before a row is *)
(* due again is not counted, so its backoff is left out, as are other      *)
(* tasks, comments of other people and what a body says.                   *)
(***************************************************************************)
EXTENDS Naturals, FiniteSets

CONSTANTS
  Reporter,   \* processes that run a CommentReporter
  Body,       \* renderings of the task
  None,       \* no body, no comment
  PageLimit,  \* pages of comments that are searched
  LockTime,   \* how long a claim lasts
  MaxFaults,  \* bound: requests that fail, answers lost, deaths, deletions
  MaxChanges  \* bound: changes of the task, of the head, of policy and target

\* The notice that replaces the results when the head has moved on.
Superseded == "superseded"

ASSUME OutboxAssumption ==
  /\ Body # {} /\ None \notin Body /\ Superseded \notin Body
  /\ {PageLimit, LockTime, MaxFaults, MaxChanges} \subseteq Nat
  \* Two reads of the pull request, the user, the pages, and the write.
  /\ LockTime > PageLimit + 4

VARIABLES
  task,      \* what collect would render now
  policy,    \* the policy file is the one the controller was started with
  target,    \* the task still has the target of the row, and comments are enabled
  head,      \* the head of the pull request is the one the task tested
  row,       \* reports: its row, or NoRow
  work,      \* what each reporter is doing
  comments,  \* owned comments with the marker: ID -> body
  crowded,   \* the discussion has outgrown the pages that are searched
  astray,    \* the comment is not what the row has sent: an answer was lost, the
             \* comment was deleted, or the notice was sent in place of the results
  faults,    \* faults so far
  changes    \* changes so far

vars  == <<task, policy, target, head, crowded, row, work, comments, astray, faults, changes>>
world == <<task, policy, target, head, crowded, changes>>

NoRow == [state |-> "absent", lock |-> 0]
Row ==
  [state : {"pending", "retrying", "posted", "superseded", "disabled"},
   body : Body, sent : Body \cup {None}, due : BOOLEAN, lock : 0..LockTime]

Requests == {"pull", "user", "list", "latest", "write"}

\* "seen": the owned comments that were listed; "waited": the request that is
\* under way has used up its time.
Ready == [pc |-> "ready"]

\* Types.  A search ends at the page limit, and only a claimed row is reported.
OutboxTypeOK ==
  /\ task \in Body
  /\ {policy, target, head, crowded, astray} \subseteq BOOLEAN
  /\ row \in Row \cup {NoRow}
  /\ \A p \in Reporter : work[p] # Ready =>
       /\ work[p].pc \in Requests \cup {"claim", "check", "store"}
       /\ work[p].body \in Body \cup {None}
       /\ work[p].page \in 0..PageLimit
       /\ {work[p].superseded, work[p].waited} \subseteq BOOLEAN
       /\ work[p].pc # "claim" => row # NoRow
  /\ \A c \in DOMAIN comments : comments[c] \in Body \cup {Superseded}
  /\ faults \in 0..MaxFaults /\ changes \in 0..MaxChanges

OutboxInit ==
  /\ task = CHOOSE b \in Body : TRUE
  /\ policy = TRUE /\ target = TRUE /\ head = TRUE /\ crowded = FALSE
  /\ row = NoRow
  /\ work = [p \in Reporter |-> Ready]
  /\ comments = << >>
  /\ astray = FALSE
  /\ faults = 0 /\ changes = 0

-----------------------------------------------------------------------------
Pc(p, pc) == work[p].pc = pc
Step(p, r) == work' = [work EXCEPT ![p] = r]
Goto(p, pc) == Step(p, [work[p] EXCEPT !.pc = pc, !.waited = FALSE])
Done(p) == Step(p, Ready)
Fault == faults < MaxFaults /\ faults' = faults + 1
Calm == UNCHANGED faults

\* tick begins with collect: the row gets the present body and is pending again,
\* unless it has been superseded.
Rendered ==
  IF row = NoRow
  THEN [state |-> "pending", body |-> task, sent |-> None, due |-> TRUE, lock |-> 0]
  ELSE [row EXCEPT
          !.body = task,
          !.state = IF row.body # task /\ @ # "superseded" THEN "pending" ELSE @]
Collect(p) ==
  /\ work[p] = Ready
  /\ policy
  /\ row' = IF target THEN Rendered ELSE row
  /\ Step(p, [pc |-> "claim", body |-> None, superseded |-> FALSE, page |-> 0,
              seen |-> << >>, waited |-> FALSE])
  /\ UNCHANGED <<world, comments, astray>> /\ Calm

\* One immediate transaction selects a due row and locks it.
Due ==
  /\ row # NoRow
  /\ row.body # row.sent
  /\ row.state \notin {"superseded", "disabled"}
  /\ row.due /\ row.lock = 0
HalfLock == LockTime \div 2                \* slip: the lock ends before the requests
ClaimTime == LockTime
Claim(p) ==
  /\ Pc(p, "claim")
  /\ IF Due
     THEN /\ row' = [row EXCEPT !.lock = ClaimTime]
          /\ Step(p, [work[p] EXCEPT !.pc = "check", !.body = row.body])
     ELSE Done(p) /\ UNCHANGED row
  /\ UNCHANGED <<world, comments, astray>> /\ Calm

\* The handler of tick: whatever failed is tried again.
Retry(p) ==
  /\ row' = [row EXCEPT !.state = "retrying", !.due = FALSE, !.lock = 0]
  /\ Done(p)

\* Policy and target are looked at once more before GitHub is asked.
CheckTarget(p) ==
  /\ Pc(p, "check")
  /\ IF ~policy THEN Retry(p)
     ELSE IF target THEN Goto(p, "pull") /\ UNCHANGED row
     ELSE row' = [row EXCEPT !.state = "disabled", !.lock = 0] /\ Done(p)
  /\ UNCHANGED <<world, comments, astray>> /\ Calm

-----------------------------------------------------------------------------
\* upsert, one request after another.
ReadPull(p) ==
  /\ Pc(p, "pull")
  /\ Step(p, [work[p] EXCEPT !.pc = "user", !.superseded = ~head, !.waited = FALSE])
  /\ UNCHANGED <<world, row, comments, astray>> /\ Calm
ReadUser(p) ==
  /\ Pc(p, "user")
  /\ Goto(p, "list")
  /\ UNCHANGED <<world, row, comments, astray>> /\ Calm

\* A page that is not full ends the search; by then the owned comments were seen.
OneMorePage(p) == work[p].page <= PageLimit \* slip: a page beyond the limit
MorePages(p)   == work[p].page < PageLimit
Search(p) ==
  /\ Pc(p, "list") /\ MorePages(p)
  /\ LET page == work[p].page + 1
         read == [work[p] EXCEPT !.page = page, !.waited = FALSE]
     IN  \/ /\ ~crowded
            /\ Step(p, [read EXCEPT !.seen = comments, !.pc = "latest"])
         \/ /\ crowded \/ page < PageLimit
            /\ Step(p, read)
  /\ UNCHANGED <<world, row, comments, astray>> /\ Calm
\* "Comment discovery exceeded 1000 comments; refusing duplicate creation".
SearchEnds(p) ==
  /\ Pc(p, "list") /\ ~MorePages(p)
  /\ Retry(p)
  /\ UNCHANGED <<world, comments, astray>> /\ Calm

\* The pull request and the policy are read again.  A superseded report without a
\* comment needs none; a comment that says so already is not written.
ResultsAnyway(p) == work[p].body           \* slip: the results stay on a moved head
Text(p) == IF work[p].superseded THEN Superseded ELSE work[p].body
Latest(p) ==
  /\ Pc(p, "latest")
  /\ LET r == [work[p] EXCEPT !.superseded = @ \/ ~head, !.waited = FALSE]
         gone == r.superseded /\ r.seen = << >>
     IN  IF Cardinality(DOMAIN r.seen) > 1 \/ ~policy THEN Retry(p)
         ELSE /\ Step(p, [r EXCEPT !.pc = IF gone THEN "store" ELSE "write"])
              /\ UNCHANGED row
  /\ UNCHANGED <<world, comments, astray>> /\ Calm

\* PATCH the comment that was found, or POST one.  A comment that already said so
\* when it was listed costs no request; one deleted since cannot be patched.
Fresh == CHOOSE n \in 1..Cardinality(DOMAIN comments) + 1 : n \notin DOMAIN comments
Said(p)    == \E c \in DOMAIN work[p].seen : work[p].seen[c] = Text(p)
Missing(p) == ~Said(p) /\ ~(DOMAIN work[p].seen \subseteq DOMAIN comments)
Written(p) ==
  LET at == IF work[p].seen = << >> THEN {Fresh} ELSE DOMAIN work[p].seen
  IN  [n \in DOMAIN comments \cup at |-> IF n \in at THEN Text(p) ELSE comments[n]]
Write(p) ==
  /\ Pc(p, "write")
  /\ \/ Said(p) /\ Goto(p, "store") /\ Calm /\ UNCHANGED <<row, comments, astray>>
     \/ Missing(p) /\ Retry(p) /\ Calm /\ UNCHANGED <<comments, astray>>
     \/ /\ ~Said(p) /\ ~Missing(p)
        /\ comments' = Written(p)
        /\ \/ Goto(p, "store") /\ Calm /\ UNCHANGED <<row, astray>>
           \/ Retry(p) /\ Fault /\ astray' = TRUE           \* the answer is lost
  /\ UNCHANGED world

\* The result is stored for the body that was claimed; a newer one is pending.
StorePresent(p) == row.body                \* slip: the row's body, whatever was sent
StoredBody(p)   == work[p].body
Store(p) ==
  /\ Pc(p, "store")
  /\ row' = [row EXCEPT
       !.sent = StoredBody(p),
       !.state = IF row.body # work[p].body THEN "pending"
                 ELSE IF work[p].superseded THEN "superseded" ELSE "posted",
       !.due = FALSE, !.lock = 0]
  /\ astray' = (work[p].superseded \/ (astray /\ comments = << >>))
  /\ Done(p)
  /\ UNCHANGED <<world, comments>> /\ Calm

\* A request fails without effect.
RequestFails(p) ==
  /\ work[p].pc \in Requests
  /\ Retry(p) /\ Fault
  /\ UNCHANGED <<world, comments, astray>>

-----------------------------------------------------------------------------
\* A request that is under way takes at most one unit.
TimePasses ==
  /\ row # NoRow /\ row.lock > 0
  /\ \A p \in Reporter : work[p].pc \in Requests => ~work[p].waited
  /\ \A p \in Reporter : work[p].pc \notin {"check", "store"}
  /\ row' = [row EXCEPT !.lock = @ - 1]
  /\ work' = [p \in Reporter |->
       IF work[p].pc \in Requests THEN [work[p] EXCEPT !.waited = TRUE] ELSE work[p]]
  /\ UNCHANGED <<world, comments, astray>> /\ Calm
BecomesDue ==
  /\ row # NoRow /\ ~row.due
  /\ row' = [row EXCEPT !.due = TRUE]
  /\ UNCHANGED <<world, work, comments, astray>> /\ Calm

Die(p) ==
  /\ work[p] # Ready
  /\ Fault
  /\ astray' = (astray \/ Pc(p, "store"))
  /\ Done(p)
  /\ UNCHANGED <<world, row, comments>>
Delete(c) ==
  /\ Fault
  /\ comments' = [n \in DOMAIN comments \ {c} |-> comments[n]]
  /\ astray' = TRUE
  /\ UNCHANGED <<world, row, work>>

Change ==
  /\ changes < MaxChanges
  /\ changes' = changes + 1
  /\ \/ task' \in Body \ {task} /\ UNCHANGED <<policy, target, head, crowded>>
     \/ head' = ~head /\ UNCHANGED <<task, policy, target, crowded>>
     \/ target /\ target' = FALSE /\ UNCHANGED <<task, policy, head, crowded>>
     \/ policy /\ policy' = FALSE /\ UNCHANGED <<task, target, head, crowded>>
     \/ ~crowded /\ crowded' = TRUE /\ UNCHANGED <<task, policy, target, head>>
  /\ UNCHANGED <<row, work, comments, astray, faults>>

ReporterStep(p) ==
  \/ Collect(p) \/ Claim(p) \/ CheckTarget(p) \/ ReadPull(p) \/ ReadUser(p)
  \/ Search(p) \/ SearchEnds(p) \/ Latest(p) \/ Write(p) \/ Store(p)

OutboxNext ==
  \/ \E p \in Reporter : ReporterStep(p) \/ RequestFails(p) \/ Die(p)
  \/ \E c \in DOMAIN comments : Delete(c)
  \/ TimePasses \/ BecomesDue \/ Change

\* CommentReporter.run calls tick again and again, whatever it raises.
OutboxSpec ==
  /\ OutboxInit /\ [][OutboxNext]_vars
  /\ \A p \in Reporter : WF_vars(ReporterStep(p))
  /\ WF_vars(TimePasses) /\ WF_vars(BecomesDue)

-----------------------------------------------------------------------------
\* A task has one comment of ours at most: a lost answer is recovered by finding
\* the comment, a claim outlasts the requests of its report, and what searches too
\* little creates nothing.  And once the row says superseded, which is final, the
\* comment does not show results any more.
OneHonestComment ==
  /\ Cardinality(DOMAIN comments) <= 1
  /\ row.state = "superseded" =>
       \A c \in DOMAIN comments : comments[c] = Superseded

\* Whatever the task comes to, the comment shows it in the end, or the report has
\* stopped for a reason: the head moved on, the task lost its target, the policy
\* changed, or the discussion is too long to search.  What the row believes to have
\* sent is not sent again, although the comment may have gone astray since.
Shown   == \E c \in DOMAIN comments : comments[c] = task
Stopped ==
  \/ row.state \in {"superseded", "disabled"}
  \/ ~policy \/ ~target \/ crowded
Misled  == astray /\ row # NoRow /\ row.sent = task
ReportCatchesUp == []<>(Shown \/ Stopped \/ Misled)
=============================================================================
