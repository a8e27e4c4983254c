---------------------------- MODULE OutboxProofs ----------------------------
(***************************************************************************)
(* Theorems about CommentOutbox for every set of reporters and renderings, *)
(* and every page limit, whatever fails.                                   *)
(*                                                                         *)
(* Nothing checks a lock when a report ends.  That a task never gets two   *)
(* comments rests on time: a claim lasts longer than all the requests of   *)
(* one report, so whoever reports is alone while it does, and what it has  *)
(* seen of the comments is out of date only by what was deleted since.     *)
(***************************************************************************)
EXTENDS CommentOutbox, FiniteSetTheorems, TLAPS

Busy(p) == work[p] # Ready

\* From the claim on, until the result is stored.
Holding(p) == Busy(p) /\ work[p].pc # "claim"

\* The jobs with this list of comments in hand.
JobSeeing(seen) ==
  [pc : Requests \cup {"claim", "check", "store"}, body : Body \cup {None},
   superseded : BOOLEAN, page : 0..PageLimit, seen : {seen}, waited : BOOLEAN]

\* The time a report may have taken: the requests it has made, and the one under
\* way if that has been waited for.
Made(pc, page) ==
  CASE pc = "user"                -> 1
    [] pc \in {"list", "latest"}  -> 2 + page
    [] pc = "write"               -> 3 + page
    [] pc = "store"               -> 4 + page
    [] OTHER                      -> 0
Spent(p) == Made(work[p].pc, work[p].page) + (IF work[p].waited THEN 1 ELSE 0)

\* What a reporter has in hand.
Shape(p) ==
  Busy(p) =>
    /\ work[p] \in JobSeeing(work[p].seen)
    /\ work[p].pc \in {"claim", "check", "store"} => ~work[p].waited

\* Its claim still stands, on a row that has not been superseded.
Claimed(p) ==
  Holding(p) =>
    /\ work[p].body \in Body
    /\ row # NoRow /\ row.state # "superseded"
    /\ row.lock + Spent(p) >= LockTime

Single(S)     == \A a, b \in S : a = b
AllSuperseded == \A c \in DOMAIN comments : comments[c] = Superseded

\* After its search it knows every comment there is, and when it is about to store
\* that the report is superseded the comment says so.
Knows(p) ==
  Busy(p) =>
    /\ work[p].pc \in {"latest", "write"} =>
         /\ Single(DOMAIN work[p].seen)
         /\ \A c \in DOMAIN comments :
              c \in DOMAIN work[p].seen /\ comments[c] = work[p].seen[c]
    /\ work[p].pc = "store" /\ work[p].superseded => AllSuperseded

Alone == \A p, q \in Reporter : Holding(p) /\ Holding(q) => p = q

Reporters ==
  /\ work = [p \in Reporter |-> work[p]]
  /\ \A p \in Reporter : Shape(p) /\ Claimed(p) /\ Knows(p)

OutboxInv ==
  /\ OutboxTypeOK
  /\ Reporters
  /\ Alone
  /\ Single(DOMAIN comments)
  /\ row.state = "superseded" => AllSuperseded

-----------------------------------------------------------------------------
\* The numbers.
LEMMA Numbers == PageLimit \in Nat /\ LockTime \in Nat /\ LockTime > PageLimit + 4
BY OutboxAssumption

\* What is known of a reporter at work.
LEMMA JobType ==
  ASSUME OutboxInv, NEW p \in Reporter, Busy(p)
  PROVE  /\ work[p] \in JobSeeing(work[p].seen)
         /\ work[p].pc \in Requests \cup {"claim", "check", "store"}
         /\ work[p].page \in 0..PageLimit /\ work[p].body \in Body \cup {None}
         /\ work[p].superseded \in BOOLEAN /\ work[p].waited \in BOOLEAN
         /\ work[p].pc \in {"claim", "check", "store"} => ~work[p].waited
         /\ Holding(p) =>
              row \in Row /\ row # NoRow /\ work[p].body \in Body /\ row.lock \in Nat
<1>1. row # NoRow => row \in Row
  BY DEF OutboxInv, OutboxTypeOK
<1>2. row \in Row => row.lock \in Nat
  BY Numbers DEF Row
<1>3. Shape(p) /\ Claimed(p)
  BY DEF OutboxInv, Reporters
<1>4. /\ work[p] \in JobSeeing(work[p].seen)
      /\ work[p].pc \in {"claim", "check", "store"} => ~work[p].waited
  BY <1>3 DEF Shape
<1>5. Holding(p) => row # NoRow /\ work[p].body \in Body
  BY <1>3 DEF Claimed
<1>. QED
  BY <1>1, <1>2, <1>4, <1>5 DEF JobSeeing

\* Requests take less time than a claim lasts.
LEMMA SpentBound ==
  ASSUME OutboxInv, NEW p \in Reporter, Busy(p)
  PROVE  Spent(p) \in 0..(PageLimit + 4)
<1>1. CASE work[p].pc \in {"claim", "check", "store"}
  BY <1>1, JobType, Numbers DEF Spent, Made
<1>2. CASE work[p].pc \in Requests
  <2>1. work[p].page \in 0..PageLimit
    BY JobType
  <2>2. Made(work[p].pc, work[p].page) \in 0..(PageLimit + 3)
    BY <1>2, <2>1, Numbers DEF Made, Requests
  <2>. QED
    BY <2>2, Numbers DEF Spent
<1>. QED
  BY <1>1, <1>2, JobType

\* Whoever reports still has its lock.
LEMMA LockStands ==
  ASSUME OutboxInv, NEW p \in Reporter, Holding(p)
  PROVE  row \in Row /\ row # NoRow /\ row.lock > 0 /\ row.state # "superseded"
<1>1. Spent(p) \in 0..(PageLimit + 4) /\ Busy(p)
  BY SpentBound DEF Holding
<1>2. row.lock + Spent(p) >= LockTime /\ row.state # "superseded"
  BY DEF OutboxInv, Reporters, Claimed
<1>. QED
  BY <1>1, <1>2, JobType, Numbers

-----------------------------------------------------------------------------
\* The kinds of steps of a reporter.  It leaves without a trace, gives its claim
\* up, or goes on to its next request.
Leaves(p) == Busy(p) /\ Done(p) /\ UNCHANGED <<row, comments>>

WritesOver(p) == Pc(p, "write") /\ comments' = Written(p)

GivesUp(p) ==
  /\ Holding(p) /\ Done(p)
  /\ \/ row' = [row EXCEPT !.state = "retrying", !.due = FALSE, !.lock = 0]
     \/ row' = [row EXCEPT !.state = "disabled", !.lock = 0]
  /\ UNCHANGED comments \/ WritesOver(p)

Claims(p) ==
  /\ Pc(p, "claim") /\ Due
  /\ row' = [row EXCEPT !.lock = LockTime]
  /\ Step(p, [work[p] EXCEPT !.pc = "check", !.body = row.body])
  /\ UNCHANGED comments

\* The job it goes on with, for the same body.
Goes(p, pc, superseded, page, seen) ==
  /\ Holding(p) /\ UNCHANGED row
  /\ \E j \in JobSeeing(seen) :
       /\ Step(p, j) /\ j.pc = pc /\ j.body = work[p].body /\ ~j.waited
       /\ j.superseded = superseded /\ j.page = page

Asks(p) ==
  /\ UNCHANGED comments
  /\ \/ Pc(p, "check") /\ Goes(p, "pull", work[p].superseded, work[p].page, work[p].seen)
     \/ /\ Pc(p, "pull")
        /\ \E s \in BOOLEAN : Goes(p, "user", s, work[p].page, work[p].seen)
     \/ Pc(p, "user") /\ Goes(p, "list", work[p].superseded, work[p].page, work[p].seen)
     \/ /\ Pc(p, "list") /\ MorePages(p)
        /\ \/ Goes(p, "list", work[p].superseded, work[p].page + 1, work[p].seen)
           \/ Goes(p, "latest", work[p].superseded, work[p].page + 1, comments)

Prepares(p) ==
  /\ Pc(p, "latest") /\ UNCHANGED comments
  /\ \E superseded \in BOOLEAN, pc \in {"write", "store"} :
       /\ Goes(p, pc, superseded, work[p].page, work[p].seen)
       /\ pc = "store" /\ superseded => work[p].seen = << >>

Finishes(p) ==
  /\ Pc(p, "write")
  /\ Goes(p, "store", work[p].superseded, work[p].page, work[p].seen)
  /\ (Said(p) /\ UNCHANGED comments) \/ WritesOver(p)

\* A request done: the next one follows, and what it brought is kept.
LEMMA GoesPlain ==
  ASSUME OutboxInv, NEW p \in Reporter, Holding(p), UNCHANGED row,
         NEW pc \in Requests \cup {"store"}, Goto(p, pc)
  PROVE  Goes(p, pc, work[p].superseded, work[p].page, work[p].seen)
<1>1. work[p] \in JobSeeing(work[p].seen)
  BY JobType DEF Holding
<1>2. PICK j : j = [work[p] EXCEPT !.pc = pc, !.waited = FALSE]
  OBVIOUS
<1>3. j \in JobSeeing(work[p].seen)
  BY <1>1, <1>2 DEF JobSeeing
<1>4. /\ j.pc = pc /\ j.body = work[p].body /\ ~j.waited
      /\ j.superseded = work[p].superseded /\ j.page = work[p].page
  BY <1>1, <1>2 DEF JobSeeing
<1>5. Step(p, j)
  BY <1>2 DEF Goto
<1>. QED
  BY <1>3, <1>4, <1>5 DEF Goes

\* A request that says whether the head is the tested one.
LEMMA GoesJudging ==
  ASSUME OutboxInv, NEW p \in Reporter, Holding(p), UNCHANGED row,
         NEW pc \in Requests \cup {"store"}, NEW s \in BOOLEAN, NEW r, NEW j,
         r = [work[p] EXCEPT !.superseded = s, !.waited = FALSE], j = [r EXCEPT !.pc = pc],
         Step(p, j)
  PROVE  Goes(p, pc, s, work[p].page, work[p].seen)
<1>1. work[p] \in JobSeeing(work[p].seen)
  BY JobType DEF Holding
<1>2. r \in JobSeeing(work[p].seen)
  BY <1>1 DEF JobSeeing
<1>3. r.body = work[p].body /\ ~r.waited /\ r.superseded = s /\ r.page = work[p].page
  BY <1>1 DEF JobSeeing
<1>4. j \in JobSeeing(work[p].seen)
  BY <1>2 DEF JobSeeing
<1>5. /\ j.pc = pc /\ j.body = work[p].body /\ ~j.waited
      /\ j.superseded = s /\ j.page = work[p].page
  BY <1>2, <1>3 DEF JobSeeing
<1>. QED
  BY <1>4, <1>5 DEF Goes

\* A page read: the search goes on, or ends with what it has seen.
LEMMA GoesSearching ==
  ASSUME OutboxInv, NEW p \in Reporter, Holding(p), UNCHANGED row, work[p].pc = "list",
         MorePages(p), NEW r,
         r = [work[p] EXCEPT !.page = work[p].page + 1, !.waited = FALSE]
  PROVE  /\ Step(p, r)
              => Goes(p, "list", work[p].superseded, work[p].page + 1, work[p].seen)
         /\ \A seen : Step(p, [r EXCEPT !.seen = seen, !.pc = "latest"])
              => Goes(p, "latest", work[p].superseded, work[p].page + 1, seen)
<1>1. work[p] \in JobSeeing(work[p].seen) /\ work[p].page \in 0..PageLimit
  BY JobType DEF Holding
<1>2. work[p].page + 1 \in 0..PageLimit
  BY <1>1, Numbers DEF MorePages
<1>3. r \in JobSeeing(work[p].seen)
  BY <1>1, <1>2 DEF JobSeeing
<1>4. /\ r.pc = "list" /\ r.body = work[p].body /\ ~r.waited
      /\ r.superseded = work[p].superseded /\ r.page = work[p].page + 1
  BY <1>1 DEF JobSeeing
<1>5. ASSUME NEW seen, NEW j, j = [r EXCEPT !.seen = seen, !.pc = "latest"]
      PROVE  /\ j \in JobSeeing(seen)
             /\ j.pc = "latest" /\ j.body = work[p].body /\ ~j.waited
             /\ j.superseded = work[p].superseded /\ j.page = work[p].page + 1
  <2>1. j \in JobSeeing(seen)
    BY <1>3, <1>5 DEF JobSeeing, Requests
  <2>2. /\ j.pc = "latest" /\ j.body = work[p].body /\ ~j.waited
        /\ j.superseded = work[p].superseded /\ j.page = work[p].page + 1
    BY <1>3, <1>4, <1>5 DEF JobSeeing
  <2>. QED
    BY <2>1, <2>2
<1>6. Step(p, r) => Goes(p, "list", work[p].superseded, work[p].page + 1, work[p].seen)
  BY <1>3, <1>4 DEF Goes
<1>7. ASSUME NEW seen, Step(p, [r EXCEPT !.seen = seen, !.pc = "latest"])
      PROVE  Goes(p, "latest", work[p].superseded, work[p].page + 1, seen)
  BY <1>5, <1>7 DEF Goes
<1>. QED
  BY <1>6, <1>7

\* Places of a report are places of its holder.
LEMMA PlaceHolds ==
  ASSUME NEW p \in Reporter, work[p].pc \in Requests \cup {"check", "store"}
  PROVE  Holding(p) /\ Busy(p)
BY DEF Holding, Busy, Ready, Requests

\* Every step is of one of these kinds.
LEMMA OutboxSteps ==
  ASSUME OutboxInv, [OutboxNext]_vars
  PROVE  \/ \E p \in Reporter :
              \/ Collect(p) \/ Leaves(p) \/ GivesUp(p) \/ Claims(p)
              \/ Asks(p) \/ Prepares(p) \/ Finishes(p) \/ Store(p)
         \/ \E c \in DOMAIN comments : Delete(c)
         \/ TimePasses \/ BecomesDue \/ Change
         \/ UNCHANGED vars
<1> USE DEF Requests
<1>1. ASSUME NEW p \in Reporter, Claim(p) PROVE Claims(p) \/ Leaves(p)
  <2>1. Busy(p)
    BY <1>1 DEF Claim, Pc, Busy, Ready
  <2>. QED
    BY <1>1, <2>1 DEF Claim, Claims, Leaves, ClaimTime
<1>2. ASSUME NEW p \in Reporter, CheckTarget(p) PROVE GivesUp(p) \/ Asks(p)
  <2>1. Holding(p) /\ Pc(p, "check") /\ UNCHANGED comments
    BY <1>2, PlaceHolds DEF CheckTarget, Pc
  <2>2. CASE Goto(p, "pull") /\ UNCHANGED row
    BY <2>1, <2>2, GoesPlain DEF Asks
  <2>3. CASE ~(Goto(p, "pull") /\ UNCHANGED row)
    BY <1>2, <2>1, <2>3 DEF CheckTarget, Retry, GivesUp
  <2>. QED
    BY <2>2, <2>3
<1>3. ASSUME NEW p \in Reporter, ReadPull(p) PROVE Asks(p)
  <2>1. Holding(p) /\ Pc(p, "pull") /\ UNCHANGED <<row, comments>>
    BY <1>3, PlaceHolds DEF ReadPull, Pc
  <2>2. PICK s \in BOOLEAN : s = ~head
    OBVIOUS
  <2>3. work[p] \in JobSeeing(work[p].seen)
    BY <2>1, JobType DEF Holding
  <2>4. PICK j : j = [work[p] EXCEPT !.pc = "user", !.superseded = s, !.waited = FALSE]
    OBVIOUS
  <2>5. j \in JobSeeing(work[p].seen)
    BY <2>3, <2>4 DEF JobSeeing
  <2>6. /\ j.pc = "user" /\ j.body = work[p].body /\ ~j.waited
        /\ j.superseded = s /\ j.page = work[p].page
    BY <2>3, <2>4 DEF JobSeeing
  <2>7. Step(p, j)
    BY <1>3, <2>2, <2>4 DEF ReadPull
  <2>8. Goes(p, "user", s, work[p].page, work[p].seen)
    BY <2>1, <2>5, <2>6, <2>7 DEF Goes
  <2>. QED
    BY <2>1, <2>8 DEF Asks
<1>4. ASSUME NEW p \in Reporter, ReadUser(p) PROVE Asks(p)
  <2>1. Holding(p) /\ Pc(p, "user") /\ UNCHANGED <<row, comments>>
    BY <1>4, PlaceHolds DEF ReadUser, Pc
  <2>. QED
    BY <1>4, <2>1, GoesPlain DEF ReadUser, Asks
<1>5. ASSUME NEW p \in Reporter, Search(p) PROVE Asks(p)
  <2>1. Holding(p) /\ work[p].pc = "list" /\ UNCHANGED <<row, comments>> /\ MorePages(p)
    BY <1>5, PlaceHolds DEF Search, Pc
  <2>2. PICK r : r = [work[p] EXCEPT !.page = work[p].page + 1, !.waited = FALSE]
    OBVIOUS
  <2>3. Step(p, r) \/ Step(p, [r EXCEPT !.seen = comments, !.pc = "latest"])
    BY <1>5, <2>2 DEF Search
  <2>4. \/ Goes(p, "list", work[p].superseded, work[p].page + 1, work[p].seen)
        \/ Goes(p, "latest", work[p].superseded, work[p].page + 1, comments)
    BY <2>1, <2>2, <2>3, GoesSearching
  <2>. QED
    BY <2>1, <2>4 DEF Asks, Pc
<1>6. ASSUME NEW p \in Reporter, SearchEnds(p) PROVE GivesUp(p)
  BY <1>6, PlaceHolds DEF SearchEnds, Pc, Retry, GivesUp
<1>7. ASSUME NEW p \in Reporter, Latest(p) PROVE GivesUp(p) \/ Prepares(p)
  <2>1. Holding(p) /\ Pc(p, "latest") /\ UNCHANGED comments
    BY <1>7, PlaceHolds DEF Latest, Pc
  <2>2. CASE Retry(p)
    BY <2>1, <2>2 DEF Retry, GivesUp
  <2>3. CASE ~Retry(p)
    <3>1. PICK s \in BOOLEAN : s = (work[p].superseded \/ ~head)
      OBVIOUS
    <3>2. PICK r : r = [work[p] EXCEPT !.superseded = s, !.waited = FALSE]
      OBVIOUS
    <3>3. r.superseded = s /\ r.seen = work[p].seen
      BY <2>1, <3>2, JobType DEF JobSeeing, Holding
    <3>4. PICK pc \in {"write", "store"} :
            pc = (IF r.superseded /\ r.seen = << >> THEN "store" ELSE "write")
      OBVIOUS
    <3>5. UNCHANGED row /\ Step(p, [r EXCEPT !.pc = pc])
      BY <1>7, <2>3, <3>1, <3>2, <3>4 DEF Latest
    <3>6. Goes(p, pc, s, work[p].page, work[p].seen)
      BY <2>1, <3>2, <3>5, GoesJudging
    <3>. QED
      BY <2>1, <3>3, <3>4, <3>6 DEF Prepares
  <2>. QED
    BY <2>2, <2>3
<1>8. ASSUME NEW p \in Reporter, Write(p) PROVE GivesUp(p) \/ Finishes(p)
  <2>1. Holding(p) /\ Pc(p, "write")
    BY <1>8, PlaceHolds DEF Write, Pc
  <2>2. CASE Retry(p)
    BY <1>8, <2>1, <2>2 DEF Write, Retry, GivesUp, WritesOver
  <2>3. CASE ~Retry(p)
    <3>1. /\ Goto(p, "store") /\ UNCHANGED row
          /\ (Said(p) /\ UNCHANGED comments) \/ WritesOver(p)
      BY <1>8, <2>1, <2>3 DEF Write, WritesOver
    <3>. QED
      BY <2>1, <3>1, GoesPlain DEF Finishes
  <2>. QED
    BY <2>2, <2>3
<1>9. ASSUME NEW p \in Reporter, RequestFails(p) PROVE GivesUp(p)
  BY <1>9, PlaceHolds DEF RequestFails, Retry, GivesUp
<1>10. ASSUME NEW p \in Reporter, Die(p) PROVE Leaves(p)
  BY <1>10 DEF Die, Leaves, Busy
<1>. QED
  BY <1>1, <1>2, <1>3, <1>4, <1>5, <1>6, <1>7, <1>8, <1>9, <1>10
  DEF OutboxNext, ReporterStep

-----------------------------------------------------------------------------
\* What a step of one reporter leaves to the others: the claim as it was, and no
\* comment that was not there.
RowKept ==
  row # NoRow =>
    /\ row' # NoRow /\ row'.lock = row.lock
    /\ row'.state = "superseded" => row.state = "superseded"
CommentsKept ==
  \A c \in DOMAIN comments' : c \in DOMAIN comments /\ comments'[c] = comments[c]

\* One reporter's work changes.
LEMMA OneMoves ==
  ASSUME Reporters, NEW p \in Reporter, NEW j, Step(p, j)
  PROVE  /\ work' = [q \in Reporter |-> work'[q]]
         /\ work'[p] = j
         /\ \A q \in Reporter : q # p => work'[q] = work[q]
BY DEF Reporters, Step

\* A reporter with nothing in hand.
LEMMA Idle ==
  ASSUME NEW p \in Reporter, work'[p] = Ready
  PROVE  Shape(p)' /\ Claimed(p)' /\ Knows(p)' /\ ~Holding(p)'
BY DEF Shape, Claimed, Knows, Holding, Busy

\* Who stands by keeps its claim and what it knows.
LEMMA StandsBy ==
  ASSUME OutboxInv, NEW q \in Reporter, work'[q] = work[q],
         Holding(q) => RowKept /\ CommentsKept
  PROVE  Shape(q)' /\ Claimed(q)' /\ Knows(q)' /\ Holding(q)' = Holding(q)
<1>1. Shape(q) /\ Claimed(q) /\ Knows(q)
  BY DEF OutboxInv, Reporters
<1>2. Holding(q)' = Holding(q) /\ Busy(q)' = Busy(q) /\ Spent(q)' = Spent(q)
  BY DEF Holding, Busy, Spent
<1>3. Shape(q)'
  BY <1>1, <1>2 DEF Shape
<1>4. Claimed(q)'
  BY <1>1, <1>2 DEF Claimed, RowKept
<1>5. CASE Holding(q)
  <2>1. AllSuperseded => AllSuperseded'
    BY <1>5 DEF AllSuperseded, CommentsKept
  <2>2. work[q].pc \in {"latest", "write"} =>
          /\ Single(DOMAIN work'[q].seen)
          /\ \A c \in DOMAIN comments' :
               c \in DOMAIN work'[q].seen /\ comments'[c] = work'[q].seen[c]
    BY <1>1, <1>5 DEF Knows, CommentsKept, Holding
  <2>3. Knows(q)'
    BY <1>1, <1>2, <2>1, <2>2 DEF Knows
  <2>. QED
    BY <1>2, <1>3, <1>4, <2>3
<1>6. CASE ~Holding(q)
  <2>1. Knows(q)'
    BY <1>2, <1>6 DEF Knows, Holding
  <2>. QED
    BY <1>2, <1>3, <1>4, <2>1
<1>. QED
  BY <1>5, <1>6

\* A step of one reporter, when the others hold nothing it takes from them.
LEMMA Together ==
  ASSUME OutboxInv, NEW p \in Reporter, NEW j, Step(p, j),
         Shape(p)', Claimed(p)', Knows(p)',
         \A q \in Reporter : q # p /\ Holding(q) =>
           RowKept /\ CommentsKept /\ ~Holding(p)'
  PROVE  Reporters' /\ Alone'
<1>1. Reporters /\ Alone
  BY DEF OutboxInv
<1>2. /\ work' = [q \in Reporter |-> work'[q]]
      /\ \A q \in Reporter : q # p => work'[q] = work[q]
  BY <1>1, OneMoves
<1>3. ASSUME NEW q \in Reporter, q # p
      PROVE  /\ Shape(q)' /\ Claimed(q)' /\ Knows(q)'
             /\ Holding(q)' => Holding(q) /\ ~Holding(p)'
  BY <1>2, <1>3, StandsBy
<1>4. Reporters'
  BY <1>2, <1>3 DEF Reporters
<1>5. ASSUME NEW q \in Reporter, NEW r \in Reporter, Holding(q)', Holding(r)'
      PROVE  q = r
  <2>1. CASE q = p \/ r = p
    BY <1>3, <1>5, <2>1
  <2>2. CASE q # p /\ r # p
    BY <1>1, <1>3, <1>5, <2>2 DEF Alone
  <2>. QED
    BY <2>1, <2>2
<1>6. Alone'
  BY <1>5 DEF Alone
<1>. QED
  BY <1>4, <1>6

\* Whoever holds the claim is alone with it.
LEMMA NobodyElse ==
  ASSUME OutboxInv, NEW p \in Reporter, Holding(p), NEW q \in Reporter, q # p
  PROVE  ~Holding(q)
BY DEF OutboxInv, Alone

\* What is written replaces what there is.
LEMMA WritesOne ==
  ASSUME OutboxInv, NEW p \in Reporter, WritesOver(p)
  PROVE  /\ Single(DOMAIN comments')
         /\ \A c \in DOMAIN comments' : comments'[c] = Text(p)
<1>1. Busy(p) /\ work[p].pc = "write" /\ Knows(p)
  BY PlaceHolds DEF WritesOver, Pc, Requests, OutboxInv, Reporters
<1>2. /\ Single(DOMAIN work[p].seen)
      /\ \A c \in DOMAIN comments : c \in DOMAIN work[p].seen
  BY <1>1 DEF Knows
<1>3. PICK at : at = (IF work[p].seen = << >> THEN {Fresh} ELSE DOMAIN work[p].seen)
  OBVIOUS
<1>4. comments' = [n \in DOMAIN comments \cup at |-> IF n \in at THEN Text(p) ELSE comments[n]]
  BY <1>3 DEF WritesOver, Written
<1>5. DOMAIN comments \subseteq at /\ Single(at)
  <2>1. CASE work[p].seen = << >>
    <3>1. DOMAIN work[p].seen = {}
      BY <2>1
    <3>. QED
      BY <1>2, <1>3, <2>1, <3>1 DEF Single
  <2>2. CASE work[p].seen # << >>
    BY <1>2, <1>3, <2>2
  <2>. QED
    BY <2>1, <2>2
<1>6. DOMAIN comments' = at
  BY <1>4, <1>5
<1>. QED
  BY <1>4, <1>5, <1>6

\* The comments and the row, as far as the invariant is about them.
Honest ==
  /\ Single(DOMAIN comments)
  /\ row.state = "superseded" => AllSuperseded

\* The invariant by its parts.
LEMMA HonestInv == OutboxInv <=> OutboxTypeOK /\ Reporters /\ Alone /\ Honest
BY DEF OutboxInv, Honest

\* Comments that are left alone, or deleted, stay honest.
LEMMA HonestKept ==
  ASSUME Honest, CommentsKept, row'.state = "superseded" => row.state = "superseded"
  PROVE  Honest'
<1>1. Single(DOMAIN comments')
  BY DEF Honest, Single, CommentsKept
<1>2. AllSuperseded => AllSuperseded'
  BY DEF AllSuperseded, CommentsKept
<1>. QED
  BY <1>1, <1>2 DEF Honest
-----------------------------------------------------------------------------
\* What each kind of step makes of the reporters, the comments and the row.
LEMMA CollectKeeps ==
  ASSUME OutboxInv, NEW p \in Reporter, Collect(p)
  PROVE  Reporters' /\ Alone' /\ Honest'
<1>1. PICK j : j = [pc |-> "claim", body |-> None, superseded |-> FALSE, page |-> 0,
                    seen |-> << >>, waited |-> FALSE]
  OBVIOUS
<1>2. Step(p, j) /\ work' = [q \in Reporter |-> work'[q]] /\ work'[p] = j
  BY <1>1, OneMoves DEF Collect, OutboxInv
<1>3. j \in JobSeeing(j.seen) /\ j.pc = "claim" /\ ~j.waited /\ j # Ready
  BY <1>1, Numbers DEF JobSeeing, Ready
<1>4. RowKept
  <2>1. row \in Row \cup {NoRow}
    BY DEF OutboxInv, OutboxTypeOK
  <2>2. CASE row = NoRow
    BY <2>2 DEF RowKept
  <2>3. CASE row # NoRow /\ ~target
    BY <2>3 DEF RowKept, Collect
  <2>4. CASE row # NoRow /\ target
    <3>1. row' = Rendered /\ row \in Row
      BY <2>1, <2>4 DEF Collect
    <3>2. row'.lock = row.lock /\ (row'.state = "superseded" => row.state = "superseded")
      BY <2>4, <3>1 DEF Rendered, Row
    <3>3. row'.state # "absent"
      BY <2>4, <3>1 DEF Rendered, Row
    <3>4. NoRow.state = "absent"
      BY DEF NoRow
    <3>. QED
      BY <3>2, <3>3, <3>4 DEF RowKept
  <2>. QED
    BY <2>2, <2>3, <2>4
<1>5. CommentsKept /\ UNCHANGED comments
  BY DEF Collect, CommentsKept
<1>6. Shape(p)' /\ Claimed(p)' /\ Knows(p)' /\ ~Holding(p)'
  BY <1>2, <1>3 DEF Shape, Claimed, Knows, Holding, Busy
<1>7. row'.state = "superseded" => row.state = "superseded"
  <2>1. CASE row = NoRow
    BY <2>1 DEF Collect, Rendered
  <2>2. CASE row # NoRow
    BY <1>4, <2>2 DEF RowKept
  <2>. QED
    BY <2>1, <2>2
<1>. QED
  BY <1>2, <1>4, <1>5, <1>6, <1>7, Together, HonestKept, HonestInv

\* Who leaves takes nothing along.
LEMMA LeavesKeeps ==
  ASSUME OutboxInv, NEW p \in Reporter, Leaves(p)
  PROVE  Reporters' /\ Alone' /\ Honest'
<1>1. Step(p, Ready) /\ UNCHANGED <<row, comments>>
  BY DEF Leaves, Done
<1>2. RowKept /\ CommentsKept
  BY <1>1 DEF RowKept, CommentsKept
<1>3. work'[p] = Ready
  BY <1>1, OneMoves DEF OutboxInv
<1>. QED
  BY <1>1, <1>2, <1>3, Idle, Together, HonestKept, HonestInv

\* A report given up leaves one comment, and a row that can be claimed again.
LEMMA GivesUpKeeps ==
  ASSUME OutboxInv, NEW p \in Reporter, GivesUp(p)
  PROVE  Reporters' /\ Alone' /\ Honest'
<1>1. Step(p, Ready) /\ Holding(p)
  BY DEF GivesUp, Done
<1>2. work'[p] = Ready
  BY <1>1, OneMoves DEF OutboxInv
<1>3. row'.state # "superseded"
  <2>1. row \in Row
    BY <1>1, LockStands
  <2>. QED
    BY <2>1 DEF GivesUp, Row
<1>4. Single(DOMAIN comments')
  BY WritesOne, HonestInv DEF GivesUp, Honest
<1>. QED
  BY <1>1, <1>2, <1>3, <1>4, Idle, Together, NobodyElse DEF Honest

\* A claim begins when nobody holds one.
LEMMA ClaimsKeeps ==
  ASSUME OutboxInv, NEW p \in Reporter, Claims(p)
  PROVE  Reporters' /\ Alone' /\ Honest'
<1>1. Busy(p) /\ work[p].pc = "claim"
  BY DEF Claims, Pc, Busy, Ready
<1>2. PICK j : j = [work[p] EXCEPT !.pc = "check", !.body = row.body]
  OBVIOUS
<1>3. row \in Row /\ row # NoRow /\ row.state # "superseded" /\ row.lock = 0
  BY DEF Claims, Due, OutboxInv, OutboxTypeOK
<1>4. work[p] \in JobSeeing(work[p].seen) /\ ~work[p].waited
  BY <1>1, JobType
<1>5. row.body \in Body
  BY <1>3 DEF Row
<1>6. j \in JobSeeing(work[p].seen)
  BY <1>2, <1>4, <1>5 DEF JobSeeing
<1>7. j.pc = "check" /\ j.body = row.body /\ ~j.waited /\ j.seen = work[p].seen
  BY <1>2, <1>4 DEF JobSeeing
<1>8. Step(p, j) /\ work'[p] = j
  BY <1>2, OneMoves DEF Claims, OutboxInv
<1>9. row'.lock = LockTime /\ row'.state = row.state /\ row' # NoRow
  <2>1. row'.lock = LockTime /\ row'.state = row.state /\ row.state # "absent"
    BY <1>3 DEF Claims, Row
  <2>. QED
    BY <2>1 DEF NoRow
<1>10. Spent(p)' = 0
  BY <1>7, <1>8 DEF Spent, Made
<1>11. Shape(p)'
  BY <1>6, <1>7, <1>8 DEF Shape
<1>12. Claimed(p)'
  BY <1>3, <1>5, <1>7, <1>8, <1>9, <1>10, Numbers DEF Claimed
<1>13. Knows(p)'
  BY <1>7, <1>8 DEF Knows
<1>14. \A q \in Reporter : ~Holding(q)
  BY <1>3, LockStands
<1>15. Honest'
  BY <1>3, <1>9, HonestKept, HonestInv DEF Claims, CommentsKept
<1>. QED
  BY <1>8, <1>11, <1>12, <1>13, <1>14, <1>15, Together

\* A report goes on: it has taken no more time than its next request begins with.
LEMMA GoesKeeps ==
  ASSUME OutboxInv, NEW p \in Reporter, NEW pc \in Requests \cup {"store"},
         NEW s \in BOOLEAN, NEW n \in 0..PageLimit, NEW seen, Goes(p, pc, s, n, seen),
         Made(pc, n) \in Nat, Made(pc, n) >= Spent(p),
         pc \in {"latest", "write"} =>
           /\ Single(DOMAIN seen)
           /\ \A c \in DOMAIN comments' : c \in DOMAIN seen /\ comments'[c] = seen[c],
         pc = "store" /\ s => AllSuperseded'
  PROVE  Reporters' /\ Alone'
<1>1. PICK j \in JobSeeing(seen) :
         /\ Step(p, j) /\ j.pc = pc /\ j.body = work[p].body /\ ~j.waited
         /\ j.superseded = s /\ j.page = n
  BY DEF Goes
<1>2. Holding(p) /\ Busy(p) /\ UNCHANGED row
  BY DEF Goes, Holding
<1>3. work'[p] = j
  BY <1>1, OneMoves DEF OutboxInv
<1>4. j.seen = seen
  BY <1>1 DEF JobSeeing
<1>5. Spent(p)' = Made(pc, n)
  BY <1>1, <1>3 DEF Spent
<1>6. Shape(p)'
  BY <1>1, <1>3, <1>4 DEF Shape
<1>7. Claimed(p)'
  <2>1. /\ work[p].body \in Body /\ row # NoRow /\ row.state # "superseded"
        /\ row.lock + Spent(p) >= LockTime
    BY <1>2 DEF OutboxInv, Reporters, Claimed
  <2>2. row.lock \in Nat /\ Spent(p) \in Nat
    BY <1>2, JobType, SpentBound, Numbers
  <2>3. row.lock + Spent(p)' >= LockTime
    BY <1>5, <2>1, <2>2, Numbers
  <2>. QED
    BY <1>1, <1>2, <1>3, <2>1, <2>3 DEF Claimed
<1>8. Knows(p)'
  BY <1>1, <1>3, <1>4 DEF Knows
<1>. QED
  BY <1>1, <1>2, <1>6, <1>7, <1>8, Together, NobodyElse

\* A request is made in the time the claim has left.
LEMMA AsksKeeps ==
  ASSUME OutboxInv, NEW p \in Reporter, Asks(p)
  PROVE  Reporters' /\ Alone' /\ Honest'
<1>1. Busy(p) /\ UNCHANGED comments /\ UNCHANGED row
  BY PlaceHolds DEF Asks, Goes, Pc, Requests
<1>2. /\ work[p].page \in 0..PageLimit /\ work[p].superseded \in BOOLEAN
      /\ work[p].waited \in BOOLEAN
      /\ work[p].pc \in {"claim", "check", "store"} => ~work[p].waited
  BY <1>1, JobType
<1>3. Honest'
  BY <1>1, HonestKept, HonestInv DEF CommentsKept
<1>4. CASE Pc(p, "check") /\ Goes(p, "pull", work[p].superseded, work[p].page, work[p].seen)
  <2>1. Made("pull", work[p].page) = 0 /\ Spent(p) = 0
    BY <1>2, <1>4 DEF Made, Spent, Pc
  <2>. QED
    BY <1>2, <1>3, <1>4, <2>1, GoesKeeps DEF Requests
<1>5. CASE /\ Pc(p, "pull")
           /\ \E s \in BOOLEAN : Goes(p, "user", s, work[p].page, work[p].seen)
  <2>1. PICK s \in BOOLEAN : Goes(p, "user", s, work[p].page, work[p].seen)
    BY <1>5
  <2>2. Made("user", work[p].page) = 1 /\ Spent(p) \in 0..1
    BY <1>2, <1>5 DEF Made, Spent, Pc
  <2>. QED
    BY <1>2, <1>3, <2>1, <2>2, GoesKeeps DEF Requests
<1>6. CASE /\ Pc(p, "user")
           /\ Goes(p, "list", work[p].superseded, work[p].page, work[p].seen)
  <2>1. Made("list", work[p].page) = 2 + work[p].page /\ Spent(p) \in 1..2
    BY <1>2, <1>6 DEF Made, Spent, Pc
  <2>2. Made("list", work[p].page) \in Nat /\ Made("list", work[p].page) >= Spent(p)
    BY <1>2, <2>1, Numbers
  <2>. QED
    BY <1>2, <1>3, <1>6, <2>2, GoesKeeps DEF Requests
<1>7. ASSUME Pc(p, "list"), MorePages(p)
      PROVE  /\ work[p].page + 1 \in 0..PageLimit
             /\ Made("list", work[p].page + 1) \in Nat
             /\ Made("list", work[p].page + 1) >= Spent(p)
             /\ Made("latest", work[p].page + 1) = Made("list", work[p].page + 1)
  <2>1. work[p].page + 1 \in 0..PageLimit
    BY <1>2, <1>7, Numbers DEF MorePages
  <2>2. Spent(p) \in (2 + work[p].page)..(3 + work[p].page)
    BY <1>2, <1>7, Numbers DEF Spent, Made, Pc
  <2>3. Made("list", work[p].page + 1) = 3 + work[p].page
    BY <1>2, Numbers DEF Made
  <2>4. Made("latest", work[p].page + 1) = Made("list", work[p].page + 1)
    BY DEF Made
  <2>. QED
    BY <1>2, <2>1, <2>2, <2>3, <2>4, Numbers
<1>8. CASE /\ Pc(p, "list") /\ MorePages(p)
           /\ Goes(p, "list", work[p].superseded, work[p].page + 1, work[p].seen)
  BY <1>2, <1>3, <1>7, <1>8, GoesKeeps DEF Requests
<1>9. CASE /\ Pc(p, "list") /\ MorePages(p)
           /\ Goes(p, "latest", work[p].superseded, work[p].page + 1, comments)
  <2>1. Single(DOMAIN comments)
    BY DEF OutboxInv
  <2>2. Made("latest", work[p].page + 1) \in Nat
        /\ Made("latest", work[p].page + 1) >= Spent(p)
    BY <1>7, <1>9
  <2>. QED
    BY <1>1, <1>2, <1>3, <1>7, <1>9, <2>1, <2>2, GoesKeeps DEF Requests
<1>. QED
  BY <1>4, <1>5, <1>6, <1>8, <1>9 DEF Asks

\* A report without a comment and without results ends here.
LEMMA PreparesKeeps ==
  ASSUME OutboxInv, NEW p \in Reporter, Prepares(p)
  PROVE  Reporters' /\ Alone' /\ Honest'
<1>1. PICK s \in BOOLEAN, pc \in {"write", "store"} :
         /\ Goes(p, pc, s, work[p].page, work[p].seen)
         /\ pc = "store" /\ s => work[p].seen = << >>
  BY DEF Prepares
<1>2. Pc(p, "latest") /\ Busy(p) /\ UNCHANGED comments /\ UNCHANGED row
  BY <1>1, PlaceHolds DEF Prepares, Goes, Pc, Requests
<1>3. work[p].page \in 0..PageLimit /\ work[p].waited \in BOOLEAN
  BY <1>2, JobType
<1>4. /\ Single(DOMAIN work[p].seen)
      /\ \A c \in DOMAIN comments :
           c \in DOMAIN work[p].seen /\ comments[c] = work[p].seen[c]
  BY <1>2 DEF OutboxInv, Reporters, Knows, Pc
<1>5. Spent(p) \in (2 + work[p].page)..(3 + work[p].page)
  BY <1>2, <1>3, Numbers DEF Spent, Made, Pc
<1>6. Made("write", work[p].page) = 3 + work[p].page
      /\ Made("store", work[p].page) = 4 + work[p].page
  BY DEF Made
<1>7. Made(pc, work[p].page) \in Nat /\ Made(pc, work[p].page) >= Spent(p)
  BY <1>3, <1>5, <1>6, Numbers
<1>8. pc = "store" /\ s => AllSuperseded'
  <2>1. work[p].seen = << >> => DOMAIN work[p].seen = {}
    OBVIOUS
  <2>2. work[p].seen = << >> => \A c : c \notin DOMAIN comments'
    BY <1>2, <1>4, <2>1
  <2>. QED
    BY <1>1, <2>2 DEF AllSuperseded
<1>9. Reporters' /\ Alone'
  BY <1>1, <1>2, <1>3, <1>4, <1>7, <1>8, GoesKeeps DEF Requests
<1>10. Honest'
  BY <1>2, HonestKept, HonestInv DEF CommentsKept
<1>. QED
  BY <1>9, <1>10

\* What was found, or written, is what the report says.
LEMMA FinishesKeeps ==
  ASSUME OutboxInv, NEW p \in Reporter, Finishes(p)
  PROVE  Reporters' /\ Alone' /\ Honest'
<1>1. Goes(p, "store", work[p].superseded, work[p].page, work[p].seen)
  BY DEF Finishes
<1>2. /\ Pc(p, "write") /\ Busy(p) /\ UNCHANGED row
      /\ (Said(p) /\ UNCHANGED comments) \/ WritesOver(p)
  BY <1>1, PlaceHolds DEF Finishes, Goes, Pc, Requests
<1>3. /\ work[p].page \in 0..PageLimit /\ work[p].waited \in BOOLEAN
      /\ work[p].superseded \in BOOLEAN
  BY <1>2, JobType
<1>4. /\ Single(DOMAIN work[p].seen)
      /\ \A c \in DOMAIN comments :
           c \in DOMAIN work[p].seen /\ comments[c] = work[p].seen[c]
  BY <1>2 DEF OutboxInv, Reporters, Knows, Pc
<1>5. Spent(p) \in (3 + work[p].page)..(4 + work[p].page)
  BY <1>2, <1>3, Numbers DEF Spent, Made, Pc
<1>6. Made("store", work[p].page) = 4 + work[p].page
  BY DEF Made
<1>7. Made("store", work[p].page) \in Nat /\ Made("store", work[p].page) >= Spent(p)
  BY <1>3, <1>5, <1>6, Numbers
<1>8. /\ Single(DOMAIN comments')
      /\ \A c \in DOMAIN comments' : comments'[c] = Text(p)
  <2>1. CASE WritesOver(p)
    BY <2>1, WritesOne
  <2>2. CASE Said(p) /\ UNCHANGED comments
    <3>1. PICK c \in DOMAIN work[p].seen : work[p].seen[c] = Text(p)
      BY <2>2 DEF Said
    <3>2. \A d \in DOMAIN comments : comments[d] = Text(p)
      BY <1>4, <3>1 DEF Single
    <3>3. Single(DOMAIN comments)
      BY DEF OutboxInv
    <3>. QED
      BY <2>2, <3>2, <3>3
  <2>. QED
    BY <1>2, <2>1, <2>2
<1>9. work[p].superseded => AllSuperseded'
  BY <1>8 DEF AllSuperseded, Text
<1>10. Reporters' /\ Alone'
  BY <1>1, <1>3, <1>7, <1>9, GoesKeeps DEF Requests
<1>11. row'.state # "superseded"
  BY <1>1, <1>2, LockStands DEF Goes
<1>. QED
  BY <1>8, <1>10, <1>11 DEF Honest

\* Only a report that ended with the notice makes the row superseded.
LEMMA StoreKeeps ==
  ASSUME OutboxInv, NEW p \in Reporter, Store(p)
  PROVE  Reporters' /\ Alone' /\ Honest'
<1>1. Holding(p) /\ Busy(p) /\ work[p].pc = "store" /\ UNCHANGED comments
  BY PlaceHolds DEF Store, Pc
<1>2. Step(p, Ready) /\ work'[p] = Ready
  BY OneMoves DEF Store, Done, OutboxInv
<1>3. row \in Row
  BY <1>1, LockStands
<1>4. row'.state = "superseded" => work[p].superseded
  BY <1>3 DEF Store, Row
<1>5. work[p].superseded => AllSuperseded
  BY <1>1 DEF OutboxInv, Reporters, Knows
<1>6. AllSuperseded => AllSuperseded'
  BY <1>1 DEF AllSuperseded
<1>7. Honest'
  BY <1>1, <1>4, <1>5, <1>6 DEF Honest, OutboxInv
<1>. QED
  BY <1>1, <1>2, <1>7, Idle, Together, NobodyElse

\* A step that no reporter takes.
LEMMA NobodyMoves ==
  ASSUME OutboxInv, UNCHANGED work, RowKept, CommentsKept,
         row'.state = "superseded" => row.state = "superseded"
  PROVE  Reporters' /\ Alone' /\ Honest'
<1>1. \A q \in Reporter : /\ Shape(q)' /\ Claimed(q)' /\ Knows(q)'
                          /\ Holding(q)' = Holding(q)
  BY StandsBy
<1>2. Reporters'
  BY <1>1 DEF Reporters, OutboxInv
<1>3. Alone'
  BY <1>1 DEF Alone, OutboxInv
<1>. QED
  BY <1>2, <1>3, HonestKept, HonestInv

\* A comment that somebody deletes.
LEMMA DeleteKeeps ==
  ASSUME OutboxInv, NEW c, Delete(c)
  PROVE  Reporters' /\ Alone' /\ Honest'
BY NobodyMoves DEF Delete, RowKept, CommentsKept

\* The row becomes due again.
LEMMA DueKeeps ==
  ASSUME OutboxInv, BecomesDue
  PROVE  Reporters' /\ Alone' /\ Honest'
<1>1. row \in Row /\ UNCHANGED <<work, comments>>
  BY DEF OutboxInv, OutboxTypeOK, BecomesDue
<1>2. row'.lock = row.lock /\ row'.state = row.state /\ row'.state # "absent"
  BY <1>1 DEF BecomesDue, Row
<1>3. row' # NoRow
  BY <1>2 DEF NoRow
<1>. QED
  BY <1>1, <1>2, <1>3, NobodyMoves DEF RowKept, CommentsKept

\* The task, the head, the policy or the target changes.
LEMMA ChangeKeeps ==
  ASSUME OutboxInv, Change \/ UNCHANGED vars
  PROVE  Reporters' /\ Alone' /\ Honest'
<1>1. UNCHANGED row /\ UNCHANGED work /\ UNCHANGED comments
  BY DEF Change, vars
<1>2. RowKept /\ CommentsKept
  BY <1>1 DEF RowKept, CommentsKept
<1>. QED
  BY <1>1, <1>2, NobodyMoves

\* Time is taken from the claim only while its holder waits for an answer, which
\* it does once for each request.
LEMMA TimeKeeps ==
  ASSUME OutboxInv, TimePasses
  PROVE  Reporters' /\ Alone' /\ Honest'
<1>1. row \in Row /\ row # NoRow /\ row.lock > 0 /\ UNCHANGED comments
  BY DEF OutboxInv, OutboxTypeOK, TimePasses
<1>2. /\ row'.lock = row.lock - 1 /\ row'.state = row.state /\ row'.state # "absent"
      /\ row.lock \in Nat
  BY <1>1, Numbers DEF TimePasses, Row
<1>3. row' # NoRow
  BY <1>2 DEF NoRow
<1>4. work' = [p \in Reporter |-> work'[p]]
  BY DEF TimePasses
<1>5. ASSUME NEW p \in Reporter
      PROVE  Shape(p)' /\ Claimed(p)' /\ Knows(p)' /\ Holding(p)' = Holding(p)
  <2>1. CASE Busy(p) /\ work[p].pc \in Requests
    <3>1. PICK j : j = [work[p] EXCEPT !.waited = TRUE]
      OBVIOUS
    <3>2. work'[p] = j
      BY <2>1, <3>1 DEF TimePasses
    <3>3. work[p] \in JobSeeing(work[p].seen) /\ ~work[p].waited
      BY <2>1, JobType DEF TimePasses
    <3>4. j \in JobSeeing(work[p].seen)
      BY <3>1, <3>3 DEF JobSeeing
    <3>5. /\ j.pc = work[p].pc /\ j.body = work[p].body /\ j.page = work[p].page
          /\ j.superseded = work[p].superseded /\ j.seen = work[p].seen
          /\ j.waited = TRUE
      BY <3>1, <3>3 DEF JobSeeing
    <3>6. Holding(p) /\ Holding(p)'
      BY <2>1, <3>2, <3>5 DEF Holding, Busy, Ready, Requests
    <3>7. Shape(p)'
      BY <2>1, <3>2, <3>4, <3>5 DEF Shape, Requests
    <3>8. Spent(p) \in Nat /\ Spent(p)' = Spent(p) + 1
      <4>1. Spent(p) \in Nat
        BY <2>1, SpentBound
      <4>2. Spent(p) = Made(work[p].pc, work[p].page) + 0
        BY <3>3 DEF Spent
      <4>3. Spent(p)' = Made(work[p].pc, work[p].page) + 1
        BY <3>2, <3>5 DEF Spent
      <4>4. Made(work[p].pc, work[p].page) \in Nat
        BY <2>1, JobType, Numbers DEF Made, Requests
      <4>. QED
        BY <4>1, <4>2, <4>3, <4>4
    <3>9. Claimed(p)'
      <4>1. /\ work[p].body \in Body /\ row.state # "superseded"
            /\ row.lock + Spent(p) >= LockTime
        BY <3>6 DEF OutboxInv, Reporters, Claimed
      <4>2. row'.lock + Spent(p)' >= LockTime
        BY <1>1, <1>2, <3>8, <4>1, Numbers
      <4>. QED
        BY <1>2, <1>3, <3>2, <3>5, <4>1, <4>2 DEF Claimed
    <3>10. Knows(p)'
      <4>1. Knows(p)
        BY DEF OutboxInv, Reporters
      <4>. QED
        BY <1>1, <2>1, <3>2, <3>5, <4>1 DEF Knows, Requests
    <3>. QED
      BY <3>6, <3>7, <3>9, <3>10
  <2>2. CASE ~(Busy(p) /\ work[p].pc \in Requests)
    <3>1. ~Holding(p)
      <4>1. work[p].pc \notin {"check", "store"}
        BY DEF TimePasses
      <4>. QED
        BY <2>2, <4>1, JobType DEF Holding
    <3>2. work'[p] = work[p]
      <4>1. CASE Busy(p)
        BY <2>2, <4>1 DEF TimePasses
      <4>2. CASE work[p] = Ready
        <5>1. Ready.pc \notin Requests
          BY DEF Ready, Requests
        <5>. QED
          BY <4>2, <5>1 DEF TimePasses
      <4>. QED
        BY <4>1, <4>2 DEF Busy
    <3>. QED
      BY <3>1, <3>2, StandsBy
  <2>. QED
    BY <2>1, <2>2
<1>6. Reporters'
  BY <1>4, <1>5 DEF Reporters
<1>7. Alone'
  BY <1>5 DEF Alone, OutboxInv
<1>8. Honest'
  BY <1>1, <1>2, HonestKept, HonestInv DEF CommentsKept
<1>. QED
  BY <1>6, <1>7, <1>8
-----------------------------------------------------------------------------
\* The types.  Those of a report follow from its shape and its claim.
RowType  == row \in Row \cup {NoRow}
Bodies   == \A c \in DOMAIN comments : comments[c] \in Body \cup {Superseded}
Elsewhere ==
  /\ task \in Body
  /\ {policy, target, head, crowded, astray} \subseteq BOOLEAN
  /\ faults \in 0..MaxFaults /\ changes \in 0..MaxChanges

\* The type invariant by its parts.
LEMMA TypeParts ==
  Reporters => (OutboxTypeOK <=> RowType /\ Bodies /\ Elsewhere)
<1> SUFFICES ASSUME Reporters PROVE OutboxTypeOK <=> RowType /\ Bodies /\ Elsewhere
  OBVIOUS
<1>1. ASSUME NEW p \in Reporter, work[p] # Ready
      PROVE  /\ work[p].pc \in Requests \cup {"claim", "check", "store"}
             /\ work[p].body \in Body \cup {None}
             /\ work[p].page \in 0..PageLimit
             /\ {work[p].superseded, work[p].waited} \subseteq BOOLEAN
             /\ work[p].pc # "claim" => row # NoRow
  <2>1. work[p] \in JobSeeing(work[p].seen)
    BY <1>1 DEF Reporters, Shape, Busy
  <2>2. work[p].pc # "claim" => row # NoRow
    BY <1>1 DEF Reporters, Claimed, Holding, Busy
  <2>. QED
    BY <2>1, <2>2 DEF JobSeeing
<1>. QED
  BY <1>1 DEF OutboxTypeOK, RowType, Bodies, Elsewhere

\* A row with some columns changed is a row.
LEMMA RowUpdates ==
  ASSUME NEW r \in Row,
         NEW st \in {"pending", "retrying", "posted", "superseded", "disabled"}
  PROVE  /\ \A body \in Body : [r EXCEPT !.body = body, !.state = st] \in Row
         /\ \A sent \in Body \cup {None} :
              [r EXCEPT !.sent = sent, !.state = st, !.due = FALSE, !.lock = 0] \in Row
         /\ [r EXCEPT !.state = st, !.due = FALSE, !.lock = 0] \in Row
         /\ [r EXCEPT !.state = st, !.lock = 0] \in Row
<1>1. 0 \in 0..LockTime
  BY Numbers
<1>2. PICK unlocked \in 0..LockTime : unlocked = 0
  BY <1>1
<1>3. \A body \in Body : [r EXCEPT !.body = body, !.state = st] \in Row
  BY DEF Row
<1>4. ASSUME NEW sent \in Body \cup {None}
      PROVE  [r EXCEPT !.sent = sent, !.state = st, !.due = FALSE, !.lock = unlocked] \in Row
  BY DEF Row
<1>5. [r EXCEPT !.state = st, !.due = FALSE, !.lock = unlocked] \in Row
  BY DEF Row
<1>6. [r EXCEPT !.state = st, !.lock = unlocked] \in Row
  BY DEF Row
<1>. QED
  BY <1>2, <1>3, <1>4, <1>5, <1>6

\* Every column of the row keeps its type.
LEMMA RowTypeKept ==
  ASSUME OutboxInv, [OutboxNext]_vars
  PROVE  RowType'
<1>1. row \in Row \cup {NoRow} /\ task \in Body
  BY DEF OutboxInv, OutboxTypeOK
<1>2. ASSUME UNCHANGED row PROVE RowType'
  BY <1>1, <1>2 DEF RowType
<1>3. ASSUME NEW p \in Reporter, Collect(p) PROVE RowType'
  <2>1. CASE row = NoRow /\ target
    BY <1>1, <1>3, <2>1, Numbers DEF Collect, Rendered, Row, RowType
  <2>2. CASE row # NoRow /\ target
    <3>1. row \in Row
      BY <1>1, <2>2
    <3>2. PICK st : st = IF row.body # task /\ row.state # "superseded"
                         THEN "pending" ELSE row.state
      OBVIOUS
    <3>3. st \in {"pending", "retrying", "posted", "superseded", "disabled"}
      BY <3>1, <3>2 DEF Row
    <3>4. row' = [row EXCEPT !.body = task, !.state = st]
      BY <1>3, <2>2, <3>2 DEF Collect, Rendered
    <3>. QED
      BY <1>1, <3>1, <3>3, <3>4, RowUpdates DEF RowType
  <2>3. CASE ~target
    BY <1>2, <1>3, <2>3 DEF Collect
  <2>. QED
    BY <2>1, <2>2, <2>3
<1>4. ASSUME NEW p \in Reporter, Leaves(p) \/ Asks(p) \/ Prepares(p) \/ Finishes(p)
      PROVE  RowType'
  BY <1>2, <1>4 DEF Leaves, Asks, Prepares, Finishes, Goes
<1>5. ASSUME NEW p \in Reporter, GivesUp(p) PROVE RowType'
  <2>1. row \in Row
    BY <1>5, LockStands DEF GivesUp
  <2>2. CASE row' = [row EXCEPT !.state = "retrying", !.due = FALSE, !.lock = 0]
    BY <2>1, <2>2, RowUpdates DEF RowType
  <2>3. CASE row' = [row EXCEPT !.state = "disabled", !.lock = 0]
    BY <2>1, <2>3, RowUpdates DEF RowType
  <2>. QED
    BY <1>5, <2>2, <2>3 DEF GivesUp
<1>6. ASSUME NEW p \in Reporter, Claims(p) PROVE RowType'
  BY <1>1, <1>6, Numbers DEF Claims, Due, Row, RowType
<1>7. ASSUME NEW p \in Reporter, Store(p) PROVE RowType'
  <2>1. Holding(p)
    BY <1>7, PlaceHolds DEF Store, Pc
  <2>2. row \in Row /\ work[p].body \in Body
    BY <2>1, LockStands, JobType DEF Holding
  <2>3. PICK st : st = IF row.body # work[p].body THEN "pending"
                       ELSE IF work[p].superseded THEN "superseded" ELSE "posted"
    OBVIOUS
  <2>4. row' = [row EXCEPT !.sent = work[p].body, !.state = st, !.due = FALSE, !.lock = 0]
    BY <1>7, <2>3 DEF Store, StoredBody
  <2>. QED
    BY <2>2, <2>3, <2>4, RowUpdates DEF RowType
<1>8. ASSUME NEW c, Delete(c) PROVE RowType'
  BY <1>2, <1>8 DEF Delete
<1>9. ASSUME TimePasses PROVE RowType'
  <2>1. row \in Row /\ row.lock \in 0..LockTime /\ row.lock > 0
    BY <1>1, <1>9 DEF TimePasses, Row
  <2>2. row.lock - 1 \in 0..LockTime
    BY <2>1, Numbers
  <2>. QED
    BY <1>9, <2>1, <2>2 DEF TimePasses, Row, RowType
<1>10. ASSUME BecomesDue PROVE RowType'
  BY <1>1, <1>10 DEF BecomesDue, Row, RowType
<1>11. ASSUME Change \/ UNCHANGED vars PROVE RowType'
  BY <1>2, <1>11 DEF Change, vars
<1>. QED
  BY <1>3, <1>4, <1>5, <1>6, <1>7, <1>8, <1>9, <1>10, <1>11, OutboxSteps

\* Comments are renderings of the task or the notice.
LEMMA BodiesKept ==
  ASSUME OutboxInv, [OutboxNext]_vars
  PROVE  Bodies'
<1>1. Bodies
  BY DEF OutboxInv, OutboxTypeOK, Bodies
<1>2. ASSUME CommentsKept PROVE Bodies'
  BY <1>1, <1>2 DEF Bodies, CommentsKept
<1>3. ASSUME NEW p \in Reporter, Holding(p), WritesOver(p) PROVE Bodies'
  <2>1. work[p].body \in Body
    BY <1>3, JobType DEF Holding
  <2>2. Text(p) \in Body \cup {Superseded}
    BY <2>1 DEF Text
  <2>. QED
    BY <1>3, <2>2, WritesOne DEF Bodies
<1>4. ASSUME NEW p \in Reporter, GivesUp(p) \/ Finishes(p) PROVE Bodies'
  <2>1. Holding(p) /\ (UNCHANGED comments \/ WritesOver(p))
    BY <1>4 DEF GivesUp, Finishes, Goes
  <2>. QED
    BY <1>2, <1>3, <2>1 DEF CommentsKept
<1>5. ASSUME NEW p \in Reporter,
             Collect(p) \/ Leaves(p) \/ Claims(p) \/ Asks(p) \/ Prepares(p) \/ Store(p)
      PROVE  Bodies'
  <2>1. UNCHANGED comments
    BY <1>5 DEF Collect, Leaves, Claims, Asks, Prepares, Store
  <2>. QED
    BY <1>2, <2>1 DEF CommentsKept
<1>6. ASSUME NEW c, Delete(c) PROVE Bodies'
  BY <1>2, <1>6 DEF Delete, CommentsKept
<1>7. ASSUME TimePasses \/ BecomesDue \/ Change \/ UNCHANGED vars PROVE Bodies'
  <2>1. UNCHANGED comments
    BY <1>7 DEF TimePasses, BecomesDue, Change, vars
  <2>. QED
    BY <1>2, <2>1 DEF CommentsKept
<1>. QED
  BY <1>4, <1>5, <1>6, <1>7, OutboxSteps

\* The world changes by Change alone, and the counters within their bounds.
LEMMA ElsewhereKept ==
  ASSUME OutboxInv, [OutboxNext]_vars
  PROVE  Elsewhere'
<1>1. Elsewhere /\ MaxFaults \in Nat /\ MaxChanges \in Nat
  BY OutboxAssumption DEF OutboxInv, OutboxTypeOK, Elsewhere
<1>2. UNCHANGED world \/ Change
  BY DEF OutboxNext, ReporterStep, Collect, Claim, CheckTarget, ReadPull, ReadUser, Search,
         SearchEnds, Latest, Write, Store, RequestFails, Die, Delete, TimePasses, BecomesDue,
         vars, world
<1>3. /\ task' \in Body /\ {policy', target', head', crowded'} \subseteq BOOLEAN
      /\ changes' \in 0..MaxChanges
  <2>1. CASE UNCHANGED world
    BY <1>1, <2>1 DEF world, Elsewhere
  <2>2. CASE Change
    <3>1. changes' \in 0..MaxChanges
      BY <1>1, <2>2 DEF Change, Elsewhere
    <3>2. task' \in Body /\ {policy', target', head', crowded'} \subseteq BOOLEAN
      BY <1>1, <2>2 DEF Change, Elsewhere
    <3>. QED
      BY <3>1, <3>2
  <2>. QED
    BY <1>2, <2>1, <2>2
<1>4. Calm \/ Fault
  BY DEF OutboxNext, ReporterStep, Collect, Claim, CheckTarget, ReadPull, ReadUser, Search,
         SearchEnds, Latest, Write, Store, RequestFails, Die, Delete, TimePasses, BecomesDue,
         Change, vars, Calm
<1>5. faults' \in 0..MaxFaults
  BY <1>1, <1>4 DEF Calm, Fault, Elsewhere
<1>6. astray' \in BOOLEAN
  <2>1. UNCHANGED astray \/ astray' = TRUE \/ \E p \in Reporter : Store(p) \/ Die(p)
    BY DEF OutboxNext, ReporterStep, Collect, Claim, CheckTarget, ReadPull, ReadUser, Search,
           SearchEnds, Latest, Write, RequestFails, Delete, TimePasses, BecomesDue,
           Change, vars
  <2>2. ASSUME NEW p \in Reporter, Store(p) \/ Die(p) PROVE astray' \in BOOLEAN
    <3>1. CASE Die(p)
      BY <1>1, <3>1 DEF Die, Pc, Elsewhere
    <3>2. CASE Store(p)
      <4>1. work[p].superseded \in BOOLEAN
        BY <3>2, PlaceHolds, JobType DEF Store, Pc
      <4>. QED
        BY <1>1, <3>2, <4>1 DEF Store, Elsewhere
    <3>. QED
      BY <2>2, <3>1, <3>2
  <2>. QED
    BY <1>1, <2>1, <2>2 DEF Elsewhere
<1>. QED
  BY <1>3, <1>5, <1>6 DEF Elsewhere

-----------------------------------------------------------------------------
\* The invariant holds at first, and every step keeps it.
LEMMA OutboxInvInit == OutboxInit => OutboxInv
<1> SUFFICES ASSUME OutboxInit PROVE OutboxInv
  OBVIOUS
<1>1. \A p \in Reporter : work[p] = Ready
  BY DEF OutboxInit
<1>2. Reporters
  <2>1. \A p \in Reporter : Shape(p) /\ Claimed(p) /\ Knows(p)
    BY <1>1 DEF Shape, Claimed, Knows, Holding, Busy
  <2>2. work = [p \in Reporter |-> work[p]]
    BY DEF OutboxInit
  <2>. QED
    BY <2>1, <2>2 DEF Reporters
<1>3. Alone
  BY <1>1 DEF Alone, Holding, Busy
<1>4. DOMAIN comments = {}
  BY DEF OutboxInit
<1>5. Honest
  BY <1>4 DEF Honest, Single, AllSuperseded
<1>6. RowType /\ Bodies
  BY <1>4 DEF RowType, Bodies, OutboxInit
<1>7. Elsewhere
  <2>1. task \in Body
    BY OutboxAssumption DEF OutboxInit
  <2>2. 0 \in 0..MaxFaults /\ 0 \in 0..MaxChanges
    BY OutboxAssumption
  <2>. QED
    BY <2>1, <2>2 DEF Elsewhere, OutboxInit
<1>. QED
  BY <1>2, <1>3, <1>5, <1>6, <1>7, TypeParts, HonestInv

\* Every step keeps the parts, and so the whole.
LEMMA OutboxInvNext == OutboxInv /\ [OutboxNext]_vars => OutboxInv'
<1> SUFFICES ASSUME OutboxInv, [OutboxNext]_vars PROVE OutboxInv'
  OBVIOUS
<1>1. Reporters' /\ Alone' /\ Honest'
  BY CollectKeeps, LeavesKeeps, GivesUpKeeps, ClaimsKeeps, AsksKeeps, PreparesKeeps,
     FinishesKeeps, StoreKeeps, DeleteKeeps, TimeKeeps, DueKeeps, ChangeKeeps, OutboxSteps
<1>2. RowType' /\ Bodies' /\ Elsewhere'
  BY RowTypeKept, BodiesKept, ElsewhereKept
<1>3. OutboxTypeOK'
  BY <1>1, <1>2, TypeParts, PTL
<1>. QED
  BY <1>1, <1>3 DEF OutboxInv, Honest

\* One holder of the claim, who knows the comments there are.
THEOREM OutboxInvariant == OutboxSpec => []OutboxInv
BY OutboxInvInit, OutboxInvNext, PTL DEF OutboxSpec

\* Every value the outbox keeps is one its tables and handlers know, no search goes
\* past the page limit, and a report is only ever made of a row that is there.
THEOREM OutboxTypeCorrect == OutboxSpec => []OutboxTypeOK
<1>1. OutboxInv => OutboxTypeOK
  BY DEF OutboxInv
<1>. QED
  BY <1>1, OutboxInvariant, PTL

\* A task never has two comments, whatever is lost, deleted or restarted, and the
\* comment of a superseded report shows no results.
THEOREM OneCommentForever == OutboxSpec => []OneHonestComment
<1>1. ASSUME OutboxInv PROVE OneHonestComment
  <2>1. Single(DOMAIN comments) /\ (row.state = "superseded" => AllSuperseded)
    BY <1>1 DEF OutboxInv
  <2>2. Cardinality(DOMAIN comments) <= 1
    <3>1. CASE DOMAIN comments = {}
      <4>1. Cardinality({}) = 0
        BY FS_EmptySet
      <4>. QED
        BY <3>1, <4>1
    <3>2. CASE DOMAIN comments # {}
      <4>1. PICK c : DOMAIN comments = {c}
        BY <2>1, <3>2 DEF Single
      <4>2. Cardinality({c}) = 1
        BY FS_Singleton
      <4>. QED
        BY <4>1, <4>2
    <3>. QED
      BY <3>1, <3>2
  <2>. QED
    BY <2>1, <2>2 DEF OneHonestComment, AllSuperseded
<1>. QED
  BY <1>1, OutboxInvariant, PTL
=============================================================================
