--------------------------- MODULE Clients_proofs ---------------------------
(***************************************************************************)
(* Proofs about the daemon's clients: the GitHub watcher, for any number   *)
(* of heads and comments and any losses of its file and of its calls; the  *)
(* phone with its outbox and its mirror of a session, for any drainers, any *)
(* number of prompts and entries and any breaks of the link; and the terminal *)
(* with its screen and its connection, for any sessions, events and breaks. *)
(***************************************************************************)
EXTENDS Watcher, Phone, Terminal, FiniteSetTheorems, SequenceTheorems, WellFoundedInduction, NaturalsInduction, TLAPS

(* The watcher. *)
Heads == 1..MaxHeads
Marks == 0..MaxComments
Written == 1..MaxComments
JobType ==
  [kind : Kinds, head : Heads, due : SUBSET Written, through : Marks, session : Nat,
   prompted : BOOLEAN, stopped : BOOLEAN, pushed : BOOLEAN, posted : SUBSET Written]
WType ==
  [seen : 0..MaxHeads, reviewed : 0..MaxHeads, failed : 0..MaxHeads, handled : Marks, failedThrough : Marks,
   jobs : [Kinds -> JobType \cup {NoJob}], asked : Nat, home : Nat]
PollType ==
  [step : {"advance", "start"}, head : Heads, left : SUBSET Kinds, moved : BOOLEAN,
   review : 0..MaxHeads, due : SUBSET Written]
HubType == [head : Heads, comments : Marks, reviews : [Heads -> Nat], answers : [Written -> Nat]]
WSessType ==
  [kind : Kinds, state : {"idle", "running", "answered", "error", "completed"}, commits : BOOLEAN,
   due : SUBSET Written, replies : SUBSET Written]
IssueType == [edits : Nat \ {0}, homes : Seq({"requested", "done", "failed"}), reruns : Nat]

WatcherTypes ==
  /\ w \in WType /\ poll \in PollType /\ hub \in HubType
  /\ wsess \in Seq(WSessType) /\ issue \in IssueType /\ lostNo \in 0..MaxLost

JobFits(job, k, ss) ==
  /\ job.kind = k /\ job.session \in 0..Len(ss)
  /\ job.session # 0 => ss[job.session].due = job.due
  /\ job.prompted => job.session # 0
  /\ job.stopped => job.prompted /\ ss[job.session].state = "completed"
  /\ job.pushed => job.stopped
  /\ job.posted # {} => job.pushed

JobsFit ==
  /\ \A k \in Kinds : Job(k) # NoJob => JobFits(Job(k), k, wsess)
  /\ \A s \in DOMAIN wsess : wsess[s].replies \subseteq wsess[s].due
  /\ poll.step = "advance" => poll.due = {} /\ poll.review = 0

ReviewsFit ==
  /\ w.reviewed <= poll.head /\ poll.head <= hub.head
  /\ poll.review # 0 => poll.review = poll.head /\ w.reviewed < poll.head /\ Job("review") = NoJob
  /\ Job("review") # NoJob => w.reviewed < Job("review").head /\ Job("review").head <= poll.head
  /\ \A h \in Heads : hub.reviews[h] <= lostNo + (IF h <= w.reviewed THEN 1 ELSE 0)

IsRest(S, h, m) == h < m /\ S = (h + 1)..m
Posted == IF Job("comments") = NoJob THEN {} ELSE Job("comments").posted
CommentsFit ==
  /\ poll.due # {} => Job("comments") = NoJob /\ \E m \in Written : IsRest(poll.due, w.handled, m)
  /\ Job("comments") # NoJob =>
       /\ IsRest(Job("comments").due, w.handled, Job("comments").through)
       /\ Job("comments").posted \subseteq Job("comments").due
       /\ Job("comments").posted # {} =>
            Job("comments").posted \subseteq Replies \/ Rest \subseteq Job("comments").posted
  /\ \A c \in Written : hub.answers[c] <= lostNo + (IF c <= w.handled \/ c \in Posted THEN 1 ELSE 0)
  /\ \A c \in Written : c <= w.handled \/ c \in Posted => hub.answers[c] >= 1

IssueFits ==
  /\ w.home \in 0..Len(issue.homes) /\ w.asked <= issue.edits
  /\ Len(issue.homes) <= lostNo + (IF w.home # 0 THEN 1 ELSE 0)
  /\ w.home = 0 => issue.reruns = 0
  /\ issue.reruns + (IF w.home # 0 THEN 1 ELSE 0) <= w.asked + lostNo

WInv == WatcherTypes /\ JobsFit /\ ReviewsFit /\ CommentsFit /\ IssueFits

-----------------------------------------------------------------------------
LEMMA BoundsAre ==
  MaxHeads \in Nat \ {0} /\ MaxComments \in Nat /\ MaxLost \in Nat
BY WatcherAssumption

LEMMA JobIs ==
  ASSUME WatcherTypes, NEW k \in Kinds, Job(k) # NoJob
  PROVE  /\ Job(k) \in JobType
         /\ Job(k).kind \in Kinds /\ Job(k).head \in Heads /\ Job(k).due \subseteq Written
         /\ Job(k).through \in Marks /\ Job(k).session \in Nat /\ Job(k).prompted \in BOOLEAN
         /\ Job(k).stopped \in BOOLEAN /\ Job(k).pushed \in BOOLEAN /\ Job(k).posted \subseteq Written
<1>1. w.jobs \in [Kinds -> JobType \cup {NoJob}] BY DEF WatcherTypes, WType
<1>2. Job(k) \in JobType BY <1>1 DEF Job
<1>q. QED BY <1>2 DEF JobType

LEMMA PutIs ==
  ASSUME WatcherTypes, NEW job \in JobType
  PROVE  /\ Put(job) \in WType
         /\ Put(job).jobs = [w.jobs EXCEPT ![job.kind] = job]
         /\ \A k \in Kinds : Put(job).jobs[k] = IF k = job.kind THEN job ELSE w.jobs[k]
         /\ Put(job).seen = w.seen /\ Put(job).reviewed = w.reviewed /\ Put(job).failed = w.failed
         /\ Put(job).handled = w.handled /\ Put(job).failedThrough = w.failedThrough
         /\ Put(job).asked = w.asked /\ Put(job).home = w.home
<1>1. job.kind \in Kinds BY DEF JobType
<1>q. QED BY <1>1 DEF WatcherTypes, WType, Put

LEMMA RecordsIs ==
  ASSUME NEW new, new \in WType, WatcherTypes, Records(new)
  PROVE  w' \in WType /\ lostNo' \in 0..MaxLost /\ lostNo' >= lostNo
         /\ \/ w' = new /\ lostNo' = lostNo
            \/ w' = w /\ lostNo' = lostNo + 1
BY BoundsAre DEF Records, WatcherTypes

(* The types. *)
LEMMA WatcherTypesInit == ASSUME WatcherInit PROVE WatcherTypes
<1>1. w.jobs \in [Kinds -> JobType \cup {NoJob}] BY DEF WatcherInit
<1>2. w \in WType BY <1>1, BoundsAre DEF WatcherInit, WType, Marks
<1>3. poll \in PollType BY BoundsAre DEF WatcherInit, PollType, Heads
<1>4. hub \in HubType BY BoundsAre DEF WatcherInit, HubType, Heads, Marks, Written
<1>5. wsess \in Seq(WSessType) BY DEF WatcherInit
<1>6. issue \in IssueType BY DEF WatcherInit, IssueType
<1>q. QED BY <1>2, <1>3, <1>4, <1>5, <1>6, BoundsAre DEF WatcherInit, WatcherTypes

LEMMA EndIs ==
  ASSUME WatcherTypes, NEW k \in Kinds, Job(k) # NoJob
  PROVE  /\ FailedJob(k) \in WType
         /\ FailedJob(k).jobs = [w.jobs EXCEPT ![k] = NoJob]
         /\ FailedJob(k).handled = w.handled /\ FailedJob(k).reviewed = w.reviewed
         /\ FailedJob(k).asked = w.asked /\ FailedJob(k).home = w.home
<1> DEFINE none == [w.jobs EXCEPT ![k] = NoJob]
<1>1. none \in [Kinds -> JobType \cup {NoJob}] BY DEF WatcherTypes, WType
<1>2. Job(k).head \in 0..MaxHeads /\ Max2(w.failedThrough, Job(k).through) \in Marks
  BY JobIs, BoundsAre DEF WatcherTypes, WType, Heads, Marks, Max2
<1>q. QED BY <1>1, <1>2 DEF WatcherTypes, WType, FailedJob

(* The last of a finite set of numbers is one of them. *)
LEMMA LastIs ==
  ASSUME NEW n \in Nat, NEW S \in SUBSET (1..n), S # {}
  PROVE  \E c \in S : \A d \in S : d <= c
<1> DEFINE D == {n - c : c \in S}
<1>0. \A c \in S : n - c \in Nat OBVIOUS
<1>1. D \subseteq Nat /\ D # {} BY <1>0
<1>2. \E x \in D : \A y \in D : ~(<<y, x>> \in OpToRel(<, Nat))
  BY <1>1, WFMin, NatLessThanWellFounded, Zenon
<1>3. PICK c \in S : \A d \in S : ~(<<n - d, n - c>> \in OpToRel(<, Nat)) BY <1>2
<1>4. ASSUME NEW d \in S, c < d PROVE FALSE
  <2>1. n - d \in Nat /\ n - c \in Nat /\ n - d < n - c BY <1>4
  <2>2. <<n - d, n - c>> \in OpToRel(<, Nat) BY <2>1, Zenon DEF OpToRel
  <2>q. QED BY <1>3, <2>2, Zenon
<1> HIDE <1>3
<1>q. QED BY <1>4

LEMMA NewJobIs ==
  ASSUME NEW k \in Kinds, NEW head \in Heads, NEW due \in SUBSET Written
  PROVE  /\ NewJob(k, head, due) \in JobType
         /\ due # {} => NewJob(k, head, due).through \in due /\ \A d \in due : d <= NewJob(k, head, due).through
<1> DEFINE through == IF due = {} THEN 0 ELSE CHOOSE c \in due : \A d \in due : d <= c
<1>1. due # {} => through \in due /\ \A d \in due : d <= through BY LastIs, BoundsAre DEF Written
<1> HIDE DEF through
<1>2. through \in Marks
  <2>1. CASE due = {} BY <2>1, BoundsAre DEF Marks, through
  <2>2. CASE due # {}
    <3>1. through \in Written BY <2>2, <1>1
    <3>q. QED BY <3>1, BoundsAre DEF Marks, Written
  <2>q. QED BY <2>1, <2>2
<1>q. QED BY <1>1, <1>2 DEF NewJob, JobType, through

LEMMA WSessIs ==
  ASSUME NEW s \in Seq(WSessType)
  PROVE  s \in [1..Len(s) -> WSessType] /\ Len(s) \in Nat
OBVIOUS

LEMMA WSessFrom ==
  ASSUME NEW n \in Nat, NEW s \in [1..n -> WSessType]
  PROVE  s \in Seq(WSessType) /\ Len(s) = n
OBVIOUS

LEMMA StateIs ==
  ASSUME NEW x \in WSessType, NEW st \in {"idle", "running", "answered", "error", "completed"}
  PROVE  [x EXCEPT !.state = st] \in WSessType
BY DEF WSessType

LEMMA HomesAre ==
  ASSUME NEW s \in Seq({"requested", "done", "failed"}), NEW x \in {"requested", "done", "failed"},
         NEW i \in DOMAIN s
  PROVE  [s EXCEPT ![i] = x] \in Seq({"requested", "done", "failed"}) /\ Len([s EXCEPT ![i] = x]) = Len(s)
OBVIOUS

LEMMA WatcherTypesStep == ASSUME WatcherTypes, [WatcherNext]_watcherVars PROVE WatcherTypes'
<1> USE BoundsAre
<1>a. w \in WType BY DEF WatcherTypes
<1>b. poll \in PollType BY DEF WatcherTypes
<1>c. hub \in HubType BY DEF WatcherTypes
<1>d. wsess \in Seq(WSessType) BY DEF WatcherTypes
<1>n. wsess \in [1..Len(wsess) -> WSessType] /\ Len(wsess) \in Nat BY <1>d, WSessIs
<1>e. issue \in IssueType BY DEF WatcherTypes
<1>f. lostNo \in 0..MaxLost BY DEF WatcherTypes
<1>1. CASE Push
  <2>1. hub' \in HubType BY <1>1, <1>c DEF Push, HubType, Heads
  <2>q. QED BY <1>1, <2>1, <1>a, <1>b, <1>d, <1>e, <1>f DEF Push, WatcherTypes
<1>2. CASE Comment
  <2>1. hub' \in HubType BY <1>2, <1>c DEF Comment, HubType, Marks
  <2>q. QED BY <1>2, <2>1, <1>a, <1>b, <1>d, <1>e, <1>f DEF Comment, WatcherTypes
<1>3. CASE EditIssue
  <2>1. issue' \in IssueType BY <1>3, <1>e DEF EditIssue, IssueType
  <2>q. QED BY <1>3, <2>1, <1>a, <1>b, <1>c, <1>d, <1>f DEF EditIssue, WatcherTypes
<1>4. ASSUME NEW h \in DOMAIN issue.homes, IssueRuns(h) PROVE WatcherTypes'
  <2>1. PICK end \in {"requested", "done", "failed"} : issue' = [issue EXCEPT !.homes[h] = end] BY <1>4 DEF IssueRuns
  <2>2. issue' = [issue EXCEPT !.homes = [issue.homes EXCEPT ![h] = end]] BY <2>1
  <2>3. [issue.homes EXCEPT ![h] = end] \in Seq({"requested", "done", "failed"}) BY <1>e, HomesAre DEF IssueType
  <2>4. issue' \in IssueType BY <2>2, <2>3, <1>e DEF IssueType
  <2>q. QED BY <1>4, <2>4, <1>a, <1>b, <1>c, <1>d, <1>f DEF IssueRuns, WatcherTypes
<1>5. ASSUME NEW s \in DOMAIN wsess, SessionEnds(s) PROVE WatcherTypes'
  <2>1. wsess[s] \in WSessType BY <1>d
  <2> DEFINE new == wsess'[s]
  <2>1a. new \in WSessType
    <3>1. ASSUME NEW commits \in BOOLEAN, NEW replies \in SUBSET wsess[s].due
          PROVE  [wsess[s] EXCEPT !.state = "answered", !.commits = commits, !.replies = replies] \in WSessType
      BY <2>1 DEF WSessType
    <3>2. \/ \E commits \in BOOLEAN, replies \in SUBSET wsess[s].due :
               new = [wsess[s] EXCEPT !.state = "answered", !.commits = commits, !.replies = replies]
          \/ new = [wsess[s] EXCEPT !.state = "error"]
          \/ new = [wsess[s] EXCEPT !.state = "completed"]
      BY <1>5 DEF SessionEnds
    <3>q. QED BY <2>1, <3>1, <3>2, StateIs
  <2>1b. wsess' = [wsess EXCEPT ![s] = new] BY <1>5 DEF SessionEnds
  <2> HIDE DEF new
  <2>2. wsess' \in [1..Len(wsess) -> WSessType] BY <2>1a, <2>1b, <1>n
  <2>3. wsess' \in Seq(WSessType) BY <2>2, <1>n, WSessFrom
  <2>q. QED BY <1>5, <2>3, <1>a, <1>b, <1>c, <1>e, <1>f DEF SessionEnds, WatcherTypes
<1>6. ASSUME NEW k \in Kinds, CreateFor(k) PROVE WatcherTypes'
  <2>1. Job(k) \in JobType BY <1>6, JobIs DEF CreateFor, Advancing
  <2>2. [kind |-> k, state |-> "idle", commits |-> FALSE, due |-> Job(k).due, replies |-> {}] \in WSessType
    BY <2>1 DEF JobType, WSessType
  <2>3. wsess' \in Seq(WSessType) BY <1>6, <2>2, <1>d, AppendProperties DEF CreateFor
  <2>3a. Len(wsess) + 1 \in Nat BY <1>d
  <2>4. [Job(k) EXCEPT !.session = Len(wsess) + 1] \in JobType BY <2>1, <2>3a DEF JobType
  <2>5. w' \in WType /\ lostNo' \in 0..MaxLost BY <1>6, <2>4, PutIs, RecordsIs DEF CreateFor
  <2>q. QED BY <1>6, <2>3, <2>5 DEF CreateFor, WatcherTypes
<1>7. ASSUME NEW k \in Kinds, PromptFor(k) PROVE WatcherTypes'
  <2>1. Job(k) \in JobType BY <1>7, JobIs DEF PromptFor, Advancing
  <2>2. [Job(k) EXCEPT !.prompted = TRUE] \in JobType BY <2>1 DEF JobType
  <2>3. w' \in WType /\ lostNo' \in 0..MaxLost BY <1>7, <2>2, PutIs, RecordsIs DEF PromptFor
  <2> DEFINE s == Job(k).session
             new == [wsess[s] EXCEPT !.state = IF @ = "idle" THEN "running" ELSE @]
  <2>3a. s \in DOMAIN wsess => new \in WSessType
    <3>1. ASSUME s \in DOMAIN wsess PROVE wsess[s] \in WSessType BY <1>n, <3>1
    <3>2. ASSUME wsess[s] \in WSessType PROVE new \in WSessType BY <3>2 DEF WSessType
    <3>q. QED BY <3>1, <3>2
  <2>3b. wsess' = [wsess EXCEPT ![s] = new] BY <1>7 DEF PromptFor
  <2> HIDE DEF new
  <2>4. wsess' \in [1..Len(wsess) -> WSessType] BY <2>3a, <2>3b, <1>n
  <2>4a. wsess' \in Seq(WSessType) BY <2>4, <1>n, WSessFrom
  <2>5. poll' \in PollType BY <1>7, <1>b DEF PromptFor, Leaves, PollType
  <2>q. QED BY <1>7, <2>3, <2>4a, <2>5 DEF PromptFor, WatcherTypes
<1>8. ASSUME NEW k \in Kinds, StillRunning(k) \/ PostFails(k) PROVE WatcherTypes'
  <2>1. poll' \in PollType BY <1>8, <1>b DEF StillRunning, PostFails, Leaves, PollType
  <2>q. QED BY <1>8, <2>1, <1>a, <1>c, <1>d, <1>e, <1>f DEF StillRunning, PostFails, WatcherTypes
<1>9. ASSUME NEW k \in Kinds, StopFor(k) PROVE WatcherTypes'
  <2>1. Job(k) \in JobType BY <1>9, JobIs DEF StopFor, Ready, Advancing
  <2>2. [Job(k) EXCEPT !.stopped = TRUE] \in JobType BY <2>1 DEF JobType
  <2>3. w' \in WType BY <1>9, <2>2, PutIs DEF StopFor
  <2>4. wsess' \in [1..Len(wsess) -> WSessType] BY <1>9, <1>n DEF StopFor, WSessType
  <2>4a. wsess' \in Seq(WSessType) BY <2>4, <1>n, WSessFrom
  <2>q. QED BY <1>9, <2>3, <2>4a DEF StopFor, WatcherTypes
<1>10. ASSUME NEW k \in Kinds, EndedOtherwise(k) PROVE WatcherTypes'
  <2>1. w' \in WType BY <1>10, EndIs DEF EndedOtherwise, Ready, Advancing
  <2>2. poll' \in PollType BY <1>10, <1>b DEF EndedOtherwise, Leaves, PollType
  <2>q. QED BY <1>10, <2>1, <2>2 DEF EndedOtherwise, WatcherTypes
<1>11. CASE PostReview
  <2>1. "review" \in Kinds /\ Job("review") # NoJob BY <1>11 DEF PostReview, Posting, Ready, Advancing, Kinds
  <2>2. Job("review").head \in Heads BY <2>1, JobIs
  <2>3. hub' \in HubType BY <1>11, <2>2, <1>c DEF PostReview, HubType
  <2> DEFINE none == [w.jobs EXCEPT !["review"] = NoJob]
             new == [w EXCEPT !.reviewed = Job("review").head, !.jobs["review"] = NoJob]
  <2>4. none \in [Kinds -> JobType \cup {NoJob}] BY <1>a DEF WType
  <2>5. new \in WType
    <3>1. new = [w EXCEPT !.reviewed = Job("review").head, !.jobs = none] OBVIOUS
    <3>2. Job("review").head \in 0..MaxHeads BY <2>2 DEF Heads
    <3> HIDE DEF none, new
    <3>q. QED BY <3>1, <3>2, <2>4, <1>a DEF WType
  <2>6. w' \in WType /\ lostNo' \in 0..MaxLost BY <1>11, <2>5, RecordsIs DEF PostReview
  <2>7. poll' \in PollType BY <1>11, <1>b DEF PostReview, Leaves, PollType
  <2>q. QED BY <1>11, <2>3, <2>6, <2>7 DEF PostReview, WatcherTypes
<1>12. CASE PushCommits
  <2> DEFINE job == Job("comments")
             put == [job EXCEPT !.pushed = TRUE]
  <2>1. "comments" \in Kinds /\ job # NoJob BY <1>12 DEF PushCommits, Posting, Ready, Advancing, Kinds
  <2>2. job \in JobType BY <2>1, JobIs
  <2>3. put \in JobType BY <2>2 DEF JobType
  <2>4. Put(put) \in WType BY <2>3, PutIs
  <2>5. FailedJob("comments") \in WType BY <2>1, EndIs
  <2>6. w' \in WType /\ lostNo' \in 0..MaxLost
    <3>1. CASE Records(Put(put)) BY <2>4, <3>1, RecordsIs
    <3>2. CASE w' \in {Put(put), FailedJob("comments")} /\ lostNo' = lostNo
      BY <2>4, <2>5, <3>2 DEF WatcherTypes
    <3>q. QED BY <1>12, <3>1, <3>2 DEF PushCommits
  <2>7. poll' \in PollType BY <1>12, <1>b DEF PushCommits, Leaves, PollType
  <2>8. hub' \in HubType
    <3>1. CASE hub' = hub BY <3>1, <1>c
    <3>2. CASE hub.head < MaxHeads /\ hub' = [hub EXCEPT !.head = @ + 1] BY <3>2, <1>c DEF HubType, Heads
    <3>q. QED BY <1>12, <3>1, <3>2 DEF PushCommits
  <2> DEFINE new == [wsess[job.session] EXCEPT !.commits = FALSE]
  <2>9a. wsess' \in [1..Len(wsess) -> WSessType]
    <3>1. CASE wsess' = wsess BY <3>1, <1>n
    <3>2. CASE wsess' = [wsess EXCEPT ![job.session].commits = FALSE]
      <4>1. wsess' = [wsess EXCEPT ![job.session] = new] BY <3>2
      <4>2. ASSUME job.session \in DOMAIN wsess PROVE wsess[job.session] \in WSessType BY <1>n, <4>2
      <4>3. ASSUME wsess[job.session] \in WSessType PROVE new \in WSessType BY <4>3 DEF WSessType
      <4> HIDE DEF new
      <4>q. QED BY <4>1, <4>2, <4>3, <1>n
    <3>q. QED BY <1>12, <3>1, <3>2 DEF PushCommits
  <2>9. wsess' \in Seq(WSessType) BY <2>9a, <1>n, WSessFrom
  <2>q. QED BY <1>12, <2>6, <2>7, <2>8, <2>9 DEF PushCommits, WatcherTypes
<1>13. ASSUME NEW c \in 1..MaxComments, PostReply(c) PROVE WatcherTypes'
  <2> DEFINE job == Job("comments")
             put == [job EXCEPT !.posted = @ \cup {c}]
  <2>1. "comments" \in Kinds /\ job # NoJob BY <1>13 DEF PostReply, Posting, Ready, Advancing, Kinds
  <2>2. put \in JobType BY <2>1, JobIs DEF JobType, Written
  <2>3. w' \in WType /\ lostNo' \in 0..MaxLost BY <1>13, <2>2, PutIs, RecordsIs DEF PostReply
  <2> DEFINE ans == [hub.answers EXCEPT ![c] = @ + 1]
  <2>4. hub' \in HubType
    <3>1. hub.answers \in [Written -> Nat] BY <1>c DEF HubType
    <3>1a. c \in Written BY DEF Written
    <3>1b. hub.answers[c] + 1 \in Nat BY <3>1, <3>1a
    <3>2. ans \in [Written -> Nat] BY <3>1, <3>1b
    <3>3. hub' = [hub EXCEPT !.answers = ans] BY <1>13 DEF PostReply
    <3> HIDE DEF ans
    <3>q. QED BY <3>2, <3>3, <1>c DEF HubType
  <2>q. QED BY <1>13, <2>3, <2>4 DEF PostReply, WatcherTypes
<1>14. CASE PostRest
  <2> DEFINE job == Job("comments")
             put == [job EXCEPT !.posted = @ \cup Rest]
  <2>1. "comments" \in Kinds /\ job # NoJob BY <1>14 DEF PostRest, Posting, Ready, Advancing, Kinds
  <2>2. put \in JobType BY <2>1, JobIs DEF JobType, Rest
  <2>3. w' \in WType /\ lostNo' \in 0..MaxLost BY <1>14, <2>2, PutIs, RecordsIs DEF PostRest
  <2> DEFINE ans == [c \in DOMAIN hub.answers |-> IF c \in Rest THEN hub.answers[c] + 1 ELSE hub.answers[c]]
  <2>4. hub' \in HubType
    <3>1. hub.answers \in [Written -> Nat] BY <1>c DEF HubType
    <3>1a. \A c \in Written : hub.answers[c] + 1 \in Nat /\ hub.answers[c] \in Nat BY <3>1
    <3>1b. ans = [c \in Written |-> IF c \in Rest THEN hub.answers[c] + 1 ELSE hub.answers[c]] BY <3>1
    <3>2. ans \in [Written -> Nat] BY <3>1a, <3>1b
    <3>3. hub' = [hub EXCEPT !.answers = ans] BY <1>14 DEF PostRest
    <3> HIDE DEF ans
    <3>q. QED BY <3>2, <3>3, <1>c DEF HubType
  <2>q. QED BY <1>14, <2>3, <2>4 DEF PostRest, WatcherTypes
<1>15. CASE CommentsDone
  <2>1. "comments" \in Kinds /\ Job("comments") # NoJob
    BY <1>15 DEF CommentsDone, Posting, Ready, Advancing, Kinds
  <2>2. Max2(w.handled, Job("comments").through) \in Marks
    BY <2>1, JobIs, <1>a DEF WType, Marks, Max2
  <2> DEFINE none == [w.jobs EXCEPT !["comments"] = NoJob]
  <2>3. none \in [Kinds -> JobType \cup {NoJob}] BY <1>a DEF WType
  <2>4. w' \in WType
    <3>1. w' = [w EXCEPT !.handled = Max2(w.handled, Job("comments").through), !.failedThrough = 0, !.jobs = none]
      BY <1>15 DEF CommentsDone
    <3>2. 0 \in Marks BY DEF Marks
    <3> HIDE DEF none
    <3>q. QED BY <3>1, <3>2, <2>2, <2>3, <1>a DEF WType
  <2>5. poll' \in PollType BY <1>15, <1>b DEF CommentsDone, Leaves, PollType
  <2>q. QED BY <1>15, <2>4, <2>5 DEF CommentsDone, WatcherTypes
<1>16. CASE PollGitHub
  <2>1. \A q \in BOOLEAN : CommentsDue(q) \subseteq Written BY <1>c DEF CommentsDue, Written, HubType, Marks
  <2>2. w' \in WType BY <1>16, <1>a, <1>b DEF PollGitHub, WType, PollType, Heads
  <2>3. poll' \in PollType
    <3>1. poll.head \in 0..MaxHeads /\ 0 \in 0..MaxHeads BY <1>b DEF PollType, Heads
    <3>2. PICK quietHead \in BOOLEAN, quietComments \in BOOLEAN :
            poll' = [poll EXCEPT !.step = "start", !.review = IF ReviewDue(quietHead) THEN poll.head ELSE 0,
                                 !.due = CommentsDue(quietComments)]
      BY <1>16 DEF PollGitHub
    <3> DEFINE rev == IF ReviewDue(quietHead) THEN poll.head ELSE 0
    <3>3. rev \in 0..MaxHeads BY <3>1
    <3> HIDE DEF rev
    <3>4. poll' = [poll EXCEPT !.step = "start", !.review = rev, !.due = CommentsDue(quietComments)]
      BY <3>2 DEF rev
    <3>q. QED BY <3>3, <3>4, <2>1, <1>b DEF PollType
  <2>q. QED BY <1>16, <2>2, <2>3 DEF PollGitHub, WatcherTypes
<1>17. CASE StartComments
  <2>1. NewJob("comments", poll.head, poll.due) \in JobType BY <1>17, <1>b, NewJobIs DEF StartComments, PollType, Kinds
  <2>2. w' \in WType BY <1>17, <2>1, PutIs DEF StartComments
  <2>3. poll' \in PollType BY <1>17, <1>b DEF StartComments, PollType
  <2>q. QED BY <1>17, <2>2, <2>3, <1>c, <1>d, <1>e, <1>f DEF StartComments, WatcherTypes
<1>17a. CASE StartReview
  <2>1. poll.review \in Heads BY <1>17a, <1>b DEF StartReview, PollType, Heads
  <2>2. NewJob("review", poll.review, {}) \in JobType BY <2>1, NewJobIs DEF Kinds
  <2>3. w' \in WType BY <1>17a, <2>2, PutIs DEF StartReview
  <2>4. poll' \in PollType BY <1>17a, <1>b DEF StartReview, PollType
  <2>q. QED BY <1>17a, <2>3, <2>4, <1>c, <1>d, <1>e, <1>f DEF StartReview, WatcherTypes
<1>18. CASE NextPoll
  <2>1. poll' \in PollType BY <1>18, <1>c DEF NextPoll, PollType, HubType
  <2>q. QED BY <1>18, <2>1, <1>a, <1>c, <1>d, <1>e, <1>f DEF NextPoll, WatcherTypes
<1>19. CASE HandIssue
  <2> DEFINE homes == Append(issue.homes, "requested")
  <2>1a. issue.homes \in Seq({"requested", "done", "failed"}) /\ issue.edits \in Nat BY <1>e DEF IssueType
  <2>1b. homes \in Seq({"requested", "done", "failed"}) BY <2>1a
  <2>1c. issue' = [issue EXCEPT !.homes = homes] BY <1>19 DEF HandIssue
  <2> HIDE DEF homes
  <2>1. issue' \in IssueType BY <2>1b, <2>1c, <1>e DEF IssueType
  <2>1d. Len(issue.homes) + 1 \in Nat BY <2>1a
  <2>2. [w EXCEPT !.home = Len(issue.homes) + 1, !.asked = issue.edits] \in WType
    BY <1>a, <2>1a, <2>1d DEF WType
  <2>3. w' \in WType /\ lostNo' \in 0..MaxLost BY <1>19, <2>2, RecordsIs DEF HandIssue
  <2>q. QED BY <1>19, <2>1, <2>3, <1>b, <1>c, <1>d DEF HandIssue, WatcherTypes
<1>20. CASE RerunIssue
  <2> DEFINE homes == [issue.homes EXCEPT ![w.home] = "requested"]
  <2>1a. issue.homes \in Seq({"requested", "done", "failed"}) /\ issue.edits \in Nat /\ issue.reruns \in Nat
    BY <1>e DEF IssueType
  <2>1b. homes \in Seq({"requested", "done", "failed"})
    <3>1. CASE w.home \in DOMAIN issue.homes BY <2>1a, <3>1, HomesAre
    <3>2. CASE w.home \notin DOMAIN issue.homes
      <4>1. homes = issue.homes BY <2>1a, <3>2
      <4>q. QED BY <4>1, <2>1a
    <3>q. QED BY <3>1, <3>2
  <2>1c. issue' = [issue EXCEPT !.homes = homes, !.reruns = issue.reruns + 1] BY <1>20 DEF RerunIssue
  <2> HIDE DEF homes
  <2>1d. issue.reruns + 1 \in Nat BY <2>1a
  <2>1. issue' \in IssueType
    <3> DEFINE n == issue.reruns + 1
    <3>1. n \in Nat BY <2>1d
    <3>2. issue' = [issue EXCEPT !.homes = homes, !.reruns = n] BY <2>1c
    <3> HIDE DEF n
    <3>q. QED BY <3>1, <3>2, <2>1b, <1>e DEF IssueType
  <2>2. [w EXCEPT !.asked = issue.edits] \in WType BY <1>a, <2>1a DEF WType
  <2>3. w' \in WType /\ lostNo' \in 0..MaxLost BY <1>20, <2>2, RecordsIs DEF RerunIssue
  <2>q. QED BY <1>20, <2>1, <2>3, <1>b, <1>c, <1>d DEF RerunIssue, WatcherTypes
<1>21. CASE UNCHANGED watcherVars BY <1>21 DEF watcherVars, WatcherTypes
<1>q. QED BY <1>1, <1>2, <1>3, <1>4, <1>5, <1>6, <1>7, <1>8, <1>9, <1>10, <1>11, <1>12, <1>13, <1>14,
   <1>15, <1>16, <1>17, <1>17a, <1>18, <1>19, <1>20, <1>21 DEF WatcherNext

-----------------------------------------------------------------------------
(* What a step does to the sessions of the jobs. *)
SessionsGrow ==
  /\ Len(wsess) <= Len(wsess')
  /\ \A s \in 1..Len(wsess) :
       /\ wsess'[s].due = wsess[s].due
       /\ wsess[s].state = "completed" =>
            wsess'[s].state = "completed" /\ wsess'[s].replies = wsess[s].replies
  /\ \A s \in DOMAIN wsess' : wsess'[s].replies \subseteq wsess'[s].due

LEMMA SameGrow == ASSUME WatcherTypes, JobsFit, UNCHANGED wsess PROVE SessionsGrow
<1>1. wsess \in Seq(WSessType) BY DEF WatcherTypes
<1>2. Len(wsess) \in Nat BY <1>1
<1>q. QED BY <1>2 DEF SessionsGrow, JobsFit

LEMMA AtGrow ==
  ASSUME WatcherTypes, JobsFit, NEW s, NEW new, wsess' = [wsess EXCEPT ![s] = new],
         s \in DOMAIN wsess => /\ new.due = wsess[s].due /\ new.replies \subseteq new.due
                               /\ wsess[s].state = "completed" => new.state = "completed" /\ new.replies = wsess[s].replies
  PROVE  SessionsGrow
<1>1. wsess \in Seq(WSessType) BY DEF WatcherTypes
<1>2. Len(wsess) \in Nat /\ wsess \in [1..Len(wsess) -> WSessType] BY <1>1, WSessIs
<1>3. DOMAIN wsess' = 1..Len(wsess) /\ DOMAIN wsess = 1..Len(wsess) BY <1>2
<1>4. Len(wsess') = Len(wsess)
  <2>1. wsess' = [i \in 1..Len(wsess) |-> wsess'[i]] BY <1>2
  <2>q. QED BY <1>1, <1>2, <2>1
<1>5. \A i \in 1..Len(wsess) : wsess'[i] = IF i = s THEN new ELSE wsess[i] BY <1>2
<1>6. \A i \in 1..Len(wsess) : wsess[i].replies \subseteq wsess[i].due BY <1>3 DEF JobsFit
<1>q. QED BY <1>2, <1>3, <1>4, <1>5, <1>6 DEF SessionsGrow

LEMMA SessionsStep ==
  ASSUME WatcherTypes, JobsFit, [WatcherNext]_watcherVars
  PROVE  SessionsGrow
<1>d. wsess \in Seq(WSessType) BY DEF WatcherTypes
<1>n. Len(wsess) \in Nat /\ DOMAIN wsess = 1..Len(wsess) /\ wsess \in [1..Len(wsess) -> WSessType]
  BY <1>d, WSessIs
<1>r. \A s \in DOMAIN wsess : wsess[s].replies \subseteq wsess[s].due BY DEF JobsFit
<1>t. \A s \in DOMAIN wsess : wsess[s] = [kind |-> wsess[s].kind, state |-> wsess[s].state, commits |-> wsess[s].commits,
                                          due |-> wsess[s].due, replies |-> wsess[s].replies]
  BY <1>n DEF WSessType
<1>5. ASSUME NEW s \in DOMAIN wsess, SessionEnds(s) PROVE SessionsGrow
  <2> DEFINE new == wsess'[s]
  <2>1. wsess' = [wsess EXCEPT ![s] = new] BY <1>5 DEF SessionEnds
  <2>2. \/ \E commits \in BOOLEAN, replies \in SUBSET wsess[s].due :
             new = [wsess[s] EXCEPT !.state = "answered", !.commits = commits, !.replies = replies]
        \/ new = [wsess[s] EXCEPT !.state = "error"]
        \/ new = [wsess[s] EXCEPT !.state = "completed"]
    BY <1>5 DEF SessionEnds
  <2>3. wsess[s].state = "running" BY <1>5 DEF SessionEnds
  <2>4. new.due = wsess[s].due /\ new.replies \subseteq wsess[s].due BY <2>2, <1>r, <1>t
  <2> HIDE DEF new
  <2>q. QED BY <2>1, <2>3, <2>4, AtGrow
<1>6. ASSUME NEW k \in Kinds, CreateFor(k) PROVE SessionsGrow
  <2> DEFINE new == [kind |-> k, state |-> "idle", commits |-> FALSE, due |-> Job(k).due, replies |-> {}]
  <2>1. wsess' = Append(wsess, new) BY <1>6 DEF CreateFor
  <2>2. new.replies \subseteq new.due OBVIOUS
  <2> HIDE DEF new
  <2>3. Len(wsess') = Len(wsess) + 1 /\ DOMAIN wsess' = 1..(Len(wsess) + 1) BY <2>1, <1>d
  <2>4. wsess'[Len(wsess) + 1] = new /\ \A i \in 1..Len(wsess) : wsess'[i] = wsess[i] BY <2>1, <1>d
  <2>q. QED BY <1>n, <1>r, <2>2, <2>3, <2>4 DEF SessionsGrow
<1>7. ASSUME NEW k \in Kinds, PromptFor(k) \/ StopFor(k) PROVE SessionsGrow
  <2> DEFINE s == Job(k).session
             new == wsess'[s]
  <2>1. wsess' = [wsess EXCEPT ![s] = new] BY <1>7 DEF PromptFor, StopFor
  <2>2. s \in DOMAIN wsess => \/ new = [wsess[s] EXCEPT !.state = IF @ = "idle" THEN "running" ELSE @]
                              \/ wsess[s].state = "answered" /\ new = [wsess[s] EXCEPT !.state = "completed"]
    BY <1>7 DEF PromptFor, StopFor, StateOf
  <2>3. ASSUME s \in DOMAIN wsess
        PROVE  /\ new.due = wsess[s].due /\ new.replies = wsess[s].replies
               /\ wsess[s].state = "completed" => new.state = "completed"
    BY <2>2, <2>3, <1>t
  <2> HIDE DEF new, s
  <2>q. QED BY <2>1, <2>3, <1>r, AtGrow
<1>12. CASE PushCommits
  <2> DEFINE s == Job("comments").session
             new == [wsess[s] EXCEPT !.commits = FALSE]
  <2>1. wsess' = wsess \/ wsess' = [wsess EXCEPT ![s] = new] BY <1>12 DEF PushCommits
  <2>2. s \in DOMAIN wsess => new.due = wsess[s].due /\ new.replies = wsess[s].replies /\ new.state = wsess[s].state
    BY <1>t
  <2> HIDE DEF new, s
  <2>q. QED BY <2>1, <2>2, <1>r, AtGrow, SameGrow
<1>q. QED
  <2>1. CASE UNCHANGED wsess BY <2>1, SameGrow
  <2>q. QED BY <2>1, <1>5, <1>6, <1>7, <1>12 DEF WatcherNext, watcherVars, Push, Comment, EditIssue, IssueRuns,
          StillRunning, EndedOtherwise, PostFails, PostReview, PostReply, PostRest, CommentsDone, PollGitHub,
          StartComments, StartReview, NextPoll, HandIssue, RerunIssue

-----------------------------------------------------------------------------
(* The jobs and their sessions. *)
LEMMA FitsOn ==
  ASSUME WatcherTypes, WatcherTypes', SessionsGrow, NEW job \in JobType, NEW k \in Kinds, JobFits(job, k, wsess)
  PROVE  JobFits(job, k, wsess')
<1>1. Len(wsess) \in Nat /\ Len(wsess') \in Nat BY WSessIs DEF WatcherTypes
<1>2. job.session \in Nat BY DEF JobType
<1>3. job.session # 0 => job.session \in 1..Len(wsess) BY <1>1, <1>2 DEF JobFits
<1>4. Len(wsess) <= Len(wsess') /\ job.session \in 0..Len(wsess) BY DEF SessionsGrow, JobFits
<1>5. job.session \in 0..Len(wsess') BY <1>1, <1>2, <1>4
<1>6. job.session # 0 => wsess'[job.session].due = wsess[job.session].due
       /\ (wsess[job.session].state = "completed" => wsess'[job.session].state = "completed")
  BY <1>3 DEF SessionsGrow
<1>q. QED BY <1>5, <1>6, Zenon DEF JobFits

LEMMA JobsKept ==
  ASSUME WatcherTypes, WatcherTypes', JobsFit, SessionsGrow,
         \A k \in Kinds : w'.jobs[k] # NoJob => w'.jobs[k] = w.jobs[k] \/ JobFits(w'.jobs[k], k, wsess'),
         poll'.step = "advance" => \/ poll'.due = {} /\ poll'.review = 0
                                   \/ poll.step = "advance" /\ poll'.due = poll.due /\ poll'.review = poll.review
  PROVE  JobsFit'
<1>1. ASSUME NEW k \in Kinds, w'.jobs[k] # NoJob PROVE JobFits(w'.jobs[k], k, wsess')
  <2>1. CASE w'.jobs[k] = w.jobs[k]
    <3>1. w.jobs[k] # NoJob /\ w.jobs[k] = Job(k) BY <1>1, <2>1 DEF Job
    <3>2. w.jobs[k] \in JobType BY <3>1, JobIs
    <3>3. JobFits(w.jobs[k], k, wsess) BY <3>1 DEF JobsFit
    <3>q. QED BY <2>1, <3>2, <3>3, FitsOn
  <2>q. QED BY <1>1, <2>1
<1>q. QED BY <1>1 DEF JobsFit, SessionsGrow, Job

(* A job that is put in place of another. *)
LEMMA PutKept ==
  ASSUME WatcherTypes, WatcherTypes', JobsFit, SessionsGrow, NEW job \in JobType,
         w' = Put(job) \/ w'.jobs = w.jobs, JobFits(job, job.kind, wsess'),
         poll'.step = "advance" => poll.step = "advance" /\ poll'.due = poll.due /\ poll'.review = poll.review
  PROVE  JobsFit'
<1>1. \A k \in Kinds : Put(job).jobs[k] = IF k = job.kind THEN job ELSE w.jobs[k] BY PutIs
<1>q. QED BY <1>1, JobsKept

LEMMA JobsStep ==
  ASSUME WatcherTypes, WatcherTypes', JobsFit, SessionsGrow, [WatcherNext]_watcherVars
  PROVE  JobsFit'
<1>n. /\ w.jobs \in [Kinds -> JobType \cup {NoJob}]
      /\ Len(wsess) \in Nat /\ wsess \in [1..Len(wsess) -> WSessType] /\ Len(wsess') \in Nat
  BY WSessIs DEF WatcherTypes, WType
<1>p. poll = [step |-> poll.step, head |-> poll.head, left |-> poll.left, moved |-> poll.moved,
              review |-> poll.review, due |-> poll.due]
  BY DEF WatcherTypes, PollType
<1>w. w = [seen |-> w.seen, reviewed |-> w.reviewed, failed |-> w.failed, handled |-> w.handled,
           failedThrough |-> w.failedThrough, jobs |-> w.jobs, asked |-> w.asked, home |-> w.home]
  BY DEF WatcherTypes, WType
<1>l. \A k : Leaves(k) => poll'.step = poll.step /\ poll'.due = poll.due /\ poll'.review = poll.review
  BY <1>p DEF Leaves
<1>0. CASE w'.jobs = w.jobs /\ (poll' = poll \/ \E k \in Kinds : Leaves(k))
  BY <1>0, <1>l, JobsKept
<1>6. ASSUME NEW k \in Kinds, CreateFor(k) PROVE JobsFit'
  <2> DEFINE put == [Job(k) EXCEPT !.session = Len(wsess) + 1]
             new == [kind |-> k, state |-> "idle", commits |-> FALSE, due |-> Job(k).due, replies |-> {}]
  <2>1. Job(k) \in JobType /\ Job(k) # NoJob BY <1>6, JobIs DEF CreateFor, Advancing
  <2>2. JobFits(Job(k), k, wsess) /\ Job(k).session = 0 BY <1>6, <2>1 DEF JobsFit, CreateFor
  <2>3. put \in JobType BY <2>1, <1>n DEF JobType
  <2>4. /\ put.kind = Job(k).kind /\ put.due = Job(k).due /\ put.prompted = Job(k).prompted
        /\ put.stopped = Job(k).stopped /\ put.pushed = Job(k).pushed /\ put.posted = Job(k).posted
        /\ put.session = Len(wsess) + 1
    BY <2>1 DEF JobType
  <2>5. wsess' = Append(wsess, new) /\ wsess \in Seq(WSessType) BY <1>6 DEF CreateFor, WatcherTypes
  <2>6. new.due = Job(k).due OBVIOUS
  <2> HIDE DEF new
  <2>7. Len(wsess') = Len(wsess) + 1 /\ wsess'[Len(wsess) + 1] = new BY <2>5
  <2>8. w' = Put(put) \/ w' = w BY <1>6 DEF CreateFor, Records
  <2> HIDE DEF put
  <2>9. put.kind = k /\ put.session \in 0..Len(wsess') BY <2>2, <2>4, <2>7, <1>n DEF JobFits
  <2>10. JobFits(put, k, wsess') BY <2>2, <2>4, <2>6, <2>7, <2>9 DEF JobFits
  <2>q. QED BY <1>6, <2>3, <2>8, <2>9, <2>10, PutKept DEF CreateFor
<1>7. ASSUME NEW k \in Kinds,
             \/ PromptFor(k) \/ StopFor(k)
             \/ k = "comments" /\ PushCommits /\ w' \in {w, Put([Job(k) EXCEPT !.pushed = TRUE])}
      PROVE  JobsFit'
  <2>1. Job(k) \in JobType /\ Job(k) # NoJob BY <1>7, JobIs DEF PromptFor, StopFor, PushCommits, Posting, Ready, Advancing
  <2>2. JobFits(Job(k), k, wsess) BY <2>1 DEF JobsFit
  <2>3. JobFits(Job(k), k, wsess') BY <2>1, <2>2, FitsOn
  <2>p. poll'.step = "advance" => poll.step = "advance" /\ poll'.due = poll.due /\ poll'.review = poll.review
    <3>1. CASE \E j \in Kinds : Leaves(j) BY <3>1, <1>l
    <3>2. CASE poll' = poll \/ poll' = [poll EXCEPT !.moved = TRUE] BY <3>2, <1>p
    <3>q. QED BY <1>7, <3>1, <3>2 DEF PromptFor, StopFor, PushCommits
  <2>4. CASE PromptFor(k)
    <3> DEFINE put == [Job(k) EXCEPT !.prompted = TRUE]
    <3>1. put \in JobType /\ Job(k).session # 0 BY <1>7, <2>1, <2>4 DEF JobType, PromptFor
    <3>2. JobFits(put, k, wsess') BY <2>1, <2>3, <3>1 DEF JobFits, JobType
    <3>3. w' = Put(put) \/ w' = w BY <2>4 DEF PromptFor, Records
    <3> HIDE DEF put
    <3>q. QED BY <3>1, <3>2, <3>3, <2>p, PutKept DEF JobFits
  <2>5. CASE StopFor(k)
    <3> DEFINE put == [Job(k) EXCEPT !.stopped = TRUE]
    <3>1. put \in JobType /\ Job(k).prompted BY <2>1, <2>5 DEF JobType, StopFor, Ready
    <3>2. Job(k).session \in 1..Len(wsess) BY <2>1, <2>2, <3>1, <1>n DEF JobFits, JobType
    <3>3. wsess'[Job(k).session].state = "completed" BY <2>5, <3>2, <1>n DEF StopFor, WSessType
    <3>4. JobFits(put, k, wsess') BY <2>1, <2>3, <3>1, <3>3 DEF JobFits, JobType
    <3>5. w' = Put(put) BY <2>5 DEF StopFor
    <3> HIDE DEF put
    <3>q. QED BY <3>1, <3>4, <3>5, <2>p, PutKept DEF JobFits
  <2>6. CASE k = "comments" /\ PushCommits /\ w' \in {w, Put([Job(k) EXCEPT !.pushed = TRUE])}
    <3> DEFINE put == [Job(k) EXCEPT !.pushed = TRUE]
    <3>1. put \in JobType /\ Job(k).stopped BY <2>1, <2>6 DEF JobType, PushCommits, Posting
    <3>2. JobFits(put, k, wsess') BY <2>1, <2>3, <3>1 DEF JobFits, JobType
    <3>3. w' = Put(put) \/ w' = w BY <2>6
    <3> HIDE DEF put
    <3>q. QED BY <3>1, <3>2, <3>3, <2>p, PutKept DEF JobFits
  <2>q. QED BY <1>7, <2>4, <2>5, <2>6
<1>10. ASSUME NEW k \in Kinds, Job(k) # NoJob, w' = FailedJob(k), Leaves(k) PROVE JobsFit'
  <2>1. \A j \in Kinds : w'.jobs[j] = IF j = k THEN NoJob ELSE w.jobs[j] BY <1>10, <1>n, EndIs
  <2>q. QED BY <1>10, <2>1, <1>l, JobsKept
<1>11. ASSUME NEW k \in Kinds, w'.jobs = [w.jobs EXCEPT ![k] = NoJob], Leaves(k) PROVE JobsFit'
  <2>1. \A j \in Kinds : w'.jobs[j] = IF j = k THEN NoJob ELSE w.jobs[j] BY <1>11, <1>n
  <2>q. QED BY <1>11, <2>1, <1>l, JobsKept
<1>13. ASSUME NEW put \in JobType, "comments" \in Kinds, Job("comments") # NoJob, Posting("comments"),
              Job("comments").pushed, put = [Job("comments") EXCEPT !.posted = put.posted],
              w' = Put(put) \/ w' = w, UNCHANGED <<poll, wsess>>
       PROVE  JobsFit'
  <2>1. Job("comments") \in JobType /\ JobFits(Job("comments"), "comments", wsess) BY <1>13, JobIs DEF JobsFit
  <2>2. JobFits(put, "comments", wsess') BY <1>13, <2>1 DEF JobFits, JobType
  <2>3. put.kind = "comments" BY <2>2 DEF JobFits
  <2>q. QED BY <1>13, <2>2, <2>3, PutKept
<1>17. ASSUME NEW k \in Kinds, NEW h \in Heads, NEW due \in SUBSET Written, w' = Put(NewJob(k, h, due)), UNCHANGED wsess,
              poll.step = "start", poll'.step = "start"
       PROVE  JobsFit'
  <2>1. NewJob(k, h, due) \in JobType BY NewJobIs
  <2>2. JobFits(NewJob(k, h, due), k, wsess') BY <1>n DEF NewJob, JobFits
  <2>3. NewJob(k, h, due).kind = k BY DEF NewJob
  <2>q. QED BY <1>17, <2>1, <2>2, <2>3, PutKept
<1>q. QED
  <2>k. "comments" \in Kinds /\ "review" \in Kinds BY DEF Kinds
  <2>1. CASE Push \/ Comment \/ EditIssue \/ \E h \in DOMAIN issue.homes : IssueRuns(h)
    BY <2>1, <1>0 DEF Push, Comment, EditIssue, IssueRuns
  <2>2. ASSUME NEW s \in DOMAIN wsess, SessionEnds(s) PROVE JobsFit' BY <2>2, <1>0 DEF SessionEnds
  <2>3. ASSUME NEW k \in Kinds, StillRunning(k) \/ PostFails(k) PROVE JobsFit'
    BY <2>3, <1>0 DEF StillRunning, PostFails
  <2>4. ASSUME NEW k \in Kinds, EndedOtherwise(k) PROVE JobsFit'
    BY <2>4, <1>10 DEF EndedOtherwise, Ready, Advancing
  <2>5. CASE PostReview
    <3> DEFINE new == [w EXCEPT !.reviewed = Job("review").head, !.jobs["review"] = NoJob]
    <3>1. w' = new \/ w' = w BY <2>5 DEF PostReview, Records
    <3>2. new.jobs = [w.jobs EXCEPT !["review"] = NoJob] BY <1>w
    <3>q. QED BY <2>5, <2>k, <3>1, <3>2, <1>0, <1>11 DEF PostReview
  <2>6. CASE PushCommits
    <3>1. CASE w' = FailedJob("comments") /\ Leaves("comments")
      BY <2>6, <2>k, <3>1, <1>10 DEF PushCommits, Posting, Ready, Advancing
    <3>2. CASE w' \in {w, Put([Job("comments") EXCEPT !.pushed = TRUE])} BY <2>6, <2>k, <3>2, <1>7
    <3>q. QED BY <2>6, <3>1, <3>2 DEF PushCommits, Records
  <2>7. ASSUME NEW c \in 1..MaxComments, PostReply(c) PROVE JobsFit'
    <3> DEFINE put == [Job("comments") EXCEPT !.posted = @ \cup {c}]
    <3>1. Job("comments") # NoJob /\ Job("comments") \in JobType
      BY <2>7, <2>k, JobIs DEF PostReply, Posting, Ready, Advancing
    <3>2. put \in JobType BY <3>1 DEF JobType, Written
    <3>3. put = [Job("comments") EXCEPT !.posted = put.posted] BY <3>1 DEF JobType
    <3>4. w' = Put(put) \/ w' = w BY <2>7 DEF PostReply, Records
    <3> HIDE DEF put
    <3>q. QED BY <2>7, <2>k, <3>1, <3>2, <3>3, <3>4, <1>13 DEF PostReply
  <2>8. CASE PostRest
    <3> DEFINE put == [Job("comments") EXCEPT !.posted = @ \cup Rest]
    <3>1. Job("comments") # NoJob /\ Job("comments") \in JobType
      BY <2>8, <2>k, JobIs DEF PostRest, Posting, Ready, Advancing
    <3>2. put \in JobType BY <3>1 DEF JobType, Rest
    <3>3. put = [Job("comments") EXCEPT !.posted = put.posted] BY <3>1 DEF JobType
    <3>4. w' = Put(put) \/ w' = w BY <2>8 DEF PostRest, Records
    <3> HIDE DEF put
    <3>q. QED BY <2>8, <2>k, <3>1, <3>2, <3>3, <3>4, <1>13 DEF PostRest
  <2>9. CASE CommentsDone
    <3>1. w'.jobs = [w.jobs EXCEPT !["comments"] = NoJob] BY <2>9, <1>w DEF CommentsDone
    <3>q. QED BY <2>9, <2>k, <3>1, <1>11 DEF CommentsDone
  <2>10. CASE PollGitHub
    <3>1. w'.jobs = w.jobs BY <2>10, <1>w DEF PollGitHub
    <3>2. poll'.step = "start" BY <2>10, <1>p DEF PollGitHub
    <3>q. QED BY <3>1, <3>2, JobsKept
  <2>11. CASE StartComments
    <3>1. poll.head \in Heads /\ poll.due \in SUBSET Written BY DEF WatcherTypes, PollType
    <3>2. poll'.step = "start" BY <2>11, <1>p DEF StartComments
    <3>q. QED BY <2>11, <2>k, <3>1, <3>2, <1>17 DEF StartComments
  <2>12. CASE StartReview
    <3>1. poll.review \in 0..MaxHeads BY DEF WatcherTypes, PollType
    <3>2. poll.review \in Heads BY <2>12, <3>1, BoundsAre DEF StartReview, Heads
    <3>3. poll'.step = "start" BY <2>12, <1>p DEF StartReview
    <3>4. {} \in SUBSET Written OBVIOUS
    <3>q. QED BY <2>12, <2>k, <3>2, <3>3, <3>4, <1>17 DEF StartReview
  <2>13. CASE NextPoll
    <3>1. poll'.due = {} /\ poll'.review = 0 BY <2>13 DEF NextPoll
    <3>2. w'.jobs = w.jobs BY <2>13 DEF NextPoll
    <3>q. QED BY <3>1, <3>2, JobsKept
  <2>14. CASE HandIssue \/ RerunIssue
    <3>1. w'.jobs = w.jobs
      <4>1. [w EXCEPT !.home = Len(issue.homes) + 1, !.asked = issue.edits].jobs = w.jobs BY <1>w
      <4>2. [w EXCEPT !.asked = issue.edits].jobs = w.jobs BY <1>w
      <4>q. QED BY <2>14, <4>1, <4>2 DEF HandIssue, RerunIssue, Records
    <3>q. QED BY <2>14, <3>1, <1>0 DEF HandIssue, RerunIssue
  <2>15. CASE UNCHANGED watcherVars BY <2>15, <1>0 DEF watcherVars
  <2>16. ASSUME NEW k \in Kinds, CreateFor(k) \/ PromptFor(k) \/ StopFor(k) PROVE JobsFit' BY <2>16, <1>6, <1>7
  <2>q. QED BY <2>16, <2>1, <2>2, <2>3, <2>4, <2>5, <2>6, <2>7, <2>8, <2>9, <2>10, <2>11, <2>12, <2>13,
         <2>14, <2>15 DEF WatcherNext

-----------------------------------------------------------------------------
(* The reviews. *)
LEMMA HubIs ==
  ASSUME NEW x \in HubType
  PROVE  /\ x.head \in Heads /\ x.head \in Nat /\ x.comments \in Nat /\ x.comments \in Marks
         /\ \A h \in Heads : x.reviews[h] \in Nat
         /\ \A c \in Written : x.answers[c] \in Nat
BY BoundsAre DEF HubType, Heads, Marks

LEMMA PollIs ==
  ASSUME NEW x \in PollType
  PROVE  x.head \in Heads /\ x.head \in Nat /\ x.review \in Nat /\ x.due \subseteq Written
BY BoundsAre DEF PollType, Heads

LEMMA WIs ==
  ASSUME NEW x \in WType
  PROVE  x.reviewed \in Nat /\ x.handled \in Nat /\ x.handled \in Marks /\ x.asked \in Nat /\ x.home \in Nat
BY BoundsAre DEF WType, Marks

LEMMA ReviewsKept ==
  ASSUME WatcherTypes, WatcherTypes', ReviewsFit,
         poll'.head = poll.head, poll'.review \in {0, poll.review}, hub.head <= hub'.head,
         hub'.reviews = hub.reviews, w'.reviewed = w.reviewed, lostNo <= lostNo',
         Job("review")' = NoJob \/ (Job("review") # NoJob /\ Job("review")'.head = Job("review").head)
  PROVE  ReviewsFit'
<1>1. hub.head \in Nat /\ hub'.head \in Nat /\ poll.head \in Nat /\ w.reviewed \in Nat /\ lostNo \in Nat /\ lostNo' \in Nat
  BY BoundsAre, HubIs, PollIs, WIs DEF WatcherTypes
<1>2. \A h \in Heads : h \in Nat /\ hub.reviews[h] \in Nat BY HubIs DEF WatcherTypes, Heads
<1>3. poll'.head <= hub'.head BY <1>1 DEF ReviewsFit
<1>4. poll'.review # 0 => poll'.review = poll'.head /\ w'.reviewed < poll'.head /\ Job("review")' = NoJob
  BY DEF ReviewsFit
<1>5. Job("review")' # NoJob => w'.reviewed < Job("review")'.head /\ Job("review")'.head <= poll'.head
  BY DEF ReviewsFit
<1>6. ASSUME NEW h \in Heads PROVE hub'.reviews[h] <= lostNo' + (IF h <= w'.reviewed THEN 1 ELSE 0)
  <2>1. hub.reviews[h] <= lostNo + (IF h <= w.reviewed THEN 1 ELSE 0) BY DEF ReviewsFit
  <2>q. QED BY <1>1, <1>2, <2>1
<1>7. w'.reviewed <= poll'.head BY DEF ReviewsFit
<1>q. QED BY <1>3, <1>4, <1>5, <1>6, <1>7 DEF ReviewsFit

LEMMA ReviewsStep ==
  ASSUME WatcherTypes, WatcherTypes', JobsFit, ReviewsFit, [WatcherNext]_watcherVars
  PROVE  ReviewsFit'
<1>n. /\ w.jobs \in [Kinds -> JobType \cup {NoJob}] /\ "review" \in Kinds /\ "comments" \in Kinds
      /\ w \in WType /\ poll \in PollType /\ hub \in HubType /\ lostNo \in 0..MaxLost
      /\ w' \in WType /\ poll' \in PollType /\ hub' \in HubType /\ lostNo' \in 0..MaxLost
  BY DEF WatcherTypes, WType, Kinds
<1>m. /\ lostNo \in Nat /\ lostNo' \in Nat /\ hub.head \in Nat /\ hub'.head \in Nat /\ poll.head \in Nat
      /\ w.reviewed \in Nat /\ w'.reviewed \in Nat
      /\ \A h \in Heads : h \in Nat /\ hub.reviews[h] \in Nat
  BY <1>n, BoundsAre, HubIs, PollIs, WIs DEF Heads
<1>w. w = [seen |-> w.seen, reviewed |-> w.reviewed, failed |-> w.failed, handled |-> w.handled,
           failedThrough |-> w.failedThrough, jobs |-> w.jobs, asked |-> w.asked, home |-> w.home]
  BY <1>n DEF WType
<1>p. poll = [step |-> poll.step, head |-> poll.head, left |-> poll.left, moved |-> poll.moved,
              review |-> poll.review, due |-> poll.due]
  BY <1>n DEF PollType
<1>h. hub = [head |-> hub.head, comments |-> hub.comments, reviews |-> hub.reviews, answers |-> hub.answers]
  BY <1>n DEF HubType
<1>l. \A k : Leaves(k) => poll'.head = poll.head /\ poll'.review = poll.review BY <1>p DEF Leaves
<1>r. \A new : Records(new) => (w' = new \/ w' = w) /\ lostNo <= lostNo' BY <1>m DEF Records
(* What leaves the head read, the reviews and the mark alone. *)
<1> DEFINE Same == /\ poll'.head = poll.head /\ poll'.review = poll.review /\ hub.head <= hub'.head
                   /\ hub'.reviews = hub.reviews /\ lostNo <= lostNo'
<1>1. CASE Same /\ w'.reviewed = w.reviewed /\ w'.jobs = w.jobs BY <1>1, ReviewsKept DEF Job
(* What puts a job in place of another of its kind. *)
<1>2. ASSUME Same, NEW put \in JobType, w' = Put(put) \/ w' = w, Job(put.kind) # NoJob, put.head = Job(put.kind).head
      PROVE  ReviewsFit'
  <2>1. w'.reviewed = w.reviewed BY <1>2, PutIs
  <2>2. put.kind \in Kinds BY DEF JobType
  <2>3. Job("review")' = NoJob \/ (Job("review") # NoJob /\ Job("review")'.head = Job("review").head)
    <3>1. CASE w' = w BY <3>1 DEF Job
    <3>2. CASE w' = Put(put)
      <4>1. w'.jobs["review"] = IF "review" = put.kind THEN put ELSE w.jobs["review"] BY <1>n, <3>2, PutIs
      <4>q. QED BY <1>2, <4>1 DEF Job
    <3>q. QED BY <1>2, <3>1, <3>2
  <2>q. QED BY <1>2, <2>1, <2>3, ReviewsKept
<1>3. ASSUME Same, NEW k \in Kinds, w'.jobs = [w.jobs EXCEPT ![k] = NoJob], w'.reviewed = w.reviewed PROVE ReviewsFit'
  <2>1. w'.jobs["review"] = NoJob \/ w'.jobs["review"] = w.jobs["review"] BY <1>3, <1>n
  <2>q. QED BY <1>3, <2>1, ReviewsKept DEF Job
<1>4. CASE Push
  <2>1. hub'.head = hub.head + 1 /\ hub'.reviews = hub.reviews BY <1>4, <1>h DEF Push
  <2>q. QED BY <1>4, <2>1, <1>m, <1>1 DEF Push
<1>5. CASE Comment
  <2>1. hub'.head = hub.head /\ hub'.reviews = hub.reviews BY <1>5, <1>h DEF Comment
  <2>q. QED BY <1>5, <2>1, <1>m, <1>1 DEF Comment
<1>6. CASE EditIssue \/ (\E h \in DOMAIN issue.homes : IssueRuns(h)) \/ (\E s \in DOMAIN wsess : SessionEnds(s))
  <2>1. w' = w /\ poll' = poll /\ hub' = hub /\ lostNo' = lostNo BY <1>6 DEF EditIssue, IssueRuns, SessionEnds
  <2>q. QED BY <2>1, <1>m, <1>1
<1>7. ASSUME NEW k \in Kinds, CreateFor(k) PROVE ReviewsFit'
  <2> DEFINE put == [Job(k) EXCEPT !.session = Len(wsess) + 1]
  <2>1. Job(k) \in JobType /\ Job(k) # NoJob /\ Job(k).kind = k
    BY <1>7, JobIs DEF CreateFor, Advancing, JobsFit, JobFits
  <2>2. Len(wsess) + 1 \in Nat BY WSessIs DEF WatcherTypes
  <2>3. put \in JobType /\ put.kind = k /\ put.head = Job(k).head BY <2>1, <2>2 DEF JobType
  <2>4. (w' = Put(put) \/ w' = w) /\ lostNo <= lostNo' BY <1>7, <1>r DEF CreateFor
  <2> HIDE DEF put
  <2>q. QED BY <1>7, <2>1, <2>3, <2>4, <1>m, <1>2 DEF CreateFor
<1>8. ASSUME NEW k \in Kinds, PromptFor(k) PROVE ReviewsFit'
  <2> DEFINE put == [Job(k) EXCEPT !.prompted = TRUE]
  <2>1. Job(k) \in JobType /\ Job(k) # NoJob /\ Job(k).kind = k
    BY <1>8, JobIs DEF PromptFor, Advancing, JobsFit, JobFits
  <2>3. put \in JobType /\ put.kind = k /\ put.head = Job(k).head BY <2>1 DEF JobType
  <2>4. (w' = Put(put) \/ w' = w) /\ lostNo <= lostNo' BY <1>8, <1>r DEF PromptFor
  <2> HIDE DEF put
  <2>q. QED BY <1>8, <2>1, <2>3, <2>4, <1>m, <1>l, <1>2 DEF PromptFor
<1>9. ASSUME NEW k \in Kinds, StillRunning(k) \/ PostFails(k) PROVE ReviewsFit'
  BY <1>9, <1>l, <1>m, <1>1 DEF StillRunning, PostFails
<1>10. ASSUME NEW k \in Kinds, StopFor(k) PROVE ReviewsFit'
  <2> DEFINE put == [Job(k) EXCEPT !.stopped = TRUE]
  <2>1. Job(k) \in JobType /\ Job(k) # NoJob /\ Job(k).kind = k
    BY <1>10, JobIs DEF StopFor, Ready, Advancing, JobsFit, JobFits
  <2>3. put \in JobType /\ put.kind = k /\ put.head = Job(k).head BY <2>1 DEF JobType
  <2>4. w' = Put(put) BY <1>10 DEF StopFor
  <2> HIDE DEF put
  <2>5. Same BY <1>10, <1>m DEF StopFor
  <2>q. QED BY <2>1, <2>3, <2>4, <2>5, <1>2
<1>11. ASSUME NEW k \in Kinds, Job(k) # NoJob, w' = FailedJob(k), Leaves(k), UNCHANGED <<hub, lostNo>> PROVE ReviewsFit'
  <2>1. Same BY <1>11, <1>l, <1>m
  <2>2. w'.jobs = [w.jobs EXCEPT ![k] = NoJob] /\ w'.reviewed = w.reviewed BY <1>11, EndIs
  <2>q. QED BY <2>1, <2>2, <1>3
<1>12. ASSUME NEW k \in Kinds, EndedOtherwise(k) PROVE ReviewsFit'
  <2>1. Job(k) # NoJob BY <1>12 DEF EndedOtherwise, Ready, Advancing
  <2>2. w' = FailedJob(k) /\ Leaves(k) /\ hub' = hub /\ lostNo' = lostNo BY <1>12 DEF EndedOtherwise
  <2>q. QED BY <2>1, <2>2, <1>11
<1>13. CASE PostReview
  <2> DEFINE h == Job("review").head
             new == [w EXCEPT !.reviewed = h, !.jobs["review"] = NoJob]
  <2>1. Job("review") # NoJob BY <1>13 DEF PostReview, Posting, Ready, Advancing
  <2>2. h \in Heads /\ h \in Nat BY <1>n, <2>1, JobIs DEF Heads
  <2>3. w.reviewed < h /\ h <= poll.head /\ poll.review = 0 BY <2>1 DEF ReviewsFit
  <2>4. new.reviewed = h /\ new.jobs["review"] = NoJob BY <1>w, <1>n
  <2>5. hub' = [hub EXCEPT !.reviews[h] = @ + 1] BY <1>13 DEF PostReview
  <2>6. hub'.head = hub.head /\ \A g \in Heads : hub'.reviews[g] = IF g = h THEN hub.reviews[g] + 1 ELSE hub.reviews[g]
    <3>1. hub.reviews \in [Heads -> Nat] BY <1>n DEF HubType
    <3> DEFINE revs == [hub.reviews EXCEPT ![h] = @ + 1]
    <3>2. \A g \in Heads : revs[g] = IF g = h THEN hub.reviews[g] + 1 ELSE hub.reviews[g] BY <3>1, <2>2
    <3>3. hub' = [hub EXCEPT !.reviews = revs] BY <2>5
    <3> HIDE DEF revs
    <3>q. QED BY <3>2, <3>3, <1>h
  <2>7. poll'.head = poll.head /\ poll'.review = poll.review BY <1>13, <1>l DEF PostReview
  <2>8. \/ w' = new /\ lostNo' = lostNo
        \/ w' = w /\ lostNo' = lostNo + 1
    BY <1>13 DEF PostReview, Records
  <2> HIDE DEF new, h
  <2>9. CASE w' = new /\ lostNo' = lostNo
    <3>1. w'.reviewed = h /\ Job("review")' = NoJob BY <2>4, <2>9 DEF Job
    <3>2. ASSUME NEW g \in Heads PROVE hub'.reviews[g] <= lostNo' + (IF g <= w'.reviewed THEN 1 ELSE 0)
      <4>1. hub.reviews[g] <= lostNo + (IF g <= w.reviewed THEN 1 ELSE 0) BY DEF ReviewsFit
      <4>q. QED BY <4>1, <3>1, <1>m, <2>2, <2>3, <2>6, <2>9
    <3>3. w'.reviewed <= poll'.head /\ poll'.head <= hub'.head BY <3>1, <2>3, <2>6, <2>7 DEF ReviewsFit
    <3>q. QED BY <3>1, <3>2, <3>3, <2>3, <2>7 DEF ReviewsFit
  <2>10. CASE w' = w /\ lostNo' = lostNo + 1
    <3>1. w'.reviewed = w.reviewed /\ Job("review")' = Job("review") BY <2>10 DEF Job
    <3>2. ASSUME NEW g \in Heads PROVE hub'.reviews[g] <= lostNo' + (IF g <= w'.reviewed THEN 1 ELSE 0)
      <4>1. hub.reviews[g] <= lostNo + (IF g <= w.reviewed THEN 1 ELSE 0) BY DEF ReviewsFit
      <4>q. QED BY <4>1, <3>1, <1>m, <2>6, <2>10
    <3>q. QED BY <3>1, <3>2, <2>6, <2>7 DEF ReviewsFit
  <2>q. QED BY <2>8, <2>9, <2>10
<1>14. CASE PushCommits
  <2> DEFINE put == [Job("comments") EXCEPT !.pushed = TRUE]
  <2>1. Job("comments") \in JobType /\ Job("comments") # NoJob /\ Job("comments").kind = "comments"
    <3>1. Job("comments") # NoJob BY <1>14 DEF PushCommits, Posting, Ready, Advancing
    <3>q. QED BY <1>n, <3>1, JobIs DEF JobsFit, JobFits
  <2>2. put \in JobType /\ put.kind = "comments" /\ put.head = Job("comments").head BY <2>1 DEF JobType
  <2>3. CASE w' = FailedJob("comments") /\ Leaves("comments") /\ UNCHANGED <<hub, lostNo>>
    BY <2>1, <2>3, <1>n, <1>11
  <2>4. CASE /\ w' \in {Put(put), w} /\ lostNo <= lostNo'
             /\ hub' = hub \/ hub' = [hub EXCEPT !.head = @ + 1]
             /\ poll' = poll \/ poll' = [poll EXCEPT !.moved = TRUE]
    <3>1. hub.head <= hub'.head /\ hub'.reviews = hub.reviews BY <2>4, <1>h, <1>m
    <3>2. poll'.head = poll.head /\ poll'.review = poll.review BY <2>4, <1>p
    <3> HIDE DEF put
    <3>q. QED BY <2>1, <2>2, <2>4, <3>1, <3>2, <1>2
  <2>5. Records(Put(put)) => w' \in {Put(put), w} /\ lostNo <= lostNo' BY <1>r
  <2>6. lostNo' = lostNo => lostNo <= lostNo' BY <1>m
  <2>q. QED BY <1>14, <2>3, <2>4, <2>5, <2>6 DEF PushCommits
<1>15. ASSUME NEW posted \in SUBSET Written, NEW answers, Job("comments") # NoJob, hub' = [hub EXCEPT !.answers = answers],
              Records(Put([Job("comments") EXCEPT !.posted = posted])), UNCHANGED poll
       PROVE  ReviewsFit'
  <2> DEFINE put == [Job("comments") EXCEPT !.posted = posted]
  <2>1. Job("comments") \in JobType /\ Job("comments").kind = "comments" BY <1>n, <1>15, JobIs DEF JobsFit, JobFits
  <2>2. put \in JobType /\ put.kind = "comments" /\ put.head = Job("comments").head BY <2>1 DEF JobType
  <2>3. hub'.head = hub.head /\ hub'.reviews = hub.reviews BY <1>15, <1>h
  <2>4. (w' = Put(put) \/ w' = w) /\ lostNo <= lostNo' BY <1>15, <1>r
  <2> HIDE DEF put
  <2>q. QED BY <1>15, <2>1, <2>2, <2>3, <2>4, <1>m, <1>2
<1>16. ASSUME NEW c \in 1..MaxComments, PostReply(c) PROVE ReviewsFit'
  <2>1. Job("comments") # NoJob BY <1>16 DEF PostReply, Posting, Ready, Advancing
  <2>2. Job("comments").posted \cup {c} \in SUBSET Written BY <1>n, <2>1, JobIs DEF Written
  <2> DEFINE ans == [hub.answers EXCEPT ![c] = @ + 1]
  <2>3. hub' = [hub EXCEPT !.answers = ans] BY <1>16 DEF PostReply
  <2> HIDE DEF ans
  <2>q. QED BY <1>16, <2>1, <2>2, <2>3, <1>15 DEF PostReply
<1>17. CASE PostRest
  <2>1. Job("comments") # NoJob BY <1>17 DEF PostRest, Posting, Ready, Advancing
  <2>2. Job("comments").posted \cup Rest \in SUBSET Written BY <1>n, <2>1, JobIs DEF Rest
  <2> DEFINE ans == [c \in DOMAIN hub.answers |-> IF c \in Rest THEN hub.answers[c] + 1 ELSE hub.answers[c]]
  <2>3. hub' = [hub EXCEPT !.answers = ans] BY <1>17 DEF PostRest
  <2> HIDE DEF ans
  <2>q. QED BY <1>17, <2>1, <2>2, <2>3, <1>15 DEF PostRest
<1>18. CASE CommentsDone
  <2>1. w'.jobs = [w.jobs EXCEPT !["comments"] = NoJob] /\ w'.reviewed = w.reviewed BY <1>18, <1>w DEF CommentsDone
  <2>q. QED BY <1>18, <2>1, <1>n, <1>m, <1>l, <1>3 DEF CommentsDone
<1>19. CASE PollGitHub
  <2>1. w'.reviewed = w.reviewed /\ w'.jobs = w.jobs BY <1>19, <1>w DEF PollGitHub
  <2>2. PICK quietHead \in BOOLEAN, quietComments \in BOOLEAN :
          poll' = [poll EXCEPT !.step = "start", !.review = IF ReviewDue(quietHead) THEN poll.head ELSE 0,
                               !.due = CommentsDue(quietComments)]
    BY <1>19 DEF PollGitHub
  <2>3. poll'.head = poll.head /\ poll'.review = IF ReviewDue(quietHead) THEN poll.head ELSE 0 BY <2>2, <1>p
  <2>4. ReviewDue(quietHead) => Job("review") = NoJob /\ w.reviewed < poll.head
    BY <1>n, <1>m DEF ReviewDue, Running, Job, ReviewsFit
  <2>5. hub' = hub /\ lostNo' = lostNo BY <1>19 DEF PollGitHub
  <2>6. Job("review")' = Job("review") BY <2>1 DEF Job
  <2>q. QED BY <2>1, <2>3, <2>4, <2>5, <2>6 DEF ReviewsFit
<1>20. CASE StartComments
  <2>1. NewJob("comments", poll.head, poll.due) \in JobType /\ NewJob("comments", poll.head, poll.due).kind = "comments"
    BY <1>n, PollIs, NewJobIs DEF NewJob
  <2>2. w'.reviewed = w.reviewed /\ w'.jobs["review"] = w.jobs["review"] BY <1>20, <1>n, <2>1, PutIs DEF StartComments
  <2>3. poll'.head = poll.head /\ poll'.review = poll.review BY <1>20, <1>p DEF StartComments
  <2>q. QED BY <1>20, <2>2, <2>3, <1>m, ReviewsKept DEF StartComments, Job
<1>21. CASE StartReview
  <2> DEFINE job == NewJob("review", poll.review, {})
  <2>1. poll.review \in Heads /\ poll.review = poll.head /\ w.reviewed < poll.head
    BY <1>21, <1>n, PollIs DEF StartReview, ReviewsFit
  <2>2. job \in JobType /\ job.kind = "review" /\ job.head = poll.review BY <1>n, <2>1, NewJobIs DEF NewJob
  <2>3. w' = Put(job) /\ hub' = hub /\ lostNo' = lostNo BY <1>21 DEF StartReview
  <2> HIDE DEF job
  <2>4. w'.reviewed = w.reviewed /\ w'.jobs["review"] = job BY <1>n, <2>2, <2>3, PutIs
  <2>5. poll'.head = poll.head /\ poll'.review = 0 BY <1>21, <1>p DEF StartReview
  <2>6. Job("review")'.head = poll.head BY <2>1, <2>2, <2>4 DEF Job
  <2>q. QED BY <2>1, <2>3, <2>4, <2>5, <2>6, <1>m DEF ReviewsFit
<1>22. CASE NextPoll
  <2>1. poll'.head = hub.head /\ poll'.review = 0 BY <1>22 DEF NextPoll
  <2>2. w' = w /\ hub' = hub /\ lostNo' = lostNo /\ Job("review")' = Job("review") BY <1>22 DEF NextPoll, Job
  <2>3. Job("review") # NoJob => Job("review").head \in Nat BY <1>n, JobIs DEF Heads
  <2>q. QED BY <2>1, <2>2, <2>3, <1>m DEF ReviewsFit
<1>23. CASE HandIssue \/ RerunIssue
  <2>1. /\ [w EXCEPT !.home = Len(issue.homes) + 1, !.asked = issue.edits].jobs = w.jobs
        /\ [w EXCEPT !.home = Len(issue.homes) + 1, !.asked = issue.edits].reviewed = w.reviewed
        /\ [w EXCEPT !.asked = issue.edits].jobs = w.jobs /\ [w EXCEPT !.asked = issue.edits].reviewed = w.reviewed
    BY <1>w
  <2>2. w'.jobs = w.jobs /\ w'.reviewed = w.reviewed /\ lostNo <= lostNo' BY <1>23, <2>1, <1>r DEF HandIssue, RerunIssue
  <2>q. QED BY <1>23, <2>2, <1>m, <1>1 DEF HandIssue, RerunIssue
<1>24. CASE UNCHANGED watcherVars BY <1>24, <1>m, <1>1 DEF watcherVars
<1>q. QED BY <1>4, <1>5, <1>6, <1>7, <1>8, <1>9, <1>10, <1>12, <1>13, <1>14, <1>16, <1>17, <1>18, <1>19, <1>20,
   <1>21, <1>22, <1>23, <1>24 DEF WatcherNext

-----------------------------------------------------------------------------
(* The comments. *)
SameWork(a, b) == a.due = b.due /\ a.through = b.through /\ a.posted = b.posted

(* Once something is posted, the session is at its end. *)
LEMMA PostedIs ==
  ASSUME WatcherTypes, JobsFit, SessionsGrow, Job("comments") # NoJob, Job("comments").posted # {}
  PROVE  /\ Job("comments").session \in DOMAIN wsess
         /\ wsess'[Job("comments").session].replies = Replies
<1>1. "comments" \in Kinds BY DEF Kinds
<1>2. /\ JobFits(Job("comments"), "comments", wsess) /\ Job("comments").session \in Nat
      /\ Len(wsess) \in Nat /\ DOMAIN wsess = 1..Len(wsess)
  BY <1>1, JobIs, WSessIs DEF JobsFit, WatcherTypes
<1>3. Job("comments").session \in 1..Len(wsess) BY <1>2 DEF JobFits
<1>4. wsess[Job("comments").session].state = "completed" BY <1>2 DEF JobFits
<1>q. QED BY <1>2, <1>3, <1>4 DEF SessionsGrow, Replies

LEMMA CommentsKept ==
  ASSUME WatcherTypes, WatcherTypes', JobsFit, CommentsFit, SessionsGrow,
         poll'.due \in {{}, poll.due}, hub'.answers = hub.answers, w'.handled = w.handled, lostNo <= lostNo',
         \/ Job("comments")' = NoJob /\ Posted = {}
         \/ /\ Job("comments") # NoJob /\ Job("comments")' # NoJob
            /\ SameWork(Job("comments")', Job("comments"))
            /\ Posted # {} => Job("comments")'.session = Job("comments").session
  PROVE  CommentsFit'
<1>1. "comments" \in Kinds BY DEF Kinds
<1>2. Posted' = Posted BY DEF Posted, SameWork
<1>3. poll'.due # {} => Job("comments")' = NoJob /\ \E m \in Written : IsRest(poll'.due, w'.handled, m)
  BY DEF CommentsFit
<1>4. ASSUME Job("comments")' # NoJob
      PROVE  /\ IsRest(Job("comments")'.due, w'.handled, Job("comments")'.through)
             /\ Job("comments")'.posted \subseteq Job("comments")'.due
             /\ Job("comments")'.posted # {} =>
                  Job("comments")'.posted \subseteq Replies' \/ Rest' \subseteq Job("comments")'.posted
  <2>1. Job("comments") # NoJob /\ SameWork(Job("comments")', Job("comments")) BY <1>4
  <2>2. /\ IsRest(Job("comments").due, w.handled, Job("comments").through)
        /\ Job("comments").posted \subseteq Job("comments").due
        /\ Job("comments").posted # {} =>
             Job("comments").posted \subseteq Replies \/ Rest \subseteq Job("comments").posted
    BY <2>1 DEF CommentsFit
  <2>3. ASSUME Job("comments")'.posted # {}
        PROVE  Job("comments")'.posted \subseteq Replies' \/ Rest' \subseteq Job("comments")'.posted
    <3>1. Job("comments").posted # {} /\ Posted # {} BY <2>1, <2>3 DEF SameWork, Posted
    <3>2. Job("comments")'.session = Job("comments").session BY <1>4, <3>1
    <3>3. Replies' = Replies BY <2>1, <3>1, <3>2, PostedIs DEF Replies
    <3>4. Rest' = Rest BY <2>1, <3>3 DEF Rest, SameWork
    <3>q. QED BY <2>1, <2>2, <3>1, <3>3, <3>4 DEF SameWork
  <2>q. QED BY <2>1, <2>2, <2>3 DEF SameWork
<1>5. lostNo \in Nat /\ lostNo' \in Nat /\ w.handled \in Nat /\ \A c \in Written : c \in Nat /\ hub.answers[c] \in Nat
  BY BoundsAre, HubIs, WIs DEF WatcherTypes, Written
<1>6. ASSUME NEW c \in Written
      PROVE  /\ hub'.answers[c] <= lostNo' + (IF c <= w'.handled \/ c \in Posted' THEN 1 ELSE 0)
             /\ c <= w'.handled \/ c \in Posted' => hub'.answers[c] >= 1
  <2>1. /\ hub.answers[c] <= lostNo + (IF c <= w.handled \/ c \in Posted THEN 1 ELSE 0)
        /\ c <= w.handled \/ c \in Posted => hub.answers[c] >= 1
    BY DEF CommentsFit
  <2> DEFINE said == c <= w.handled \/ c \in Posted
  <2>2. (c <= w'.handled \/ c \in Posted') <=> said BY <1>2
  <2>3. hub'.answers[c] = hub.answers[c] OBVIOUS
  <2> HIDE DEF said
  <2>4. hub.answers[c] <= lostNo + (IF said THEN 1 ELSE 0) /\ (said => hub.answers[c] >= 1) BY <2>1 DEF said
  <2>5. hub.answers[c] <= lostNo' + (IF said THEN 1 ELSE 0) BY <2>4, <1>5
  <2>q. QED BY <2>2, <2>3, <2>4, <2>5
<1>q. QED BY <1>3, <1>4, <1>6 DEF CommentsFit

(* What an answer under some comments does, saved or lost. *)
LEMMA AnswersFit ==
  ASSUME WatcherTypes, WatcherTypes', JobsFit, CommentsFit, Job("comments") # NoJob,
         NEW S, S \subseteq Job("comments").due \ Job("comments").posted,
         Job("comments").posted \cup S \subseteq Replies \/ Rest \subseteq Job("comments").posted \cup S,
         \A c \in Written : hub'.answers[c] = IF c \in S THEN hub.answers[c] + 1 ELSE hub.answers[c],
         \/ w' = Put([Job("comments") EXCEPT !.posted = @ \cup S]) /\ lostNo' = lostNo
         \/ w' = w /\ lostNo' = lostNo + 1,
         UNCHANGED <<poll, wsess>>
  PROVE  CommentsFit'
<1> DEFINE job == Job("comments")
           put == [job EXCEPT !.posted = @ \cup S]
<1>1. "comments" \in Kinds /\ job \in JobType /\ job.kind = "comments" BY JobIs DEF Kinds, JobsFit, JobFits
<1>2. lostNo \in Nat /\ w.handled \in Nat /\ \A c \in Written : c \in Nat /\ hub.answers[c] \in Nat
  BY BoundsAre, HubIs, WIs DEF WatcherTypes, Written
<1>3. job.due \subseteq Written /\ job.posted \subseteq Written BY <1>1 DEF JobType
<1>4. put \in JobType /\ put.kind = "comments" /\ put.due = job.due /\ put.through = job.through
      /\ put.session = job.session /\ put.posted = job.posted \cup S
  BY <1>1, <1>3 DEF JobType
<1>5. put # NoJob BY <1>4 DEF NoJob
<1>6. poll.due = {} BY DEF CommentsFit
<1>7. IsRest(job.due, w.handled, job.through) /\ job.posted \subseteq job.due BY DEF CommentsFit
<1>8. ASSUME NEW c \in S PROVE c \in Written /\ ~(c <= w.handled) /\ c \notin Posted
  <2>1. c \in job.due /\ c \notin job.posted OBVIOUS
  <2>2. c \in Written /\ c \in Nat BY <2>1, <1>2, <1>3
  <2>3. job.through \in Nat BY <1>1, BoundsAre DEF JobType, Marks
  <2>4. ~(c <= w.handled) BY <2>1, <2>2, <2>3, <1>2, <1>7 DEF IsRest
  <2>q. QED BY <2>1, <2>2, <2>4 DEF Posted
<1>9. CASE w' = Put(put) /\ lostNo' = lostNo
  <2> HIDE DEF put
  <2>1. w'.handled = w.handled /\ Job("comments")' = put BY <1>1, <1>4, <1>9, PutIs DEF Job
  <2>2. Posted' = Posted \cup S BY <2>1, <1>4, <1>5 DEF Posted
  <2>3. Replies' = Replies /\ Rest' = Rest BY <2>1, <1>4 DEF Replies, Rest
  <2>4. ASSUME NEW c \in Written
        PROVE  /\ hub'.answers[c] <= lostNo' + (IF c <= w'.handled \/ c \in Posted' THEN 1 ELSE 0)
               /\ c <= w'.handled \/ c \in Posted' => hub'.answers[c] >= 1
    <3>1. /\ hub.answers[c] <= lostNo + (IF c <= w.handled \/ c \in Posted THEN 1 ELSE 0)
          /\ c <= w.handled \/ c \in Posted => hub.answers[c] >= 1
      BY DEF CommentsFit
    <3>2. CASE c \in S
      <4>1. hub.answers[c] <= lostNo BY <3>1, <3>2, <1>2, <1>8
      <4>2. hub'.answers[c] = hub.answers[c] + 1 /\ c \in Posted' BY <3>2, <2>2
      <4>q. QED BY <4>1, <4>2, <1>2, <1>9
    <3>3. CASE c \notin S
      <4>1. hub'.answers[c] = hub.answers[c] /\ (c \in Posted' <=> c \in Posted) BY <3>3, <2>2
      <4>q. QED BY <3>1, <4>1, <2>1, <1>9
    <3>q. QED BY <3>2, <3>3
  <2>5. poll'.due = {} BY <1>6
  <2>6. IsRest(Job("comments")'.due, w'.handled, Job("comments")'.through)
        /\ Job("comments")'.posted \subseteq Job("comments")'.due
    BY <2>1, <1>4, <1>7
  <2>7. Job("comments")'.posted \subseteq Replies' \/ Rest' \subseteq Job("comments")'.posted
    BY <2>1, <2>3, <1>4
  <2>q. QED BY <2>4, <2>5, <2>6, <2>7 DEF CommentsFit
<1>10. CASE w' = w /\ lostNo' = lostNo + 1
  <2>1. Job("comments")' = job /\ Posted' = Posted /\ Replies' = Replies /\ Rest' = Rest
    BY <1>10 DEF Job, Posted, Replies, Rest
  <2>2. ASSUME NEW c \in Written
        PROVE  /\ hub'.answers[c] <= lostNo' + (IF c <= w'.handled \/ c \in Posted' THEN 1 ELSE 0)
               /\ c <= w'.handled \/ c \in Posted' => hub'.answers[c] >= 1
    <3>1. /\ hub.answers[c] <= lostNo + (IF c <= w.handled \/ c \in Posted THEN 1 ELSE 0)
          /\ c <= w.handled \/ c \in Posted => hub.answers[c] >= 1
      BY DEF CommentsFit
    <3>q. QED BY <3>1, <2>1, <1>2, <1>10
  <2>3. poll'.due = {} BY <1>6
  <2>4. /\ IsRest(Job("comments")'.due, w'.handled, Job("comments")'.through)
        /\ Job("comments")'.posted \subseteq Job("comments")'.due
        /\ Job("comments")'.posted # {} =>
             Job("comments")'.posted \subseteq Replies' \/ Rest' \subseteq Job("comments")'.posted
    BY <2>1, <1>10 DEF CommentsFit
  <2>q. QED BY <2>2, <2>3, <2>4 DEF CommentsFit
<1>q. QED BY <1>9, <1>10

LEMMA CommentsStep ==
  ASSUME WatcherTypes, WatcherTypes', JobsFit, CommentsFit, SessionsGrow, [WatcherNext]_watcherVars
  PROVE  CommentsFit'
<1>n. /\ w.jobs \in [Kinds -> JobType \cup {NoJob}] /\ "review" \in Kinds /\ "comments" \in Kinds
      /\ w \in WType /\ poll \in PollType /\ hub \in HubType /\ lostNo \in 0..MaxLost
      /\ w' \in WType /\ poll' \in PollType /\ hub' \in HubType /\ lostNo' \in 0..MaxLost
  BY DEF WatcherTypes, WType, Kinds
<1>m. /\ lostNo \in Nat /\ lostNo' \in Nat /\ hub.comments \in Nat /\ w.handled \in Nat /\ w'.handled \in Nat
      /\ \A c \in Written : c \in Nat /\ hub.answers[c] \in Nat
  BY <1>n, BoundsAre, HubIs, WIs DEF Written
<1>w. w = [seen |-> w.seen, reviewed |-> w.reviewed, failed |-> w.failed, handled |-> w.handled,
           failedThrough |-> w.failedThrough, jobs |-> w.jobs, asked |-> w.asked, home |-> w.home]
  BY <1>n DEF WType
<1>p. poll = [step |-> poll.step, head |-> poll.head, left |-> poll.left, moved |-> poll.moved,
              review |-> poll.review, due |-> poll.due]
  BY <1>n DEF PollType
<1>h. hub = [head |-> hub.head, comments |-> hub.comments, reviews |-> hub.reviews, answers |-> hub.answers]
  BY <1>n DEF HubType
<1>l. \A k : Leaves(k) => poll'.due = poll.due BY <1>p DEF Leaves
<1>r. \A new : Records(new) => (w' = new \/ w' = w) /\ lostNo <= lostNo' BY <1>m DEF Records
<1>f. Job("comments") # NoJob => JobFits(Job("comments"), "comments", wsess) BY <1>n DEF JobsFit
(* What leaves the comments, their answers and the mark alone. *)
<1> DEFINE Same == poll'.due = poll.due /\ hub'.answers = hub.answers /\ lostNo <= lostNo' /\ w'.handled = w.handled
<1>1. CASE Same /\ w'.jobs["comments"] = w.jobs["comments"]
  <2>1. Job("comments")' = Job("comments") BY <1>1 DEF Job
  <2>q. QED BY <2>1, <1>1, CommentsKept DEF SameWork, Posted
<1>2. ASSUME Same, NEW put \in JobType, w' = Put(put) \/ w' = w, NEW k \in Kinds, put.kind = k, Job(k) # NoJob,
             SameWork(put, Job(k)), Posted # {} => put.session = Job(k).session \/ k # "comments"
      PROVE  CommentsFit'
  <2> HIDE <1>2
  <2>a. put \in JobType /\ put.kind = k BY <1>2
  <2>b. Put(put).jobs["comments"] = IF "comments" = put.kind THEN put ELSE w.jobs["comments"] BY <2>a, <1>n, PutIs
  <2>0. w' = Put(put) => w'.jobs["comments"] = IF "comments" = k THEN put ELSE w.jobs["comments"] BY <2>a, <2>b
  <2>1. CASE w' = w \/ k # "comments"
    <3>1. w'.jobs["comments"] = w.jobs["comments"] BY <1>2, <2>0, <2>1
    <3>q. QED BY <3>1, <1>1, <1>2
  <2>2. CASE w' = Put(put) /\ k = "comments"
    <3>1. Job("comments")' = put BY <2>0, <2>2 DEF Job
    <3>2. put # NoJob BY <1>2, <2>2 DEF NoJob
    <3>q. QED BY <3>1, <3>2, <1>2, <2>2, CommentsKept
  <2>q. QED BY <1>2, <2>1, <2>2
<1>3. ASSUME Same, w'.jobs["comments"] = NoJob, Posted = {} PROVE CommentsFit'
  BY <1>3, CommentsKept DEF Job
<1>4. CASE Push
  <2>1. hub'.answers = hub.answers BY <1>4, <1>h DEF Push
  <2>q. QED BY <1>4, <2>1, <1>m, <1>1 DEF Push
<1>5. CASE Comment
  <2>1. hub'.answers = hub.answers BY <1>5, <1>h DEF Comment
  <2>q. QED BY <1>5, <2>1, <1>m, <1>1 DEF Comment
<1>6. CASE EditIssue \/ (\E h \in DOMAIN issue.homes : IssueRuns(h)) \/ (\E s \in DOMAIN wsess : SessionEnds(s))
  <2>1. w' = w /\ poll' = poll /\ hub' = hub /\ lostNo' = lostNo BY <1>6 DEF EditIssue, IssueRuns, SessionEnds
  <2>q. QED BY <2>1, <1>m, <1>1
<1>7. ASSUME NEW k \in Kinds, CreateFor(k) PROVE CommentsFit'
  <2> DEFINE put == [Job(k) EXCEPT !.session = Len(wsess) + 1]
  <2>1. Job(k) \in JobType /\ Job(k) # NoJob /\ JobFits(Job(k), k, wsess) /\ Job(k).session = 0
    BY <1>7, JobIs DEF CreateFor, Advancing, JobsFit
  <2>2. Len(wsess) + 1 \in Nat BY WSessIs DEF WatcherTypes
  <2>3. put \in JobType /\ put.kind = k /\ SameWork(put, Job(k)) BY <2>1, <2>2 DEF JobType, SameWork, JobFits
  <2>4. (w' = Put(put) \/ w' = w) /\ lostNo <= lostNo' BY <1>7, <1>r DEF CreateFor
  <2>5. k = "comments" => Posted = {} BY <2>1 DEF JobFits, Posted
  <2> HIDE DEF put
  <2>6. w'.handled = w.handled BY <2>3, <2>4, PutIs
  <2>7. Same BY <1>7, <2>4, <2>6 DEF CreateFor
  <2>q. QED BY <2>1, <2>3, <2>4, <2>5, <2>7, <1>2
<1>8. ASSUME NEW k \in Kinds, PromptFor(k) PROVE CommentsFit'
  <2> DEFINE put == [Job(k) EXCEPT !.prompted = TRUE]
  <2>1. Job(k) \in JobType /\ Job(k) # NoJob /\ JobFits(Job(k), k, wsess)
    BY <1>8, JobIs DEF PromptFor, Advancing, JobsFit
  <2>3. put \in JobType /\ put.kind = k /\ SameWork(put, Job(k)) /\ put.session = Job(k).session
    BY <2>1 DEF JobType, SameWork, JobFits
  <2>4. (w' = Put(put) \/ w' = w) /\ lostNo <= lostNo' BY <1>8, <1>r DEF PromptFor
  <2> HIDE DEF put
  <2>6. w'.handled = w.handled BY <2>3, <2>4, PutIs
  <2>7. Same BY <1>8, <2>4, <2>6, <1>l DEF PromptFor
  <2>q. QED BY <2>1, <2>3, <2>4, <2>7, <1>2
<1>9. ASSUME NEW k \in Kinds, StillRunning(k) \/ PostFails(k) PROVE CommentsFit'
  <2>1. w' = w /\ hub' = hub /\ lostNo' = lostNo /\ Leaves(k) BY <1>9 DEF StillRunning, PostFails
  <2>q. QED BY <2>1, <1>l, <1>m, <1>1
<1>10. ASSUME NEW k \in Kinds, StopFor(k) PROVE CommentsFit'
  <2> DEFINE put == [Job(k) EXCEPT !.stopped = TRUE]
  <2>1. Job(k) \in JobType /\ Job(k) # NoJob /\ JobFits(Job(k), k, wsess)
    BY <1>10, JobIs DEF StopFor, Ready, Advancing, JobsFit
  <2>3. put \in JobType /\ put.kind = k /\ SameWork(put, Job(k)) /\ put.session = Job(k).session
    BY <2>1 DEF JobType, SameWork, JobFits
  <2>4. w' = Put(put) /\ poll' = poll /\ hub' = hub /\ lostNo' = lostNo BY <1>10 DEF StopFor
  <2> HIDE DEF put
  <2>6. w'.handled = w.handled BY <2>3, <2>4, PutIs
  <2>7. Same BY <2>4, <2>6, <1>m
  <2>q. QED BY <2>1, <2>3, <2>4, <2>7, <1>2
<1>11. ASSUME NEW k \in Kinds, Job(k) # NoJob, w' = FailedJob(k), Leaves(k), UNCHANGED <<hub, lostNo>>,
              k = "comments" => ~Job(k).pushed
       PROVE  CommentsFit'
  <2>1. w'.jobs = [w.jobs EXCEPT ![k] = NoJob] /\ w'.handled = w.handled BY <1>11, EndIs
  <2>2. Same BY <1>11, <2>1, <1>l, <1>m
  <2>3. w'.jobs["comments"] = IF k = "comments" THEN NoJob ELSE w.jobs["comments"] BY <2>1, <1>n
  <2>4. k = "comments" => Posted = {} BY <1>11, <1>f DEF JobFits, Posted
  <2>q. QED BY <2>2, <2>3, <2>4, <1>1, <1>3
<1>12. ASSUME NEW k \in Kinds, EndedOtherwise(k) PROVE CommentsFit'
  <2>1. Job(k) # NoJob BY <1>12 DEF EndedOtherwise, Ready, Advancing
  <2>2. w' = FailedJob(k) /\ Leaves(k) /\ hub' = hub /\ lostNo' = lostNo BY <1>12 DEF EndedOtherwise
  <2>3. wsess[Job(k).session].state # "completed" \/ ~Job(k).stopped BY <1>12 DEF EndedOtherwise, StateOf
  <2>4. k = "comments" => ~Job(k).pushed BY <2>1, <2>3, <1>f DEF JobFits
  <2>q. QED BY <2>1, <2>2, <2>4, <1>11
<1>13. CASE PostReview
  <2> DEFINE new == [w EXCEPT !.reviewed = Job("review").head, !.jobs["review"] = NoJob]
  <2>1. new.handled = w.handled /\ new.jobs["comments"] = w.jobs["comments"] BY <1>w, <1>n
  <2>2. (w' = new \/ w' = w) /\ lostNo <= lostNo' BY <1>13, <1>r DEF PostReview
  <2> DEFINE revs == [hub.reviews EXCEPT ![Job("review").head] = @ + 1]
  <2>3. hub' = [hub EXCEPT !.reviews = revs] BY <1>13 DEF PostReview
  <2> HIDE DEF revs, new
  <2>4. hub'.answers = hub.answers BY <2>3, <1>h
  <2>5. poll'.due = poll.due BY <1>13, <1>l DEF PostReview
  <2>q. QED BY <2>1, <2>2, <2>4, <2>5, <1>1
<1>14. CASE PushCommits
  <2> DEFINE put == [Job("comments") EXCEPT !.pushed = TRUE]
  <2>1. Job("comments") \in JobType /\ Job("comments") # NoJob /\ Job("comments").kind = "comments" /\ ~Job("comments").pushed
    <3>1. Job("comments") # NoJob BY <1>14 DEF PushCommits, Posting, Ready, Advancing
    <3>q. QED BY <1>14, <1>n, <3>1, JobIs DEF JobsFit, JobFits, PushCommits
  <2>2. put \in JobType /\ put.kind = "comments" /\ SameWork(put, Job("comments")) /\ put.session = Job("comments").session
    BY <2>1 DEF JobType, SameWork
  <2>3. CASE w' = FailedJob("comments") /\ Leaves("comments") /\ UNCHANGED <<hub, lostNo>>
    BY <2>1, <2>3, <1>n, <1>11
  <2>4. CASE /\ w' \in {Put(put), w} /\ lostNo <= lostNo'
             /\ hub' = hub \/ hub' = [hub EXCEPT !.head = @ + 1]
             /\ poll' = poll \/ poll' = [poll EXCEPT !.moved = TRUE]
    <3>1. hub'.answers = hub.answers BY <2>4, <1>h
    <3>2. poll'.due = poll.due BY <2>4, <1>p
    <3> HIDE DEF put
    <3>4. Put(put).handled = w.handled BY <2>2, <1>n, PutIs
    <3>3. w'.handled = w.handled BY <2>4, <3>4
    <3>q. QED BY <1>n, <2>1, <2>2, <2>4, <3>1, <3>2, <3>3, <1>2
  <2>5. Records(Put(put)) => w' \in {Put(put), w} /\ lostNo <= lostNo' BY <1>r
  <2>6. lostNo' = lostNo => lostNo <= lostNo' BY <1>m
  <2>q. QED BY <1>14, <2>3, <2>4, <2>5, <2>6 DEF PushCommits
<1>15. ASSUME NEW c \in 1..MaxComments, PostReply(c) PROVE CommentsFit'
  <2>1. Job("comments") # NoJob BY <1>15 DEF PostReply, Posting, Ready, Advancing
  <2>2. c \in Replies \ Job("comments").posted BY <1>15 DEF PostReply
  <2>3. Replies \subseteq Job("comments").due /\ Job("comments").stopped
    <3>1. Job("comments").stopped BY <1>15 DEF PostReply, Posting
    <3>2. Job("comments").session \in DOMAIN wsess
      BY <2>1, <3>1, <1>n, <1>f, JobIs, WSessIs DEF JobFits, WatcherTypes
    <3>3. wsess[Job("comments").session].due = Job("comments").due BY <2>1, <3>1, <1>f DEF JobFits
    <3>q. QED BY <3>1, <3>2, <3>3 DEF JobsFit, Replies
  <2>4. Job("comments").posted \subseteq Replies \/ Rest \subseteq Job("comments").posted BY <2>1 DEF CommentsFit
  <2>5. {c} \subseteq Job("comments").due \ Job("comments").posted BY <2>2, <2>3
  <2>6. Job("comments").posted \cup {c} \subseteq Replies \/ Rest \subseteq Job("comments").posted \cup {c} BY <2>2, <2>4
  <2>7. \A d \in Written : hub'.answers[d] = IF d \in {c} THEN hub.answers[d] + 1 ELSE hub.answers[d]
    <3> DEFINE ans == [hub.answers EXCEPT ![c] = @ + 1]
    <3>1. hub.answers \in [Written -> Nat] BY <1>n DEF HubType
    <3>2. \A d \in Written : ans[d] = IF d \in {c} THEN hub.answers[d] + 1 ELSE hub.answers[d] BY <3>1
    <3>3. hub' = [hub EXCEPT !.answers = ans] BY <1>15 DEF PostReply
    <3> HIDE DEF ans
    <3>4. hub'.answers = ans BY <3>3, <1>h
    <3>q. QED BY <3>2, <3>4
  <2>8. \/ w' = Put([Job("comments") EXCEPT !.posted = @ \cup {c}]) /\ lostNo' = lostNo
        \/ w' = w /\ lostNo' = lostNo + 1
    BY <1>15 DEF PostReply, Records
  <2>9. UNCHANGED <<poll, wsess>> BY <1>15 DEF PostReply
  <2>q. QED BY <2>1, <2>5, <2>6, <2>7, <2>8, <2>9, AnswersFit
<1>16. CASE PostRest
  <2>1. Job("comments") # NoJob BY <1>16 DEF PostRest, Posting, Ready, Advancing
  <2>2. ~(Rest \subseteq Job("comments").posted) BY <1>16 DEF PostRest
  <2>4. Job("comments").posted \subseteq Replies
    <3>1. CASE Job("comments").posted = {} BY <3>1
    <3>2. CASE Job("comments").posted # {} BY <3>2, <2>1, <2>2 DEF CommentsFit
    <3>q. QED BY <3>1, <3>2
  <2>5. Rest \subseteq Job("comments").due \ Job("comments").posted BY <2>4 DEF Rest
  <2>7. \A d \in Written : hub'.answers[d] = IF d \in Rest THEN hub.answers[d] + 1 ELSE hub.answers[d]
    <3> DEFINE ans == [c \in DOMAIN hub.answers |-> IF c \in Rest THEN hub.answers[c] + 1 ELSE hub.answers[c]]
    <3>1. DOMAIN hub.answers = Written BY <1>n DEF HubType
    <3>2. \A d \in Written : ans[d] = IF d \in Rest THEN hub.answers[d] + 1 ELSE hub.answers[d] BY <3>1
    <3>3. hub' = [hub EXCEPT !.answers = ans] BY <1>16 DEF PostRest
    <3> HIDE DEF ans
    <3>4. hub'.answers = ans BY <3>3, <1>h
    <3>q. QED BY <3>2, <3>4
  <2>8. \/ w' = Put([Job("comments") EXCEPT !.posted = @ \cup Rest]) /\ lostNo' = lostNo
        \/ w' = w /\ lostNo' = lostNo + 1
    BY <1>16 DEF PostRest, Records
  <2>9. UNCHANGED <<poll, wsess>> BY <1>16 DEF PostRest
  <2>q. QED BY <2>1, <2>5, <2>7, <2>8, <2>9, AnswersFit
<1>17. CASE CommentsDone
  <2> DEFINE job == Job("comments")
  <2>1. job # NoJob /\ job.due \subseteq job.posted BY <1>17 DEF CommentsDone, Posting, Ready, Advancing
  <2>2. IsRest(job.due, w.handled, job.through) /\ job.posted = job.due BY <2>1 DEF CommentsFit
  <2>3. job.through \in Nat BY <2>1, <1>n, JobIs, BoundsAre DEF Marks
  <2>4. w'.handled = job.through /\ w'.jobs["comments"] = NoJob
    <3>1. Max2(w.handled, job.through) = job.through BY <2>2, <2>3, <1>m DEF Max2, IsRest
    <3>2. w'.handled = Max2(w.handled, job.through) /\ w'.jobs["comments"] = NoJob BY <1>17, <1>w, <1>n DEF CommentsDone
    <3>q. QED BY <3>1, <3>2
  <2>5. Job("comments")' = NoJob /\ Posted' = {} /\ Posted = job.due BY <2>1, <2>2, <2>4 DEF Job, Posted
  <2>6. hub' = hub /\ lostNo' = lostNo /\ poll'.due = {} BY <1>17, <2>1, <1>l DEF CommentsDone, CommentsFit
  <2>7. ASSUME NEW c \in Written PROVE c <= w'.handled <=> c <= w.handled \/ c \in Posted
    <3>1. c \in Nat /\ w.handled < job.through /\ Posted = (w.handled + 1)..job.through BY <1>m, <2>2, <2>5 DEF IsRest
    <3>q. QED BY <3>1, <2>3, <2>4, <1>m
  <2>8. ASSUME NEW c \in Written
        PROVE  /\ hub'.answers[c] <= lostNo' + (IF c <= w'.handled \/ c \in Posted' THEN 1 ELSE 0)
               /\ c <= w'.handled \/ c \in Posted' => hub'.answers[c] >= 1
    <3>1. /\ hub.answers[c] <= lostNo + (IF c <= w.handled \/ c \in Posted THEN 1 ELSE 0)
          /\ c <= w.handled \/ c \in Posted => hub.answers[c] >= 1
      BY DEF CommentsFit
    <3>q. QED BY <3>1, <2>5, <2>6, <2>7
  <2>q. QED BY <2>5, <2>6, <2>8 DEF CommentsFit
<1>18. CASE PollGitHub
  <2>1. w'.handled = w.handled /\ w'.jobs = w.jobs BY <1>18, <1>w DEF PollGitHub
  <2>2. PICK quietHead \in BOOLEAN, quietComments \in BOOLEAN :
          poll' = [poll EXCEPT !.step = "start", !.review = IF ReviewDue(quietHead) THEN poll.head ELSE 0,
                               !.due = CommentsDue(quietComments)]
    BY <1>18 DEF PollGitHub
  <2>3. poll'.due = CommentsDue(quietComments) BY <2>2, <1>p
  <2>4. ASSUME poll'.due # {}
        PROVE  Job("comments") = NoJob /\ \E m \in Written : IsRest(poll'.due, w.handled, m)
    <3> DEFINE due == {c \in 1..hub.comments : c > w.handled}
    <3>1. poll'.due = due /\ Job("comments") = NoJob /\ due # {} BY <2>3, <2>4 DEF CommentsDue
    <3>2. hub.comments \in Written /\ w.handled < hub.comments BY <3>1, <1>n, <1>m, HubIs, BoundsAre DEF Marks, Written
    <3>3. due = (w.handled + 1)..hub.comments BY <1>m
    <3>q. QED BY <3>1, <3>2, <3>3 DEF IsRest
  <2>5. hub' = hub /\ lostNo' = lostNo /\ wsess' = wsess BY <1>18 DEF PollGitHub
  <2>6. Job("comments")' = Job("comments") /\ Posted' = Posted /\ Replies' = Replies /\ Rest' = Rest
    BY <2>1, <2>5 DEF Job, Posted, Replies, Rest
  <2>q. QED BY <2>1, <2>4, <2>5, <2>6 DEF CommentsFit
<1>19. CASE StartComments
  <2> DEFINE job == NewJob("comments", poll.head, poll.due)
  <2>1. PICK m \in Written : IsRest(poll.due, w.handled, m) BY <1>19 DEF StartComments, CommentsFit
  <2>2. poll.due # {} /\ Job("comments") = NoJob /\ Posted = {} BY <1>19 DEF StartComments, CommentsFit, Posted
  <2>3. job \in JobType /\ job.kind = "comments" /\ job.due = poll.due /\ job.posted = {} BY <1>n, PollIs, NewJobIs DEF NewJob
  <2>4. job.through \in poll.due /\ \A d \in poll.due : d <= job.through BY <1>n, <2>2, PollIs, NewJobIs
  <2>5. w' = Put(job) /\ hub' = hub /\ lostNo' = lostNo BY <1>19 DEF StartComments
  <2> HIDE DEF job
  <2>6. job.through = m
    <3>1. m \in Nat /\ w.handled < m /\ poll.due = (w.handled + 1)..m BY <1>m, <2>1 DEF IsRest
    <3>q. QED BY <3>1, <2>4, <1>m
  <2>7. w'.handled = w.handled /\ Job("comments")' = job BY <1>n, <2>3, <2>5, PutIs DEF Job
  <2>8. job # NoJob BY <2>3 DEF NoJob
  <2>9. Posted' = {} BY <2>3, <2>7, <2>8 DEF Posted
  <2>10. poll'.due = {} BY <1>19, <1>p DEF StartComments
  <2>q. QED BY <2>1, <2>2, <2>3, <2>5, <2>6, <2>7, <2>9, <2>10 DEF CommentsFit
<1>20. CASE StartReview
  <2> DEFINE job == NewJob("review", poll.review, {})
  <2>1. poll.review \in Heads BY <1>20, <1>n, BoundsAre DEF StartReview, PollType, Heads
  <2>2. job \in JobType /\ job.kind = "review" BY <1>n, <2>1, NewJobIs DEF NewJob
  <2>3. w' = Put(job) /\ hub' = hub /\ lostNo' = lostNo BY <1>20 DEF StartReview
  <2> HIDE DEF job
  <2>4. w'.handled = w.handled /\ w'.jobs["comments"] = w.jobs["comments"] BY <1>n, <2>2, <2>3, PutIs
  <2>5. poll'.due = poll.due BY <1>20, <1>p DEF StartReview
  <2>q. QED BY <2>3, <2>4, <2>5, <1>m, <1>1
<1>21. CASE NextPoll
  <2>1. poll'.due = {} BY <1>21 DEF NextPoll
  <2>2. w' = w /\ hub' = hub /\ lostNo' = lostNo /\ Job("comments")' = Job("comments") BY <1>21 DEF NextPoll, Job
  <2>q. QED BY <2>1, <2>2, <1>m, CommentsKept DEF SameWork, Posted
<1>22. CASE HandIssue \/ RerunIssue
  <2>1. /\ [w EXCEPT !.home = Len(issue.homes) + 1, !.asked = issue.edits].jobs = w.jobs
        /\ [w EXCEPT !.home = Len(issue.homes) + 1, !.asked = issue.edits].handled = w.handled
        /\ [w EXCEPT !.asked = issue.edits].jobs = w.jobs /\ [w EXCEPT !.asked = issue.edits].handled = w.handled
    BY <1>w
  <2>2. w'.jobs = w.jobs /\ w'.handled = w.handled /\ lostNo <= lostNo' BY <1>22, <2>1, <1>r DEF HandIssue, RerunIssue
  <2>q. QED BY <1>22, <2>2, <1>1 DEF HandIssue, RerunIssue
<1>23. CASE UNCHANGED watcherVars BY <1>23, <1>m, <1>1 DEF watcherVars
<1>q. QED BY <1>4, <1>5, <1>6, <1>7, <1>8, <1>9, <1>10, <1>12, <1>13, <1>14, <1>15, <1>16, <1>17, <1>18, <1>19,
   <1>20, <1>21, <1>22, <1>23 DEF WatcherNext

-----------------------------------------------------------------------------
(* The issue. *)
LEMMA IssueStep ==
  ASSUME WatcherTypes, IssueFits, [WatcherNext]_watcherVars
  PROVE  IssueFits'
<1>n. w \in WType /\ issue \in IssueType /\ lostNo \in Nat
  BY BoundsAre DEF WatcherTypes
<1>m. /\ w.asked \in Nat /\ w.home \in Nat /\ issue.edits \in Nat /\ issue.reruns \in Nat
      /\ issue.homes \in Seq({"requested", "done", "failed"}) /\ Len(issue.homes) \in Nat
  BY <1>n, WIs DEF IssueType
<1>w. w = [seen |-> w.seen, reviewed |-> w.reviewed, failed |-> w.failed, handled |-> w.handled,
           failedThrough |-> w.failedThrough, jobs |-> w.jobs, asked |-> w.asked, home |-> w.home]
  BY <1>n DEF WType
<1>i. issue = [edits |-> issue.edits, homes |-> issue.homes, reruns |-> issue.reruns] BY <1>n DEF IssueType
<1>r. \A new : Records(new) => (w' = new \/ w' = w) /\ lostNo' \in Nat /\ lostNo <= lostNo' BY <1>n DEF Records
<1>1. ASSUME issue' = issue, w'.asked = w.asked, w'.home = w.home, lostNo' \in Nat, lostNo <= lostNo' PROVE IssueFits'
  BY <1>1, <1>m, <1>n DEF IssueFits
<1>2. CASE EditIssue
  <2>1. /\ w' = w /\ lostNo' = lostNo /\ issue'.homes = issue.homes /\ issue'.reruns = issue.reruns
        /\ issue'.edits = issue.edits + 1
    BY <1>2, <1>i DEF EditIssue
  <2>q. QED BY <2>1, <1>m, <1>n DEF IssueFits
<1>3. ASSUME NEW h \in DOMAIN issue.homes, IssueRuns(h) PROVE IssueFits'
  <2>1. PICK end \in {"requested", "done", "failed"} : issue' = [issue EXCEPT !.homes[h] = end] BY <1>3 DEF IssueRuns
  <2>2. Len([issue.homes EXCEPT ![h] = end]) = Len(issue.homes) BY <1>m, HomesAre
  <2>3. issue' = [issue EXCEPT !.homes = [issue.homes EXCEPT ![h] = end]] BY <2>1
  <2>4. Len(issue'.homes) = Len(issue.homes) /\ issue'.reruns = issue.reruns /\ issue'.edits = issue.edits
    BY <2>2, <2>3, <1>i
  <2>5. w' = w /\ lostNo' = lostNo BY <1>3 DEF IssueRuns
  <2>q. QED BY <2>4, <2>5 DEF IssueFits
<1>4. CASE HandIssue
  <2> DEFINE new == [w EXCEPT !.home = Len(issue.homes) + 1, !.asked = issue.edits]
  <2>1. issue' = [issue EXCEPT !.homes = Append(@, "requested")] BY <1>4 DEF HandIssue
  <2>2. issue'.homes = Append(issue.homes, "requested") /\ issue'.reruns = issue.reruns /\ issue'.edits = issue.edits
    BY <2>1, <1>i
  <2>3. Len(issue'.homes) = Len(issue.homes) + 1 BY <2>2, <1>m
  <2>4. new.home = Len(issue.homes) + 1 /\ new.asked = issue.edits BY <1>w
  <2>5. \/ w' = new /\ lostNo' = lostNo
        \/ w' = w /\ lostNo' = lostNo + 1
    BY <1>4 DEF HandIssue, Records
  <2>6. w.home = 0 BY <1>4 DEF HandIssue
  <2>7. issue.reruns = 0 /\ w.asked <= issue.edits /\ issue.edits # 0 BY <2>6, <1>n, <1>m DEF IssueFits, IssueType
  <2>8. Len(issue.homes) <= lostNo BY <2>6, <1>m, <1>n DEF IssueFits
  <2> HIDE DEF new
  <2>9. CASE w' = new /\ lostNo' = lostNo
    <3>1. issue.reruns + 1 <= issue.edits + lostNo BY <2>7, <1>m, <1>n
    <3>q. QED BY <3>1, <2>2, <2>3, <2>4, <2>8, <2>9, <1>m, <1>n DEF IssueFits
  <2>10. CASE w' = w /\ lostNo' = lostNo + 1 BY <2>2, <2>3, <2>6, <2>7, <2>8, <2>10, <1>m, <1>n DEF IssueFits
  <2>q. QED BY <2>5, <2>9, <2>10
<1>5. CASE RerunIssue
  <2> DEFINE new == [w EXCEPT !.asked = issue.edits]
             homes == [issue.homes EXCEPT ![w.home] = "requested"]
  <2>1. w.home # 0 /\ w.asked # issue.edits BY <1>5 DEF RerunIssue
  <2>2. w.home \in DOMAIN issue.homes BY <2>1, <1>m DEF IssueFits
  <2>3. Len(homes) = Len(issue.homes) BY <2>2, <1>m, HomesAre
  <2>4. issue' = [issue EXCEPT !.homes = homes, !.reruns = @ + 1] BY <1>5 DEF RerunIssue
  <2> HIDE DEF homes
  <2>5. Len(issue'.homes) = Len(issue.homes) /\ issue'.reruns = issue.reruns + 1 /\ issue'.edits = issue.edits
    BY <2>3, <2>4, <1>i
  <2>6. new.home = w.home /\ new.asked = issue.edits BY <1>w
  <2>7. \/ w' = new /\ lostNo' = lostNo
        \/ w' = w /\ lostNo' = lostNo + 1
    BY <1>5 DEF RerunIssue, Records
  <2> HIDE DEF new
  <2>8. issue.reruns + 1 <= w.asked + lostNo /\ w.asked < issue.edits BY <2>1, <1>m DEF IssueFits
  <2>9. CASE w' = new /\ lostNo' = lostNo
    <3>1. issue.reruns + 2 <= issue.edits + lostNo BY <2>8, <1>m, <1>n
    <3>q. QED BY <2>1, <2>5, <2>6, <2>9, <3>1, <1>m, <1>n DEF IssueFits
  <2>10. CASE w' = w /\ lostNo' = lostNo + 1
    <3>1. issue.reruns + 2 <= w.asked + lostNo' BY <2>8, <2>10, <1>m, <1>n
    <3>q. QED BY <2>1, <2>5, <2>10, <3>1, <1>m, <1>n DEF IssueFits
  <2>q. QED BY <2>7, <2>9, <2>10
<1>6. ASSUME UNCHANGED issue,
             w' = w \/ (w'.asked = w.asked /\ w'.home = w.home), lostNo' \in Nat, lostNo <= lostNo'
      PROVE  IssueFits'
  BY <1>1, <1>6
<1>7. ASSUME NEW k \in Kinds, CreateFor(k) \/ PromptFor(k) \/ StillRunning(k) \/ StopFor(k) \/ EndedOtherwise(k) \/ PostFails(k)
      PROVE  IssueFits'
  <2>1. CASE StillRunning(k) \/ PostFails(k) BY <2>1, <1>n, <1>6 DEF StillRunning, PostFails
  <2>2. CASE CreateFor(k) \/ PromptFor(k) \/ StopFor(k)
    <3>1. issue' = issue /\ \E job : (w' = Put(job) \/ w' = w) /\ lostNo' \in Nat /\ lostNo <= lostNo'
      BY <2>2, <1>n, <1>r DEF CreateFor, PromptFor, StopFor
    <3>2. \A job : Put(job).asked = w.asked /\ Put(job).home = w.home BY <1>w DEF Put
    <3>q. QED BY <3>1, <3>2, <1>6
  <2>3. CASE EndedOtherwise(k)
    <3>1. Job(k) # NoJob /\ w' = FailedJob(k) /\ issue' = issue /\ lostNo' = lostNo
      BY <2>3 DEF EndedOtherwise, Ready, Advancing
    <3>2. w'.asked = w.asked /\ w'.home = w.home BY <3>1, EndIs
    <3>q. QED BY <3>1, <3>2, <1>n, <1>6
  <2>q. QED BY <1>7, <2>1, <2>2, <2>3
<1>8. CASE PostReview \/ PushCommits \/ (\E c \in 1..MaxComments : PostReply(c)) \/ PostRest \/ CommentsDone
  <2>1. issue' = issue BY <1>8 DEF PostReview, PushCommits, PostReply, PostRest, CommentsDone
  <2>2. \A job : Put(job).asked = w.asked /\ Put(job).home = w.home BY <1>w DEF Put
  <2>3. CASE PostReview
    <3> DEFINE new == [w EXCEPT !.reviewed = Job("review").head, !.jobs["review"] = NoJob]
    <3>1. Records(new) BY <2>3 DEF PostReview
    <3>2. new.asked = w.asked /\ new.home = w.home BY <1>w
    <3> HIDE DEF new
    <3>q. QED BY <2>1, <3>1, <3>2, <1>r, <1>6
  <2>4. CASE PushCommits
    <3>1. CASE Job("comments") # NoJob /\ w' = FailedJob("comments") /\ lostNo' = lostNo
      BY <2>1, <3>1, <1>n, <1>6, EndIs DEF Kinds
    <3>2. CASE \E job : Records(Put(job)) \/ (w' = Put(job) /\ lostNo' = lostNo)
      BY <2>1, <2>2, <3>2, <1>n, <1>r, <1>6
    <3>3. Job("comments") # NoJob BY <2>4 DEF PushCommits, Posting, Ready, Advancing
    <3>q. QED BY <2>4, <3>1, <3>2, <3>3 DEF PushCommits
  <2>5. CASE (\E c \in 1..MaxComments : PostReply(c)) \/ PostRest
    <3>1. \E job : Records(Put(job)) BY <2>5 DEF PostReply, PostRest
    <3>q. QED BY <2>1, <2>2, <3>1, <1>r, <1>6
  <2>6. CASE CommentsDone
    <3>1. w'.asked = w.asked /\ w'.home = w.home /\ lostNo' = lostNo BY <2>6, <1>w DEF CommentsDone
    <3>q. QED BY <2>1, <3>1, <1>n, <1>6
  <2>q. QED BY <1>8, <2>3, <2>4, <2>5, <2>6
<1>9. CASE PollGitHub
  <2>1. w'.asked = w.asked /\ w'.home = w.home /\ lostNo' = lostNo /\ issue' = issue BY <1>9, <1>w DEF PollGitHub
  <2>q. QED BY <2>1, <1>n, <1>6
<1>10. CASE StartComments \/ StartReview
  <2>1. \A job : Put(job).asked = w.asked /\ Put(job).home = w.home BY <1>w DEF Put
  <2>2. issue' = issue /\ lostNo' = lostNo /\ \E job : w' = Put(job) BY <1>10 DEF StartComments, StartReview
  <2>q. QED BY <2>1, <2>2, <1>n, <1>6
<1>11. CASE NextPoll \/ Push \/ Comment \/ (\E s \in DOMAIN wsess : SessionEnds(s)) \/ UNCHANGED watcherVars
  <2>1. w' = w /\ lostNo' = lostNo /\ issue' = issue BY <1>11 DEF NextPoll, Push, Comment, SessionEnds, watcherVars
  <2>q. QED BY <2>1, <1>n, <1>6
<1>q. QED BY <1>2, <1>3, <1>4, <1>5, <1>7, <1>8, <1>9, <1>10, <1>11 DEF WatcherNext

-----------------------------------------------------------------------------
(* A step keeps all of it. *)
LEMMA WInvStep == ASSUME WInv, [WatcherNext]_watcherVars PROVE WInv'
<1>1. WatcherTypes' BY WatcherTypesStep DEF WInv
<1>2. SessionsGrow BY SessionsStep DEF WInv
<1>3. JobsFit' BY <1>1, <1>2, JobsStep DEF WInv
<1>4. ReviewsFit' BY <1>1, ReviewsStep DEF WInv
<1>5. CommentsFit' BY <1>1, <1>2, CommentsStep DEF WInv
<1>6. IssueFits' BY IssueStep DEF WInv
<1>q. QED BY <1>1, <1>3, <1>4, <1>5, <1>6 DEF WInv

LEMMA WInvInit == ASSUME WatcherInit PROVE WInv
<1>1. WatcherTypes BY WatcherTypesInit
<1>2. Job("review") = NoJob /\ Job("comments") = NoJob /\ (\A k \in Kinds : Job(k) = NoJob) BY DEF WatcherInit, Job, Kinds
<1>3. JobsFit BY <1>2 DEF WatcherInit, JobsFit
<1>4. ReviewsFit
  <2>1. \A h \in Heads : hub.reviews[h] = 0 /\ ~(h <= 0) BY BoundsAre DEF WatcherInit, Heads
  <2>2. w.reviewed = 0 /\ poll.head = 1 /\ hub.head = 1 /\ poll.review = 0 /\ lostNo = 0 BY DEF WatcherInit
  <2>q. QED BY <1>2, <2>1, <2>2 DEF ReviewsFit
<1>5. CommentsFit
  <2>1. \A c \in Written : hub.answers[c] = 0 /\ ~(c <= 0) BY BoundsAre DEF WatcherInit, Written
  <2>2. w.handled = 0 /\ poll.due = {} /\ lostNo = 0 BY DEF WatcherInit
  <2>q. QED BY <1>2, <2>1, <2>2 DEF CommentsFit, Posted
<1>6. IssueFits
  <2>1. w.home = 0 /\ w.asked = 0 /\ issue.edits = 1 /\ issue.homes = <<>> /\ issue.reruns = 0 /\ lostNo = 0 BY DEF WatcherInit
  <2>q. QED BY <2>1 DEF IssueFits
<1>q. QED BY <1>1, <1>3, <1>4, <1>5, <1>6 DEF WInv

LEMMA WInvAlways == WatcherSpec => []WInv
<1>1. WatcherInit => WInv BY WInvInit
<1>2. WInv /\ [WatcherNext]_watcherVars => WInv' BY WInvStep
<1>q. QED BY <1>1, <1>2, PTL DEF WatcherSpec

(* The types of the watcher, for every number of heads, comments, edits    *)
(* and lost effects.                                                       *)
THEOREM WatcherTypeCorrect == WatcherSpec => []WatcherTypeOK
<1>1. ASSUME WInv PROVE WatcherTypeOK
  <2>1. w \in WType /\ poll \in PollType /\ hub \in HubType /\ lostNo \in 0..MaxLost
    BY <1>1 DEF WInv, WatcherTypes
  <2>2. {w.seen, w.reviewed, w.failed, hub.head} \subseteq 0..MaxHeads BY <2>1, BoundsAre DEF WType, HubType, Heads
  <2>3. {w.handled, w.failedThrough, hub.comments} \subseteq 0..MaxComments BY <2>1 DEF WType, HubType, Marks
  <2>4. \A k \in Running : Job(k).kind = k /\ Job(k).session \in 0..Len(wsess)
    BY <1>1 DEF WInv, JobsFit, JobFits, Running, Job
  <2>5. poll.step \in {"advance", "start"} /\ poll.left \subseteq Kinds /\ poll.due \subseteq 1..MaxComments
    BY <2>1 DEF PollType, Written
  <2>q. QED BY <2>1, <2>2, <2>3, <2>4, <2>5 DEF WatcherTypeOK
<1>q. QED BY <1>1, WInvAlways, PTL

(* What the watcher says on GitHub it says once, but for the effects it    *)
(* lost track of, and a comment under the handled mark has its answer,     *)
(* for any number of heads, comments, edits, sessions and lost effects.    *)
THEOREM SaidOnceAlways == WatcherSpec => []SaidOnce
<1>1. ASSUME WInv PROVE SaidOnce
  <2>0. ReviewsFit /\ CommentsFit /\ IssueFits /\ WatcherTypes BY <1>1 DEF WInv
  <2>1. lostNo \in Nat /\ w \in WType /\ hub \in HubType /\ issue \in IssueType BY <2>0, BoundsAre DEF WatcherTypes
  <2>2. w.handled \in Nat /\ w.handled <= MaxComments /\ w.asked \in Nat BY <2>1, WIs, BoundsAre DEF Marks
  <2>3. \A h \in 1..MaxHeads : hub.reviews[h] <= 1 + lostNo
    <3>1. \A h \in Heads : hub.reviews[h] \in Nat /\ hub.reviews[h] <= lostNo + (IF h <= w.reviewed THEN 1 ELSE 0)
      BY <2>0, <2>1, HubIs DEF ReviewsFit
    <3>q. QED BY <3>1, <2>1 DEF Heads
  <2>4. \A c \in Written : hub.answers[c] \in Nat /\ hub.answers[c] <= lostNo + (IF c <= w.handled \/ c \in Posted THEN 1 ELSE 0)
    BY <2>0, <2>1, HubIs DEF CommentsFit
  <2>5. \A c \in 1..MaxComments : hub.answers[c] <= 1 + lostNo BY <2>1, <2>4 DEF Written
  <2>6. \A c \in 1..w.handled : hub.answers[c] >= 1
    <3>1. \A c \in 1..w.handled : c \in Written /\ c <= w.handled BY <2>2, BoundsAre DEF Written
    <3>q. QED BY <2>0, <3>1 DEF CommentsFit
  <2>7. Len(issue.homes) <= 1 + lostNo
    <3>1. Len(issue.homes) \in Nat BY <2>1 DEF IssueType
    <3>q. QED BY <2>0, <2>1, <3>1 DEF IssueFits
  <2>8. issue.reruns + 1 <= issue.edits + lostNo
    <3>1. issue.reruns \in Nat /\ issue.edits \in Nat /\ issue.edits # 0 BY <2>1 DEF IssueType
    <3>2. w.asked <= issue.edits /\ issue.reruns + (IF w.home # 0 THEN 1 ELSE 0) <= w.asked + lostNo BY <2>0 DEF IssueFits
    <3>3. w.home = 0 => issue.reruns = 0 BY <2>0 DEF IssueFits
    <3>4. CASE w.home = 0 BY <2>1, <3>1, <3>3, <3>4
    <3>5. CASE w.home # 0 BY <2>1, <2>2, <3>1, <3>2, <3>5
    <3>q. QED BY <3>4, <3>5
  <2>q. QED BY <2>3, <2>5, <2>6, <2>7, <2>8 DEF SaidOnce
<1>q. QED BY <1>1, WInvAlways, PTL

-----------------------------------------------------------------------------
(* The numbers of a set in order. *)
Rank(S, e) == Cardinality({f \in S : f <= e})

LEMMA LeastIs ==
  ASSUME NEW S \in SUBSET Nat, S # {}
  PROVE  \E m \in S : \A j \in S : m <= j
<1>1. \E x \in S : \A y \in S : ~(<<y, x>> \in OpToRel(<, Nat))
  BY WFMin, NatLessThanWellFounded, Zenon
<1>2. PICK x \in S : \A y \in S : ~(<<y, x>> \in OpToRel(<, Nat)) BY <1>1
<1>3. ASSUME NEW y \in S, y < x PROVE FALSE
  <2>1. <<y, x>> \in OpToRel(<, Nat) BY <1>3, Zenon DEF OpToRel
  <2> QED BY <1>2, <2>1, Zenon
<1> HIDE <1>2
<1> QED BY <1>3

LEMMA RankIs ==
  ASSUME NEW S \in SUBSET Nat, IsFiniteSet(S), NEW e \in S
  PROVE  /\ Rank(S, e) \in 1 .. Cardinality(S)
         /\ \A d \in S : d < e => Rank(S, d) < Rank(S, e)
<1> DEFINE B(d) == {f \in S : f <= d}
<1>1. ASSUME NEW d \in S PROVE IsFiniteSet(B(d)) /\ Cardinality(B(d)) \in Nat /\ Cardinality(B(d)) <= Cardinality(S)
  <2>1. B(d) \in SUBSET S OBVIOUS
  <2> QED BY <2>1, FS_Subset, FS_CardinalityType
<1>2. Cardinality(S) \in Nat BY FS_CardinalityType
<1>3. Cardinality(B(e)) # 0
  <2>1. e \in B(e) OBVIOUS
  <2> QED BY <2>1, <1>1, FS_EmptySet
<1>4. ASSUME NEW d \in S, d < e PROVE Cardinality(B(d)) < Cardinality(B(e))
  <2>0. e \in B(e) /\ e \notin B(d) BY <1>4
  <2>1. B(d) \in SUBSET B(e) /\ B(d) # B(e)
    <3>1. ASSUME NEW f \in B(d) PROVE f \in B(e) BY <1>4
    <3> QED BY <2>0, <3>1
  <2>2. Cardinality(B(d)) <= Cardinality(B(e)) /\ Cardinality(B(d)) # Cardinality(B(e))
    <3> HIDE DEF B
    <3> QED BY <1>1, <2>1, FS_Subset, Zenon
  <2> QED BY <1>1, <2>2
<1> QED BY <1>1, <1>2, <1>3, <1>4 DEF Rank

(* Each number of a set stands, in order, at the place of its rank.        *)
LEMMA InOrderRank ==
  ASSUME NEW S \in SUBSET Nat, IsFiniteSet(S)
  PROVE  /\ Cardinality(S) \in Nat
         /\ InOrder(S) \in [1 .. Cardinality(S) -> S]
         /\ \A e \in S : Rank(S, e) \in 1 .. Cardinality(S) /\ InOrder(S)[Rank(S, e)] = e
         /\ \A k \in 1 .. Cardinality(S) : Rank(S, InOrder(S)[k]) = k
<1> DEFINE r == [e \in S |-> Rank(S, e)]
           N == Cardinality(S)
<1>1. N \in Nat BY FS_CardinalityType
<1>2. IsFiniteSet(1..N) /\ Cardinality(1..N) = N BY <1>1, FS_Interval
<1>3. r \in [S -> 1..N] BY RankIs
<1>4. ASSUME NEW d \in S, NEW e \in S, Rank(S, d) = Rank(S, e) PROVE d = e
  <2>1. ~(d < e) /\ ~(e < d) BY <1>4, RankIs
  <2> QED BY <2>1
<1>5. r \in Injection(S, 1..N)
  <2>1. IsInjective(r) BY <1>4 DEF IsInjective
  <2> QED BY <1>3, <2>1 DEF Injection
<1>6. r \in Surjection(S, 1..N) BY <1>2, <1>5, FS_Injection
<1>7. ASSUME NEW k \in 1..N PROVE InOrder(S)[k] \in S /\ Rank(S, InOrder(S)[k]) = k
  <2>1. PICK e \in S : Rank(S, e) = k BY <1>6 DEF Surjection
  <2>2. InOrder(S)[k] = CHOOSE d \in S : Rank(S, d) = k BY DEF InOrder, Rank
  <2> QED BY <2>1, <2>2
<1>8. InOrder(S) \in [1..N -> S]
  <2>1. InOrder(S) = [k \in 1..N |-> InOrder(S)[k]] BY DEF InOrder
  <2> QED BY <2>1, <1>7
<1>9. ASSUME NEW e \in S PROVE Rank(S, e) \in 1..N /\ InOrder(S)[Rank(S, e)] = e
  <2>1. Rank(S, e) \in 1..N BY RankIs
  <2> QED BY <2>1, <1>7, <1>4
<1> QED BY <1>1, <1>7, <1>8, <1>9

(* What is greater than all of a set comes, in order, after it.            *)
LEMMA InOrderThen ==
  ASSUME NEW S \in SUBSET Nat, IsFiniteSet(S), NEW T \in SUBSET Nat, IsFiniteSet(T),
         \A s \in S, t \in T : s < t
  PROVE  InOrder(S \cup T) = InOrder(S) \o InOrder(T)
<1> DEFINE U == S \cup T
           N == Cardinality(S)
           M == Cardinality(T)
<1>1. U \in SUBSET Nat /\ IsFiniteSet(U) BY FS_Union
<1>2. N \in Nat /\ M \in Nat /\ Cardinality(U) = N + M
  <2>1. S \cap T = {}
    <3>1. ASSUME NEW x \in S, x \in T PROVE FALSE
      <4>1. x < x /\ x \in Nat BY <3>1
      <4> QED BY <4>1
    <3> QED BY <3>1
  <2>2. Cardinality(S \cap T) = 0 BY <2>1, FS_EmptySet
  <2>3. Cardinality(U) = N + M - Cardinality(S \cap T) BY FS_Union
  <2>4. N \in Nat /\ M \in Nat BY FS_CardinalityType
  <2> HIDE DEF N, M, U
  <2> QED BY <2>2, <2>3, <2>4
<1>3. ASSUME NEW e \in S PROVE Rank(U, e) = Rank(S, e)
  <2>1. ASSUME NEW f \in T PROVE ~(f <= e)
    <3>1. e < f /\ e \in Nat /\ f \in Nat BY <2>1
    <3> QED BY <3>1
  <2>2. {f \in U : f <= e} = {f \in S : f <= e} BY <2>1
  <2> QED BY <2>2 DEF Rank
<1>4. ASSUME NEW e \in T PROVE Rank(U, e) = N + Rank(T, e)
  <2> DEFINE B == {f \in T : f <= e}
  <2>0. ASSUME NEW f \in S PROVE f <= e /\ f \notin T
    <3>1. f < e /\ e \in Nat /\ f \in Nat BY <2>0
    <3>2. ASSUME f \in T PROVE FALSE
      <4>1. f < f BY <2>0, <3>2
      <4> QED BY <3>1, <4>1
    <3> QED BY <3>1, <3>2
  <2>1. {f \in U : f <= e} = S \cup B BY <2>0
  <2>2. IsFiniteSet(B) /\ S \cap B = {}
    <3>1. B \in SUBSET T OBVIOUS
    <3> QED BY <3>1, <2>0, FS_Subset
  <2>3. Cardinality(S \cap B) = 0 BY <2>2, FS_EmptySet
  <2>4. Cardinality(S \cup B) = N + Cardinality(B)
    <3> HIDE DEF B
    <3>1. Cardinality(B) \in Nat BY <2>2, FS_CardinalityType
    <3>2. Cardinality(S \cup B) = N + Cardinality(B) - Cardinality(S \cap B) BY <2>2, FS_Union
    <3> HIDE DEF N
    <3> QED BY <2>3, <3>1, <3>2, <1>2
  <2> QED BY <2>1, <2>4 DEF Rank
<1>5. /\ InOrder(S) \in [1..N -> S] /\ InOrder(T) \in [1..M -> T] /\ InOrder(U) \in [1..(N + M) -> U]
  BY <1>1, <1>2, InOrderRank
<1>6. Len(InOrder(S)) = N /\ Len(InOrder(T)) = M /\ InOrder(S) \in Seq(Nat) /\ InOrder(T) \in Seq(Nat)
  <2>1. InOrder(S) \in [1..N -> Nat] /\ InOrder(T) \in [1..M -> Nat] BY <1>5
  <2> QED BY <2>1, <1>2
<1>7. ASSUME NEW k \in 1..(N + M) PROVE InOrder(U)[k] = IF k <= N THEN InOrder(S)[k] ELSE InOrder(T)[k - N]
  <2>1. CASE k <= N
    <3>1. k \in 1..N BY <2>1, <1>2
    <3>2. InOrder(S)[k] \in S /\ Rank(S, InOrder(S)[k]) = k BY <3>1, <1>5, InOrderRank
    <3>3. Rank(U, InOrder(S)[k]) = k /\ InOrder(S)[k] \in U BY <3>2, <1>3
    <3>4. InOrder(U)[Rank(U, InOrder(S)[k])] = InOrder(S)[k] BY <3>3, <1>1, InOrderRank
    <3> QED BY <3>3, <3>4, <2>1
  <2>2. CASE ~(k <= N)
    <3>1. k - N \in 1..M BY <2>2, <1>2
    <3>2. InOrder(T)[k - N] \in T /\ Rank(T, InOrder(T)[k - N]) = k - N BY <3>1, <1>5, InOrderRank
    <3> DEFINE e == InOrder(T)[k - N]
    <3>0. e \in T /\ Rank(T, e) = k - N BY <3>2
    <3>5. Rank(U, e) = N + (k - N) BY <3>0, <1>4
    <3>6. N + (k - N) = k BY <1>2
    <3>3. Rank(U, InOrder(T)[k - N]) = k /\ InOrder(T)[k - N] \in U BY <3>0, <3>5, <3>6
    <3>4. InOrder(U)[Rank(U, InOrder(T)[k - N])] = InOrder(T)[k - N] BY <3>3, <1>1, InOrderRank
    <3> QED BY <3>3, <3>4, <2>2
  <2> QED BY <2>1, <2>2
<1> DEFINE V == InOrder(S) \o InOrder(T)
<1>8. V \in [1..(N + M) -> Nat] /\ \A k \in 1..(N + M) : V[k] = IF k <= N THEN InOrder(S)[k] ELSE InOrder(T)[k - N]
  <2> DEFINE a == InOrder(S)
             b == InOrder(T)
  <2>0. a \in Seq(Nat) /\ b \in Seq(Nat) /\ Len(a) = N /\ Len(b) = M BY <1>6
  <2> HIDE DEF a, b, N, M
  <2>1. a \o b \in Seq(Nat) /\ Len(a \o b) = N + M BY <2>0, ConcatProperties
  <2>2. a \o b \in [1..(N + M) -> Nat]
    <3> DEFINE c == a \o b
    <3>1. c \in Seq(Nat) /\ Len(c) = N + M BY <2>1
    <3> HIDE DEF c
    <3>2. c \in [1..Len(c) -> Nat] BY <3>1
    <3> QED BY <3>1, <3>2 DEF c
  <2>3. \A k \in 1..(N + M) : (a \o b)[k] = IF k <= N THEN a[k] ELSE b[k - N]
    BY <2>0, ConcatProperties
  <2> USE DEF a, b
  <2> QED BY <2>2, <2>3
<1>9. InOrder(U) \in [1..(N + M) -> Nat] BY <1>5, <1>1
<1>10. InOrder(U) = V
  <2> DEFINE c == InOrder(U)
             K == 1..(N + M)
  <2>1. c \in [K -> Nat] /\ V \in [K -> Nat] BY <1>8, <1>9
  <2>2. \A k \in K : c[k] = V[k] BY <1>7, <1>8
  <2> HIDE DEF c, V, K
  <2>3. c = V BY <2>1, <2>2
  <2> QED BY <2>3 DEF c
<1> QED BY <1>10

(* The greatest of some numbers of a finite set. *)
LEMMA GreatestIs ==
  ASSUME NEW S \in SUBSET Nat, IsFiniteSet(S), S # {}
  PROVE  Max(S) \in S /\ \A y \in S : y <= Max(S)
<1>1. Cardinality(S) \in Nat /\ Cardinality(S) # 0 BY FS_CardinalityType, FS_EmptySet
<1>2. \E x \in S : \A y \in S : y <= x
  <2> DEFINE N == Cardinality(S)
             x == InOrder(S)[N]
  <2>1. x \in S /\ Rank(S, x) = N BY <1>1, InOrderRank
  <2>2. ASSUME NEW y \in S PROVE ~(x < y)
    <3>1. Rank(S, y) \in 1 .. N BY RankIs
    <3>2. x < y => Rank(S, x) < Rank(S, y) BY <2>1, RankIs
    <3>3. N \in Nat BY <1>1
    <3> HIDE DEF x, N
    <3> QED BY <2>1, <3>1, <3>2, <3>3
  <2> HIDE DEF x
  <2> QED BY <2>1, <2>2
<1> QED BY <1>2 DEF Max

(* In order, the numbers of a set come from its least, each once.          *)
LEMMA InOrderIs ==
  ASSUME NEW S \in SUBSET Nat, IsFiniteSet(S)
  PROVE  /\ Cardinality(S) \in Nat
         /\ InOrder(S) \in [1 .. Cardinality(S) -> S]
         /\ \A e \in S : \E k \in 1 .. Cardinality(S) : InOrder(S)[k] = e
         /\ \A j, k \in 1 .. Cardinality(S) : InOrder(S)[j] < InOrder(S)[k] => j < k
<1> DEFINE N == Cardinality(S)
<1>1. /\ N \in Nat /\ InOrder(S) \in [1 .. N -> S]
      /\ \A e \in S : Rank(S, e) \in 1 .. N /\ InOrder(S)[Rank(S, e)] = e
      /\ \A k \in 1 .. N : Rank(S, InOrder(S)[k]) = k
  BY InOrderRank
<1>2. ASSUME NEW j \in 1..N, NEW k \in 1..N, InOrder(S)[j] < InOrder(S)[k] PROVE j < k
  <2>1. InOrder(S)[j] \in S /\ InOrder(S)[k] \in S BY <1>1
  <2>2. Rank(S, InOrder(S)[j]) < Rank(S, InOrder(S)[k]) BY <1>2, <2>1, RankIs
  <2> QED BY <1>1, <2>2
<1> QED BY <1>1, <1>2

-----------------------------------------------------------------------------
(* The phone. *)
(* Of the numbers of an interval, in order, the k-th is the k-th.          *)
LEMMA InOrderOfInterval ==
  ASSUME NEW a \in Nat, NEW b \in Nat, a <= b
  PROVE  InOrder((a + 1) .. b) = [k \in 1 .. (b - a) |-> a + k]
<1> DEFINE S == (a + 1) .. b
<1>1. Cardinality(S) = b - a
  <2>1. a + 1 \in Int /\ b \in Int OBVIOUS
  <2>2. Cardinality(S) = IF a + 1 > b THEN 0 ELSE b - (a + 1) + 1 BY <2>1, FS_Interval
  <2> QED BY <2>2
<1>2. ASSUME NEW e \in S PROVE Cardinality({f \in S : f <= e}) = e - a
  <2>1. {f \in S : f <= e} = (a + 1) .. e OBVIOUS
  <2>2. Cardinality((a + 1) .. e) = e - a BY FS_Interval
  <2> QED BY <2>1, <2>2
<1>3. ASSUME NEW k \in 1 .. (b - a)
      PROVE  (CHOOSE e \in S : Cardinality({f \in S : f <= e}) = k) = a + k
  <2>1. a + k \in S OBVIOUS
  <2>2. \A e \in S : Cardinality({f \in S : f <= e}) = k <=> e = a + k BY <1>2
  <2> HIDE DEF S
  <2> QED BY <2>1, <2>2
<1> QED BY <1>1, <1>3 DEF InOrder

-----------------------------------------------------------------------------
(* Types. *)

DrainType == {Off} \cup [at : {"item", "call"}, todo : Seq(Prompts)]
CallType == [p : Prompts, by : Drainers \cup {"nobody"}, at : {"arrived", "new"}, n : Nat]
MirrorType == [rows : Seq(Nat), cursor : Nat, synced : BOOLEAN]
LinkType == [up : {"off", "up", "down"}, sub : BOOLEAN, pushes : Seq(Nat)]
FetchType == {NoFetch} \cup [at : {"asked"}, from : Nat] \cup [at : {"answered"}, events : Seq(Nat)]
BeenType ==
  [overlapped : SUBSET Prompts, refused : SUBSET Prompts, torn : BOOLEAN, forgotten : BOOLEAN,
   cuts : Nat, pauses : Nat]
RefreshType ==
  {Resting} \cup [at : {"listed"}, has : BOOLEAN] \cup [at : {"read"}, cursor : Nat, synced : BOOLEAN]

(* What the phone has, or is sent, is of the log.                          *)
FromLog(s, len) == \A i \in DOMAIN s : s[i] \in 1 .. len
FetchFits(f, len) ==
  /\ f.at = "asked" => f.from <= len
  /\ f.at = "answered" => FromLog(f.events, len)

ReadsFit(rf, n) == \A r \in Refreshers : rf[r].at = "read" => rf[r].cursor <= n

PhoneTypes ==
  /\ eventLog \in Seq(0 .. MaxPrompts) /\ eventLog # <<>> /\ paused \in BOOLEAN
  /\ outbox \in [Prompts -> {"none", "pending", "blocked", "sent", "discarded"}]
  /\ drain \in [Drainers -> DrainType] /\ prompts \in SUBSET CallType
  /\ mirror \in MirrorType /\ link \in LinkType /\ fetch \in FetchType /\ been \in BeenType
  /\ FromLog(mirror.rows, Len(eventLog)) /\ mirror.cursor <= Len(eventLog)
  /\ FromLog(link.pushes, Len(eventLog)) /\ Len(link.pushes) <= Buffer
  /\ FetchFits(fetch, Len(eventLog))
  /\ refresh \in [Refreshers -> RefreshType] /\ ReadsFit(refresh, Len(eventLog))

LEMMA PhoneBounds ==
  /\ MaxPrompts \in Nat /\ MaxOthers \in Nat /\ MaxCuts \in Nat /\ MaxPauses \in Nat /\ Buffer \in Nat
  /\ "nobody" \notin Drainers
BY PhoneAssumption

LEMMA TypesGive == PhoneTypes => PhoneTypeOK
<1> SUFFICES ASSUME PhoneTypes PROVE PhoneTypeOK OBVIOUS
<1>1. \A d \in Drainers : drain[d].at \in {"off", "item", "call"} BY DEF PhoneTypes, DrainType, Off
<1>2. \A c \in prompts : c.p \in Prompts /\ c.by \in Drainers \cup {"nobody"} BY DEF PhoneTypes, CallType
<1>3. Range(mirror.rows) \subseteq DOMAIN eventLog BY DEF PhoneTypes, FromLog, Range
<1>4. mirror.cursor \in 0 .. Len(eventLog) BY DEF PhoneTypes, MirrorType
<1>5. link.up \in {"off", "up", "down"} /\ Len(link.pushes) <= Buffer BY DEF PhoneTypes, LinkType
<1>6. fetch.at \in {"none", "asked", "answered"} BY DEF PhoneTypes, FetchType, NoFetch
<1>7. \A r \in Refreshers : refresh[r].at \in {"idle", "listed", "read"} BY DEF PhoneTypes, RefreshType, Resting
<1> QED BY <1>1, <1>2, <1>3, <1>4, <1>5, <1>6, <1>7 DEF PhoneTypeOK, PhoneTypes

LEMMA PhoneInitTypes == PhoneInit => PhoneTypes
<1> SUFFICES ASSUME PhoneInit PROVE PhoneTypes OBVIOUS
<1>1. eventLog \in Seq(0 .. MaxPrompts) /\ eventLog # <<>> /\ paused \in BOOLEAN /\ Len(eventLog) = 1
  <2>1. eventLog = <<0>> /\ paused = FALSE /\ 0 \in 0 .. MaxPrompts BY PhoneBounds DEF PhoneInit
  <2>2. <<0>> \in Seq(0 .. MaxPrompts) BY <2>1
  <2>3. Len(<<0>>) = 1 /\ <<0>> # <<>> OBVIOUS
  <2> QED BY <2>1, <2>2, <2>3
<1>2. outbox \in [Prompts -> {"none", "pending", "blocked", "sent", "discarded"}] BY DEF PhoneInit
<1>3. drain \in [Drainers -> DrainType] /\ prompts \in SUBSET CallType BY DEF PhoneInit, DrainType
<1>4. mirror \in MirrorType /\ link \in LinkType /\ fetch \in FetchType /\ been \in BeenType
  <2>1. PICK none \in Seq(Nat) : none = <<>>
    <3>1. <<>> \in Seq(Nat) OBVIOUS
    <3> QED BY <3>1, Zenon
  <2>2. mirror \in MirrorType /\ been \in BeenType BY <2>1 DEF PhoneInit, Emptied, MirrorType, BeenType
  <2>3. link \in LinkType BY <2>1 DEF PhoneInit, LinkType
  <2>4. fetch \in FetchType BY DEF PhoneInit, FetchType
  <2> QED BY <2>2, <2>3, <2>4
<1>5. FromLog(mirror.rows, Len(eventLog)) /\ mirror.cursor <= Len(eventLog) BY <1>1 DEF PhoneInit, Emptied, FromLog
<1>6. FromLog(link.pushes, Len(eventLog)) /\ Len(link.pushes) <= Buffer BY <1>1, PhoneBounds DEF PhoneInit, FromLog
<1>7. FetchFits(fetch, Len(eventLog)) BY DEF PhoneInit, FetchFits, NoFetch
<1>8. refresh \in [Refreshers -> RefreshType] /\ ReadsFit(refresh, Len(eventLog))
  <2>1. \A x \in [at : {"listed"}, has : {FALSE}] : x \in RefreshType /\ x.at = "listed" BY DEF RefreshType
  <2>2. Resting \in RefreshType /\ Resting.at = "idle" BY DEF RefreshType, Resting
  <2>3. refresh \in [Refreshers -> {Resting} \cup [at : {"listed"}, has : {FALSE}]] BY DEF PhoneInit
  <2>4. \A r \in Refreshers : refresh[r] \in RefreshType /\ refresh[r].at # "read" BY <2>1, <2>2, <2>3
  <2> QED BY <2>3, <2>4 DEF ReadsFit
<1> QED BY <1>1, <1>2, <1>3, <1>4, <1>5, <1>6, <1>7, <1>8 DEF PhoneTypes

(* What is of the log stays so as it grows.                                *)
LEMMA StillFromLog ==
  ASSUME NEW s, NEW n \in Nat, NEW m \in Nat, n <= m, FromLog(s, n)
  PROVE  FromLog(s, m)
BY DEF FromLog

LEMMA StillFits ==
  ASSUME NEW f \in FetchType, NEW n \in Nat, NEW m \in Nat, n <= m, FetchFits(f, n)
  PROVE  FetchFits(f, m)
BY DEF FetchFits, FromLog, FetchType, NoFetch

LEMMA StillReads ==
  ASSUME refresh \in [Refreshers -> RefreshType], NEW n \in Nat, NEW m \in Nat, n <= m, ReadsFit(refresh, n)
  PROVE  ReadsFit(refresh, m)
<1>1. ASSUME NEW r \in Refreshers, refresh[r].at = "read" PROVE refresh[r].cursor <= m
  <2>1. refresh[r].cursor \in Nat /\ refresh[r].cursor <= n BY <1>1 DEF ReadsFit, RefreshType, Resting
  <2> QED BY <2>1
<1> QED BY <1>1 DEF ReadsFit

(* What an append does to the log and the connection.                      *)
LEMMA AppendTypes ==
  ASSUME PhoneTypes, NEW p \in 0 .. MaxPrompts, Appends(p)
  PROVE  /\ eventLog' \in Seq(0 .. MaxPrompts) /\ eventLog' # <<>> /\ Len(eventLog') = Len(eventLog) + 1
         /\ \A i \in 1 .. Len(eventLog) : eventLog'[i] = eventLog[i]
         /\ eventLog'[Len(eventLog) + 1] = p
         /\ link' \in LinkType /\ FromLog(link'.pushes, Len(eventLog')) /\ Len(link'.pushes) <= Buffer
<1>1. /\ eventLog' \in Seq(0 .. MaxPrompts) /\ eventLog' # <<>> /\ Len(eventLog') = Len(eventLog) + 1
      /\ \A i \in 1 .. Len(eventLog) : eventLog'[i] = eventLog[i]
      /\ eventLog'[Len(eventLog) + 1] = p
  BY DEF PhoneTypes, Appends
<1>2. Len(eventLog) \in Nat BY DEF PhoneTypes
<1>3. FromLog(link.pushes, Len(eventLog')) BY <1>1, <1>2, StillFromLog DEF PhoneTypes
<1>4. CASE link.up # "up" \/ ~link.sub \/ ~(Len(link.pushes) < Buffer)
  <2>1. link' = link \/ link' = [link EXCEPT !.up = "down"] BY <1>4 DEF Appends
  <2>2. link' \in LinkType /\ link'.pushes = link.pushes BY <2>1 DEF PhoneTypes, LinkType
  <2> QED BY <1>1, <1>3, <2>2 DEF PhoneTypes
<1>5. CASE link.up = "up" /\ link.sub /\ Len(link.pushes) < Buffer
  <2>1. link' = [link EXCEPT !.pushes = Append(@, Len(eventLog) + 1)] BY <1>5 DEF Appends
  <2>2. link.pushes \in Seq(Nat) /\ Len(eventLog) + 1 \in Nat BY <1>2 DEF PhoneTypes, LinkType
  <2>3. Append(link.pushes, Len(eventLog) + 1) \in Seq(Nat) BY <2>2
  <2>4. link' \in LinkType /\ link'.pushes = Append(link.pushes, Len(eventLog) + 1)
    BY <2>1, <2>3 DEF PhoneTypes, LinkType
  <2>5. Len(link'.pushes) <= Buffer BY <2>2, <2>4, <1>5, PhoneBounds
  <2>6. FromLog(link'.pushes, Len(eventLog'))
    BY <2>2, <2>4, <1>1, <1>2, <1>3 DEF FromLog
  <2> QED BY <1>1, <2>4, <2>5, <2>6
<1> QED BY <1>1, <1>4, <1>5

(* The rows an apply adds, for what is of the log.                         *)
LEMMA ApplyTypes ==
  ASSUME PhoneTypes, NEW events \in Seq(Nat), FromLog(events, Len(eventLog)), Apply(events)
  PROVE  /\ mirror' \in MirrorType /\ FromLog(mirror'.rows, Len(eventLog)) /\ mirror'.cursor <= Len(eventLog)
         /\ mirror'.rows = mirror.rows \o InOrder(Range(events) \ Range(mirror.rows))
         /\ mirror'.cursor = (IF events = <<>> THEN mirror.cursor ELSE events[Len(events)])
         /\ mirror'.synced
         /\ Range(events) \ Range(mirror.rows) \in SUBSET Nat
<1> DEFINE S == Range(events) \ Range(mirror.rows)
           N == Cardinality(S)
<1>1. Len(eventLog) \in Nat BY DEF PhoneTypes
<1>2. S \in SUBSET (1 .. Len(eventLog)) BY DEF Range, FromLog
<1>3. IsFiniteSet(S) /\ S \in SUBSET Nat
  <2>1. IsFiniteSet(1 .. Len(eventLog)) BY <1>1, FS_Interval
  <2> QED BY <2>1, <1>1, <1>2, FS_Subset
<1>4. N \in Nat /\ InOrder(S) \in [1..N -> S] BY <1>3, InOrderIs
<1>5. InOrder(S) \in Seq(Nat) /\ Len(InOrder(S)) = N /\ \A i \in 1..N : InOrder(S)[i] \in 1 .. Len(eventLog)
  <2>1. ASSUME NEW i \in 1..N PROVE InOrder(S)[i] \in 1 .. Len(eventLog) BY <1>2, <1>4
  <2>2. InOrder(S) \in [1..N -> Nat] BY <1>3, <1>4
  <2> HIDE DEF N, S
  <2> QED BY <2>1, <2>2, <1>4
<1>6. mirror.rows \in Seq(Nat) BY DEF PhoneTypes, MirrorType
<1> DEFINE rows == mirror.rows \o InOrder(S)
<1>7. rows \in Seq(Nat) /\ FromLog(rows, Len(eventLog))
  <2>1. \A i \in 1 .. Len(mirror.rows) : mirror.rows[i] \in 1 .. Len(eventLog) BY <1>6 DEF PhoneTypes, FromLog
  <2>2. /\ rows \in Seq(Nat) /\ Len(rows) = Len(mirror.rows) + N
        /\ \A i \in 1 .. Len(mirror.rows) + N :
             rows[i] = IF i <= Len(mirror.rows) THEN mirror.rows[i] ELSE InOrder(S)[i - Len(mirror.rows)]
    <3> HIDE DEF N, S
    <3> QED BY <1>5, <1>6, ConcatProperties
  <2> HIDE DEF rows, N, S
  <2>3. ASSUME NEW i \in 1 .. Len(rows) PROVE rows[i] \in 1 .. Len(eventLog)
    <3>1. CASE i <= Len(mirror.rows)
      <4>1. i \in 1 .. Len(mirror.rows) BY <3>1, <1>6
      <4>2. rows[i] = mirror.rows[i] BY <3>1, <2>2, <1>4, <1>6
      <4> QED BY <4>1, <4>2, <2>1
    <3>2. CASE ~(i <= Len(mirror.rows))
      <4>1. i - Len(mirror.rows) \in 1..N BY <3>2, <2>2, <1>4, <1>6
      <4>2. rows[i] = InOrder(S)[i - Len(mirror.rows)] BY <3>2, <2>2, <1>4, <1>6
      <4> QED BY <4>1, <4>2, <1>5
    <3> QED BY <3>1, <3>2
  <2> QED BY <2>2, <2>3 DEF FromLog
<1> DEFINE to == IF events = <<>> THEN mirror.cursor ELSE Last(events)
<1>8. to \in Nat /\ to <= Len(eventLog) /\ (events # <<>> => to = events[Len(events)])
  BY <1>1 DEF PhoneTypes, MirrorType, FromLog, Last
<1>9. mirror' = [rows |-> rows, cursor |-> to, synced |-> TRUE] BY DEF Apply
<1> QED BY <1>3, <1>7, <1>8, <1>9 DEF MirrorType

(* A drainer waits for one call, that of the prompt it has come to.        *)
CallsAreOwn(calls, dr) ==
  /\ \A c \in calls : c.by # "nobody" =>
       dr[c.by].at = "call" /\ dr[c.by].todo # <<>> /\ Head(dr[c.by].todo) = c.p
  /\ \A c, e \in calls : c.by = e.by /\ c.by # "nobody" => c = e

LEMMA AnsweredTypes ==
  ASSUME PhoneTypes, CallsAreOwn(prompts, drain), NEW c \in prompts, NEW row \in {"sent", "blocked"}, Answered(c, row)
  PROVE  /\ outbox' \in [Prompts -> {"none", "pending", "blocked", "sent", "discarded"}]
         /\ drain' \in [Drainers -> DrainType] /\ prompts' \in SUBSET CallType
<1>1. c \in CallType /\ prompts' \in SUBSET CallType BY DEF PhoneTypes, Answered
<1>2. outbox' = outbox \/ outbox' = [outbox EXCEPT ![c.p] = row] BY DEF Answered
<1>3. outbox' \in [Prompts -> {"none", "pending", "blocked", "sent", "discarded"}] BY <1>1, <1>2 DEF PhoneTypes
<1>4. CASE c.by = "nobody" BY <1>1, <1>3, <1>4 DEF Answered, PhoneTypes
<1>5. CASE c.by # "nobody"
  <2>1. c.by \in Drainers BY <1>1, <1>5 DEF CallType
  <2>2. drain[c.by].at = "call" /\ drain[c.by].todo # <<>> BY <1>5 DEF CallsAreOwn
  <2>3. drain[c.by].todo \in Seq(Prompts) BY <2>1, <2>2 DEF PhoneTypes, DrainType, Off
  <2>4. Tail(drain[c.by].todo) \in Seq(Prompts) BY <2>2, <2>3
  <2>5. drain' = [drain EXCEPT ![c.by] = [at |-> "item", todo |-> Tail(drain[c.by].todo)]] BY <1>5 DEF Answered
  <2>6. [at |-> "item", todo |-> Tail(drain[c.by].todo)] \in DrainType BY <2>4 DEF DrainType
  <2>7. drain' \in [Drainers -> DrainType] BY <2>5, <2>6 DEF PhoneTypes
  <2> QED BY <1>1, <1>3, <2>7
<1> QED BY <1>4, <1>5

LEMMA StepTypes == PhoneTypes /\ CallsAreOwn(prompts, drain) /\ [PhoneNext]_phoneVars => PhoneTypes'
<1> SUFFICES ASSUME PhoneTypes, CallsAreOwn(prompts, drain), [PhoneNext]_phoneVars PROVE PhoneTypes' OBVIOUS
<1>a. /\ eventLog \in Seq(0 .. MaxPrompts) /\ eventLog # <<>> /\ Len(eventLog) \in Nat /\ paused \in BOOLEAN
      /\ outbox \in [Prompts -> {"none", "pending", "blocked", "sent", "discarded"}]
      /\ drain \in [Drainers -> DrainType] /\ prompts \in SUBSET CallType
      /\ mirror \in MirrorType /\ link \in LinkType /\ fetch \in FetchType /\ been \in BeenType
      /\ FromLog(mirror.rows, Len(eventLog)) /\ mirror.cursor <= Len(eventLog)
      /\ FromLog(link.pushes, Len(eventLog)) /\ Len(link.pushes) <= Buffer
      /\ FetchFits(fetch, Len(eventLog))
      /\ refresh \in [Refreshers -> RefreshType] /\ ReadsFit(refresh, Len(eventLog))
  BY DEF PhoneTypes
<1>b. UNCHANGED <<eventLog, mirror, fetch, link, been, paused, refresh>>
      /\ outbox' \in [Prompts -> {"none", "pending", "blocked", "sent", "discarded"}]
      /\ drain' \in [Drainers -> DrainType] /\ prompts' \in SUBSET CallType => PhoneTypes'
  BY <1>a DEF PhoneTypes, FetchFits, ReadsFit
<1>1. CASE UNCHANGED phoneVars BY <1>1, <1>b, <1>a DEF phoneVars
<1>2. CASE SessionGoesOn
  <2>1. Appends(0) /\ 0 \in 0 .. MaxPrompts BY <1>2, PhoneBounds DEF SessionGoesOn
  <2>2. /\ eventLog' \in Seq(0 .. MaxPrompts) /\ eventLog' # <<>> /\ Len(eventLog') = Len(eventLog) + 1
        /\ link' \in LinkType /\ FromLog(link'.pushes, Len(eventLog')) /\ Len(link'.pushes) <= Buffer
    BY <2>1, AppendTypes
  <2>3. FromLog(mirror.rows, Len(eventLog')) BY <2>2, <1>a, StillFromLog
  <2>4. FetchFits(fetch, Len(eventLog')) BY <2>2, <1>a, StillFits
  <2>5. mirror.cursor <= Len(eventLog') BY <2>2, <1>a DEF MirrorType
  <2>6. UNCHANGED <<paused, outbox, drain, prompts, mirror, fetch, refresh, been>> BY <1>2 DEF SessionGoesOn
  <2>7. ReadsFit(refresh, Len(eventLog')) BY <2>2, <1>a, StillReads
  <2>8. ReadsFit(refresh', Len(eventLog')) BY <2>6, <2>7
  <2> QED BY <2>2, <2>3, <2>4, <2>5, <2>6, <2>8, <1>a DEF PhoneTypes
<1>3. CASE PauseOrResume
  <2>1. been' \in BeenType BY <1>3, <1>a DEF PauseOrResume, BeenType
  <2> QED BY <1>3, <1>a, <2>1 DEF PauseOrResume, PhoneTypes
<1>4. ASSUME NEW p \in Prompts, Compose(p) \/ RetryOrDiscard(p) PROVE PhoneTypes'
  BY <1>4, <1>a, <1>b DEF Compose, RetryOrDiscard
<1>5. ASSUME NEW d \in Drainers, BeginDrain(d) PROVE PhoneTypes'
  <2>1. Pending \in Seq(Prompts)
    <3> DEFINE S == {p \in Prompts : outbox[p] = "pending"}
    <3>1. IsFiniteSet(S) /\ S \in SUBSET Nat
      <4>1. IsFiniteSet(1 .. MaxPrompts) BY PhoneBounds, FS_Interval
      <4> QED BY <4>1, FS_Subset, PhoneBounds DEF Prompts
    <3>2. Cardinality(S) \in Nat /\ InOrder(S) \in [1 .. Cardinality(S) -> S] BY <3>1, InOrderIs
    <3>3. InOrder(S) \in [1 .. Cardinality(S) -> Prompts] BY <3>2
    <3> HIDE DEF S
    <3>4. InOrder(S) \in Seq(Prompts) BY <3>2, <3>3
    <3> QED BY <3>4 DEF Pending, S
  <2>2. [at |-> "item", todo |-> Pending] \in DrainType BY <2>1 DEF DrainType
  <2> QED BY <1>5, <1>a, <1>b, <2>2 DEF BeginDrain
<1>6. ASSUME NEW d \in Drainers, SendPrompt(d) PROVE PhoneTypes'
  <2>1. drain[d] \in [at : {"item", "call"}, todo : Seq(Prompts)] BY <1>6, <1>a DEF SendPrompt, DrainType, Off
  <2>2. CASE drain[d].todo = <<>>
    <3>1. drain' \in [Drainers -> DrainType] BY <1>6, <2>2, <1>a DEF SendPrompt, DrainType
    <3> QED BY <1>6, <2>2, <3>1, <1>a, <1>b DEF SendPrompt
  <2>3. CASE drain[d].todo # <<>>
    <3>1. Head(drain[d].todo) \in Prompts BY <2>1, <2>3
    <3>2. drain' = [drain EXCEPT ![d].at = "call"] BY <1>6, <2>3 DEF SendPrompt
    <3>3. [drain[d] EXCEPT !.at = "call"] \in DrainType BY <2>1 DEF DrainType
    <3>4. drain' \in [Drainers -> DrainType] BY <3>2, <3>3, <1>a
    <3>5. prompts' = prompts \cup {[p |-> Head(drain[d].todo), by |-> d, at |-> "arrived", n |-> been.cuts]}
      BY <1>6, <2>3 DEF SendPrompt
    <3>6. prompts' \in SUBSET CallType BY <3>1, <3>5, <1>a DEF CallType, BeenType
    <3>7. been' \in BeenType
      <4>1. been' = been \/ been' = [been EXCEPT !.overlapped = @ \cup {Head(drain[d].todo)}] BY <1>6, <2>3 DEF SendPrompt
      <4> QED BY <4>1, <3>1, <1>a DEF BeenType
    <3>8. UNCHANGED <<eventLog, paused, outbox, mirror, link, fetch, refresh>> BY <1>6 DEF SendPrompt
    <3> QED BY <3>4, <3>6, <3>7, <3>8, <1>a DEF PhoneTypes
  <2> QED BY <2>2, <2>3
<1>7. ASSUME NEW d \in Drainers, CutOff(d) PROVE PhoneTypes'
  <2>1. drain' \in [Drainers -> DrainType] BY <1>7, <1>a DEF CutOff, Unanswered, DrainType
  <2>2. PICK c \in prompts : prompts' \in {prompts \ {c}, (prompts \ {c}) \cup {[c EXCEPT !.by = "nobody"]}}
    BY <1>7 DEF CutOff, Unanswered
  <2>3. c \in CallType BY <1>a
  <2>4. [c EXCEPT !.by = "nobody"] \in CallType BY <2>3 DEF CallType
  <2>5. prompts' \in SUBSET CallType BY <2>2, <2>4, <1>a
  <2>6. been' \in BeenType BY <1>7, <1>a DEF CutOff, Unanswered, BeenType
  <2>7. UNCHANGED <<eventLog, paused, outbox, mirror, link, fetch, refresh>> BY <1>7 DEF CutOff, Unanswered
  <2> QED BY <2>1, <2>5, <2>6, <2>7, <1>a DEF PhoneTypes
<1>8. ASSUME NEW c \in prompts, LookForId(c) PROVE PhoneTypes'
  <2>1. UNCHANGED <<eventLog, paused, mirror, link, fetch, refresh, been>> BY <1>8 DEF LookForId
  <2>2. CASE Answered(c, "sent")
    <3>1. /\ outbox' \in [Prompts -> {"none", "pending", "blocked", "sent", "discarded"}]
          /\ drain' \in [Drainers -> DrainType] /\ prompts' \in SUBSET CallType
      BY <2>2, AnsweredTypes
    <3> QED BY <2>1, <3>1, <1>b
  <2>3. CASE prompts' = (prompts \ {c}) \cup {[c EXCEPT !.at = "new"]} /\ UNCHANGED <<outbox, drain>>
    <3>1. c \in CallType BY <1>a
    <3>2. [c EXCEPT !.at = "new"] \in CallType BY <3>1 DEF CallType
    <3> QED BY <2>1, <2>3, <3>2, <1>a, <1>b
  <2> QED BY <1>8, <2>2, <2>3 DEF LookForId
<1>9. ASSUME NEW c \in prompts, TakePrompt(c) PROVE PhoneTypes'
  <2>1. UNCHANGED <<paused, mirror, fetch, refresh>> BY <1>9 DEF TakePrompt
  <2>2. PICK row \in {"sent", "blocked"} : Answered(c, row) BY <1>9 DEF TakePrompt
  <2>3. /\ outbox' \in [Prompts -> {"none", "pending", "blocked", "sent", "discarded"}]
        /\ drain' \in [Drainers -> DrainType] /\ prompts' \in SUBSET CallType
    BY <2>2, AnsweredTypes
  <2>4. c.p \in Prompts BY <1>a DEF CallType
  <2>5. CASE paused
    <3>1. been' = [been EXCEPT !.refused = @ \cup {c.p}] /\ UNCHANGED <<eventLog, link>> BY <1>9, <2>5 DEF TakePrompt
    <3>2. been' \in BeenType BY <3>1, <2>4, <1>a DEF BeenType
    <3> QED BY <2>1, <2>3, <3>1, <3>2, <1>a DEF PhoneTypes
  <2>6. CASE ~paused
    <3>1. Appends(c.p) /\ UNCHANGED been /\ c.p \in 0 .. MaxPrompts
      BY <1>9, <2>4, <2>6, PhoneBounds DEF TakePrompt, Prompts
    <3>2. /\ eventLog' \in Seq(0 .. MaxPrompts) /\ eventLog' # <<>> /\ Len(eventLog') = Len(eventLog) + 1
          /\ link' \in LinkType /\ FromLog(link'.pushes, Len(eventLog')) /\ Len(link'.pushes) <= Buffer
      BY <3>1, AppendTypes
    <3>3. FromLog(mirror.rows, Len(eventLog')) BY <3>2, <1>a, StillFromLog
    <3>4. FetchFits(fetch, Len(eventLog')) BY <3>2, <1>a, StillFits
    <3>5. mirror.cursor <= Len(eventLog') BY <3>2, <1>a DEF MirrorType
    <3>6. ReadsFit(refresh, Len(eventLog')) BY <3>2, <1>a, StillReads
    <3>7. ReadsFit(refresh', Len(eventLog')) BY <2>1, <3>6
    <3> QED BY <2>1, <2>3, <3>1, <3>2, <3>3, <3>4, <3>5, <3>7, <1>a DEF PhoneTypes
  <2> QED BY <2>5, <2>6
<1>10. CASE Connect \/ Disconnect
  <2>1. link' \in LinkType /\ link'.pushes = <<>>
    <3>1. PICK way \in {"up", "off"} : link' = [up |-> way, sub |-> FALSE, pushes |-> <<>>]
      BY <1>10 DEF Connect, Disconnect
    <3>2. PICK none \in Seq(Nat) : none = <<>>
      <4>1. <<>> \in Seq(Nat) OBVIOUS
      <4> QED BY <4>1, Zenon
    <3>3. link' = [up |-> way, sub |-> FALSE, pushes |-> none] BY <3>1, <3>2
    <3> QED BY <3>2, <3>3 DEF LinkType
  <2>2. FromLog(link'.pushes, Len(eventLog)) /\ Len(link'.pushes) <= Buffer BY <2>1, PhoneBounds DEF FromLog
  <2> QED BY <1>10, <1>a, <2>1, <2>2 DEF Connect, Disconnect, PhoneTypes
<1>11. CASE PhoneSubscribe
  <2>1. link' \in LinkType /\ link'.pushes = link.pushes BY <1>11, <1>a DEF PhoneSubscribe, LinkType
  <2>2. fetch' \in FetchType /\ fetch'.at = "asked" /\ fetch'.from \in {0, mirror.cursor}
    BY <1>11, <1>a DEF PhoneSubscribe, FetchType, MirrorType
  <2>3. FetchFits(fetch', Len(eventLog)) BY <2>2, <1>a DEF FetchFits
  <2> QED BY <1>11, <1>a, <2>1, <2>2, <2>3 DEF PhoneSubscribe, PhoneTypes
<1>12. CASE EventsAfter
  <2>1. fetch.from \in Nat /\ fetch.from <= Len(eventLog) BY <1>12, <1>a DEF EventsAfter, FetchType, NoFetch, FetchFits
  <2> DEFINE es == [i \in 1 .. (Len(eventLog) - fetch.from) |-> fetch.from + i]
  <2>2. es \in Seq(Nat)
    <3>1. Len(eventLog) \in Nat BY <1>a
    <3> QED BY <2>1, <3>1
  <2>3. FromLog(es, Len(eventLog)) BY <2>1, <1>a DEF FromLog
  <2>4. fetch' = [at |-> "answered", events |-> es] BY <1>12 DEF EventsAfter
  <2> HIDE DEF es
  <2>5. fetch' \in FetchType /\ FetchFits(fetch', Len(eventLog)) BY <2>2, <2>3, <2>4 DEF FetchType, FetchFits
  <2> QED BY <1>12, <1>a, <2>5 DEF EventsAfter, PhoneTypes
<1>13. CASE FinishSync
  <2>1. fetch.events \in Seq(Nat) /\ FromLog(fetch.events, Len(eventLog))
    BY <1>13, <1>a DEF FinishSync, FetchType, NoFetch, FetchFits
  <2>2. Apply(fetch.events) BY <1>13 DEF FinishSync
  <2>3. mirror' \in MirrorType /\ FromLog(mirror'.rows, Len(eventLog)) /\ mirror'.cursor <= Len(eventLog)
    BY <2>1, <2>2, ApplyTypes
  <2>4. fetch' \in FetchType /\ FetchFits(fetch', Len(eventLog)) BY <1>13 DEF FinishSync, FetchType, FetchFits, NoFetch
  <2> QED BY <1>13, <1>a, <2>3, <2>4 DEF FinishSync, PhoneTypes
<1>14. CASE Record
  <2>1. link.pushes \in Seq(Nat) /\ link.pushes # <<>> BY <1>14, <1>a DEF Record, LinkType
  <2>2. Tail(link.pushes) \in Seq(Nat) /\ Len(Tail(link.pushes)) = Len(link.pushes) - 1
        /\ \A i \in 1 .. Len(Tail(link.pushes)) : Tail(link.pushes)[i] = link.pushes[i + 1]
    BY <2>1, HeadTailProperties
  <2>3. link' \in LinkType /\ link'.pushes = Tail(link.pushes) BY <1>14, <2>2, <1>a DEF Record, LinkType
  <2>4. FromLog(link'.pushes, Len(eventLog)) /\ Len(link'.pushes) <= Buffer
    BY <2>1, <2>2, <2>3, <1>a, PhoneBounds DEF FromLog
  <2>5. mirror' \in MirrorType /\ FromLog(mirror'.rows, Len(eventLog)) /\ mirror'.cursor <= Len(eventLog)
    <3>1. CASE UNCHANGED mirror BY <3>1, <1>a
    <3>2. CASE Apply(<<Head(link.pushes)>>)
      <4>1. Head(link.pushes) \in 1 .. Len(eventLog) /\ Head(link.pushes) \in Nat BY <2>1, <1>a DEF FromLog
      <4>2. <<Head(link.pushes)>> \in Seq(Nat) /\ FromLog(<<Head(link.pushes)>>, Len(eventLog)) BY <4>1 DEF FromLog
      <4> QED BY <3>2, <4>2, ApplyTypes
    <3> QED BY <1>14, <3>1, <3>2 DEF Record
  <2> QED BY <1>14, <1>a, <2>3, <2>4, <2>5 DEF Record, PhoneTypes
<1>15. CASE Drop
  <2>1. link' \in LinkType /\ link'.pushes = link.pushes BY <1>15, <1>a DEF Drop, LinkType
  <2>2. been' \in BeenType
    <3>1. been \in BeenType /\ been' = [been EXCEPT !.cuts = @ + 1] BY <1>15, <1>a DEF Drop
    <3> QED BY <3>1 DEF BeenType
  <2> QED BY <1>15, <1>a, <2>1, <2>2 DEF Drop, PhoneTypes
<1>16. CASE SyncFails \/ Refetch
  <2>1. mirror' = mirror \/ mirror' = [mirror EXCEPT !.cursor = 0, !.synced = FALSE] BY <1>16 DEF SyncFails, Refetch
  <2>2. mirror' \in MirrorType /\ FromLog(mirror'.rows, Len(eventLog)) /\ mirror'.cursor <= Len(eventLog)
    <3>0. ASSUME NEW n \in Nat, NEW b \in BOOLEAN, mirror' = [mirror EXCEPT !.cursor = n, !.synced = b]
          PROVE  mirror' \in MirrorType
      BY <3>0, <1>a DEF MirrorType
    <3>1. mirror' \in MirrorType
      <4>1. 0 \in Nat /\ FALSE \in BOOLEAN OBVIOUS
      <4> QED BY <2>1, <3>0, <4>1, <1>a, Zenon
    <3>2. mirror'.rows = mirror.rows /\ mirror'.cursor \in {0, mirror.cursor} BY <2>1, <1>a DEF MirrorType
    <3> QED BY <3>1, <3>2, <1>a
  <2>3. been' \in BeenType
    <3>1. PICK t \in BOOLEAN, k \in Nat : been' = [been EXCEPT !.torn = t, !.cuts = k]
      <4>1. been.cuts \in Nat /\ been.cuts + 1 \in Nat /\ been.torn \in BOOLEAN BY <1>a DEF BeenType
      <4>2. CASE SyncFails
        <5> DEFINE t0 == been.torn \/ link.up = "up" \/ link.pushes # <<>>
                   k0 == IF link.up = "up" THEN been.cuts + 1 ELSE been.cuts
        <5>1. been' = [been EXCEPT !.torn = t0, !.cuts = k0] BY <4>2 DEF SyncFails
        <5>2. t0 \in BOOLEAN /\ k0 \in Nat BY <4>1
        <5> HIDE DEF t0, k0
        <5> QED BY <5>1, <5>2
      <4>3. CASE Refetch
        <5>1. been' = [been EXCEPT !.torn = been.torn, !.cuts = been.cuts + 1] BY <4>3, <1>a DEF Refetch, BeenType
        <5> QED BY <5>1, <4>1
      <4> QED BY <1>16, <4>2, <4>3
    <3> QED BY <3>1, <1>a DEF BeenType
  <2>4. fetch' \in FetchType /\ FetchFits(fetch', Len(eventLog))
    BY <1>16, <1>a DEF SyncFails, Refetch, FetchType, FetchFits, NoFetch
  <2>5. UNCHANGED <<eventLog, paused, outbox, drain, prompts, link, refresh>> BY <1>16 DEF SyncFails, Refetch
  <2> QED BY <1>a, <2>2, <2>3, <2>4, <2>5 DEF PhoneTypes
<1>17. ASSUME NEW r \in Refreshers, ListSessions(r) \/ ReadRow(r) PROVE PhoneTypes'
  <2>1. UNCHANGED <<eventLog, paused, outbox, drain, prompts, mirror, link, fetch, been>>
    BY <1>17 DEF ListSessions, ReadRow
  <2>2. PICK x \in RefreshType : refresh' = [refresh EXCEPT ![r] = x] /\ (x.at = "read" => x.cursor = mirror.cursor)
    <3>1. CASE ListSessions(r)
      <4> DEFINE x == [at |-> "listed", has |-> TRUE]
      <4>1. x \in RefreshType /\ x.at # "read" BY DEF RefreshType
      <4>2. refresh' = [refresh EXCEPT ![r] = x] BY <3>1 DEF ListSessions
      <4> HIDE DEF x
      <4> QED BY <4>1, <4>2
    <3>2. CASE ReadRow(r)
      <4> DEFINE x == [at |-> "read", cursor |-> mirror.cursor, synced |-> mirror.synced]
      <4>1. mirror.cursor \in Nat /\ mirror.synced \in BOOLEAN BY <1>a DEF MirrorType
      <4>2. x \in RefreshType /\ x.cursor = mirror.cursor BY <4>1 DEF RefreshType
      <4>3. refresh' = [refresh EXCEPT ![r] = x] BY <3>2 DEF ReadRow
      <4> HIDE DEF x
      <4> QED BY <4>2, <4>3
    <3> QED BY <1>17, <3>1, <3>2
  <2>3. refresh' \in [Refreshers -> RefreshType] /\ ReadsFit(refresh', Len(eventLog)) BY <2>2, <1>a DEF ReadsFit
  <2> QED BY <1>a, <2>1, <2>3 DEF PhoneTypes
<1>18. ASSUME NEW r \in Refreshers, ForgetUnlisted(r) \/ UpsertRow(r) PROVE PhoneTypes'
  <2>1. UNCHANGED <<eventLog, paused, outbox, drain, prompts, link, fetch>> /\ refresh' = [refresh EXCEPT ![r] = Resting]
    BY <1>18 DEF ForgetUnlisted, UpsertRow
  <2>2. refresh' \in [Refreshers -> RefreshType] /\ ReadsFit(refresh', Len(eventLog))
    BY <2>1, <1>a DEF ReadsFit, RefreshType, Resting
  <2>3. been' \in BeenType
    <3>1. CASE ForgetUnlisted(r)
      <4>1. PICK g \in BOOLEAN : g = (been.forgotten \/ mirror.rows # <<>>) OBVIOUS
      <4>2. been' = [been EXCEPT !.forgotten = g] BY <3>1, <4>1 DEF ForgetUnlisted
      <4> QED BY <4>2, <1>a DEF BeenType
    <3>2. CASE UpsertRow(r) BY <3>2, <1>a DEF UpsertRow
    <3> QED BY <1>18, <3>1, <3>2
  <2>4. mirror' \in MirrorType /\ FromLog(mirror'.rows, Len(eventLog)) /\ mirror'.cursor <= Len(eventLog)
    <3>1. CASE ForgetUnlisted(r)
      <4>1. PICK none \in Seq(Nat) : none = <<>>
        <5>1. <<>> \in Seq(Nat) OBVIOUS
        <5> QED BY <5>1, Zenon
      <4>2. mirror' = [rows |-> none, cursor |-> 0, synced |-> FALSE] BY <3>1, <4>1 DEF ForgetUnlisted, Emptied
      <4>3. FromLog(none, Len(eventLog)) BY <4>1 DEF FromLog
      <4> QED BY <4>2, <4>3, <1>a DEF MirrorType
    <3>2. CASE UpsertRow(r)
      <4>1. refresh[r].cursor \in Nat /\ refresh[r].synced \in BOOLEAN /\ refresh[r].cursor <= Len(eventLog)
        BY <3>2, <1>a DEF UpsertRow, RefreshType, Resting, ReadsFit
      <4>2. mirror' = [mirror EXCEPT !.cursor = refresh[r].cursor, !.synced = refresh[r].synced] BY <3>2 DEF UpsertRow
      <4> QED BY <4>1, <4>2, <1>a DEF MirrorType
    <3> QED BY <1>18, <3>1, <3>2
  <2> QED BY <1>a, <2>1, <2>2, <2>3, <2>4 DEF PhoneTypes
<1> QED BY <1>1, <1>2, <1>3, <1>4, <1>5, <1>6, <1>7, <1>8, <1>9, <1>10, <1>11, <1>12, <1>13, <1>14, <1>15, <1>16,
      <1>17, <1>18 DEF PhoneNext

-----------------------------------------------------------------------------
(* The outbox. *)

InLog(log, p) == \E i \in DOMAIN log : log[i] = p
(* Nothing that was typed after p need wait for it.                        *)
MaySend(log, ref, p) == InLog(log, p) \/ p \in ref

(* A prompt's row says what became of it, and they were typed in order.    *)
RowsTell(rows, log, ref) ==
  \A p \in Prompts :
    /\ rows[p] = "sent" => InLog(log, p)
    /\ rows[p] \in {"blocked", "discarded"} => p \in ref
    /\ rows[p] # "none" => \A q \in Prompts : q < p => rows[q] # "none"

(* What a drain has still to send, and what a call carries, comes after    *)
(* all that was typed before it, but for what was refused.                 *)
InTurn(todo, log, ref) ==
  \A i \in DOMAIN todo, p \in Prompts :
    p < todo[i] => MaySend(log, ref, p) \/ \E j \in DOMAIN todo : j < i /\ todo[j] = p
DrainsInOrder(dr, log, ref) == \A d \in Drainers : dr[d] # Off => InTurn(dr[d].todo, log, ref)
CallsInOrder(calls, log, ref) == \A c \in calls, p \in Prompts : p < c.p => MaySend(log, ref, p)

OneCallAtOnce(calls, log, ov) ==
  /\ \A c, e \in calls : c.p = e.p /\ c.p \notin ov => c = e
  /\ \A c \in calls : c.at = "new" /\ c.p \notin ov => ~InLog(log, c.p)

LoggedOnce(log, ov) ==
  \A i, j \in DOMAIN log : log[i] = log[j] /\ log[i] # 0 /\ log[i] \notin ov => i = j
LoggedInOrder(log, ref) ==
  \A p \in Prompts \ ref, j \in DOMAIN log :
    log[j] \notin ref /\ p < log[j] => \E i \in DOMAIN log : i < j /\ log[i] = p

OutboxInv ==
  /\ RowsTell(outbox, eventLog, been.refused) /\ DrainsInOrder(drain, eventLog, been.refused)
  /\ CallsInOrder(prompts, eventLog, been.refused) /\ CallsAreOwn(prompts, drain)
  /\ OneCallAtOnce(prompts, eventLog, been.overlapped)
  /\ LoggedOnce(eventLog, been.overlapped) /\ LoggedInOrder(eventLog, been.refused)

LEMMA OutboxGives == PhoneTypes /\ OutboxInv => PromptsAreKept
<1> SUFFICES ASSUME PhoneTypes, OutboxInv PROVE PromptsAreKept OBVIOUS
<1>a. eventLog \in Seq(0 .. MaxPrompts) /\ DOMAIN eventLog = 1 .. Len(eventLog) /\ Len(eventLog) \in Nat
  BY DEF PhoneTypes
<1>b. Prompts \subseteq Nat \ {0} /\ \A i \in DOMAIN eventLog : eventLog[i] \in Nat BY <1>a, PhoneBounds DEF Prompts
<1>1. ASSUME NEW p \in Prompts, outbox[p] = "sent" PROVE LogOf(p) # {}
  BY <1>1 DEF OutboxInv, RowsTell, InLog, LogOf
<1>2. ASSUME NEW p \in Prompts \ been.overlapped PROVE Cardinality(LogOf(p)) <= 1
  <2>1. CASE LogOf(p) = {} BY <2>1, FS_EmptySet
  <2>2. CASE LogOf(p) # {}
    <3>1. PICK i \in DOMAIN eventLog : eventLog[i] = p BY <2>2 DEF LogOf
    <3>2. ASSUME NEW j \in LogOf(p) PROVE j = i BY <3>1, <1>b DEF OutboxInv, LoggedOnce, LogOf
    <3>3. LogOf(p) = {i} BY <3>1, <3>2 DEF LogOf
    <3> QED BY <3>3, FS_Singleton
  <2> QED BY <2>1, <2>2
<1>3. ASSUME NEW p \in Prompts, NEW i \in LogOf(p)
      PROVE  First(p) \in LogOf(p) /\ \A j \in LogOf(p) : First(p) <= j
  <2>1. LogOf(p) \subseteq Nat BY <1>a DEF LogOf
  <2>2. PICK m \in LogOf(p) : \A j \in LogOf(p) : m <= j
    BY <2>1, LeastIs
  <2> QED BY <2>2 DEF First
<1>4. ASSUME NEW p \in Prompts \ been.refused, NEW q \in Prompts \ been.refused, p < q, LogOf(q) # {}
      PROVE  LogOf(p) # {} /\ First(p) < First(q)
  <2>1. First(q) \in LogOf(q) BY <1>3, <1>4
  <2>2. First(q) \in DOMAIN eventLog /\ eventLog[First(q)] = q BY <2>1 DEF LogOf
  <2>3. PICK i \in DOMAIN eventLog : i < First(q) /\ eventLog[i] = p
    BY <2>2, <1>4 DEF OutboxInv, LoggedInOrder
  <2>4. i \in LogOf(p) BY <2>3 DEF LogOf
  <2>5. First(p) <= i /\ First(p) \in LogOf(p) BY <2>4, <1>3
  <2>6. First(p) \in Nat /\ i \in Nat /\ First(q) \in Nat BY <2>2, <2>5, <1>a DEF LogOf
  <2> QED BY <2>3, <2>4, <2>5, <2>6
<1> QED BY <1>1, <1>2, <1>4 DEF PromptsAreKept

LEMMA OutboxInit == PhoneInit => OutboxInv
BY DEF PhoneInit, OutboxInv, RowsTell, DrainsInOrder, CallsInOrder, CallsAreOwn, OneCallAtOnce, LoggedOnce, LoggedInOrder, Off, Prompts

(* What has been done for a prompt stays done.                             *)
Grown(log, more) == DOMAIN log \subseteq DOMAIN more /\ \A i \in DOMAIN log : more[i] = log[i]

LEMMA StillReady ==
  ASSUME NEW log, NEW more, NEW ref, NEW ref2, NEW p, Grown(log, more), ref \subseteq ref2, MaySend(log, ref, p)
  PROVE  MaySend(more, ref2, p)
BY DEF Grown, MaySend, InLog

LEMMA StillInOrder ==
  ASSUME NEW log, NEW more, NEW ref, NEW ref2, Grown(log, more), ref \subseteq ref2
  PROVE  /\ \A rows : RowsTell(rows, log, ref) => RowsTell(rows, more, ref2)
         /\ \A todo : InTurn(todo, log, ref) => InTurn(todo, more, ref2)
         /\ \A dr : DrainsInOrder(dr, log, ref) => DrainsInOrder(dr, more, ref2)
         /\ \A calls : CallsInOrder(calls, log, ref) => CallsInOrder(calls, more, ref2)
<1>1. \A p : MaySend(log, ref, p) => MaySend(more, ref2, p) BY StillReady
<1>2. ASSUME NEW rows, RowsTell(rows, log, ref) PROVE RowsTell(rows, more, ref2)
  BY <1>2 DEF RowsTell, Grown, InLog
<1>3. ASSUME NEW todo, InTurn(todo, log, ref) PROVE InTurn(todo, more, ref2) BY <1>1, <1>3 DEF InTurn
<1>4. ASSUME NEW dr, DrainsInOrder(dr, log, ref) PROVE DrainsInOrder(dr, more, ref2)
  BY <1>3, <1>4 DEF DrainsInOrder
<1>5. ASSUME NEW calls, CallsInOrder(calls, log, ref) PROVE CallsInOrder(calls, more, ref2)
  BY <1>1, <1>5 DEF CallsInOrder
<1> QED BY <1>2, <1>3, <1>4, <1>5

(* Another event of the log changes nothing of it.                         *)
LEMMA OtherEvent ==
  ASSUME PhoneTypes, OutboxInv, Appends(0), UNCHANGED <<outbox, drain, prompts, been>>
  PROVE  OutboxInv'
<1>a. 0 \in 0 .. MaxPrompts BY PhoneBounds
<1>1. /\ eventLog' \in Seq(0 .. MaxPrompts) /\ Len(eventLog') = Len(eventLog) + 1
      /\ \A i \in 1 .. Len(eventLog) : eventLog'[i] = eventLog[i]
      /\ eventLog'[Len(eventLog) + 1] = 0
  BY <1>a, AppendTypes
<1>2. /\ Len(eventLog) \in Nat /\ DOMAIN eventLog = 1 .. Len(eventLog) /\ DOMAIN eventLog' = 1 .. (Len(eventLog) + 1)
      /\ \A i \in DOMAIN eventLog : eventLog[i] \in Nat
  BY <1>1, PhoneBounds DEF PhoneTypes
<1>3. Grown(eventLog, eventLog') BY <1>1, <1>2 DEF Grown
<1>4. /\ RowsTell(outbox, eventLog', been.refused) /\ DrainsInOrder(drain, eventLog', been.refused)
      /\ CallsInOrder(prompts, eventLog', been.refused)
  BY <1>3, StillInOrder DEF OutboxInv
<1>5. \A p \in Prompts : InLog(eventLog', p) => InLog(eventLog, p) BY <1>1, <1>2, PhoneBounds DEF InLog, Prompts
<1>6. \A c \in prompts : c.p \in Prompts BY DEF PhoneTypes, CallType
<1>7. OneCallAtOnce(prompts, eventLog', been.overlapped) BY <1>5, <1>6 DEF OneCallAtOnce, OutboxInv
<1>8. LoggedOnce(eventLog', been.overlapped)
  BY <1>1, <1>2 DEF LoggedOnce, OutboxInv
<1>9. LoggedInOrder(eventLog', been.refused)
  <2>1. ASSUME NEW p \in Prompts \ been.refused, NEW j \in DOMAIN eventLog',
               eventLog'[j] \notin been.refused, p < eventLog'[j]
        PROVE  \E i \in DOMAIN eventLog' : i < j /\ eventLog'[i] = p
    <3>1. j \in DOMAIN eventLog /\ eventLog'[j] = eventLog[j] BY <2>1, <1>1, <1>2, PhoneBounds DEF Prompts
    <3>2. PICK i \in DOMAIN eventLog : i < j /\ eventLog[i] = p BY <2>1, <3>1 DEF OutboxInv, LoggedInOrder
    <3> QED BY <3>2, <1>3 DEF Grown
  <2> QED BY <2>1 DEF LoggedInOrder
<1> QED BY <1>4, <1>7, <1>8, <1>9 DEF OutboxInv

(* An answer to a call, for what has become of the prompt.                 *)
LEMMA AnswerFits ==
  ASSUME PhoneTypes, OutboxInv, NEW c \in prompts, NEW row \in {"sent", "blocked"}, Answered(c, row),
         NEW log, NEW ref, Grown(eventLog, log), been.refused \subseteq ref,
         row = "sent" => InLog(log, c.p), row = "blocked" => c.p \in ref
  PROVE  /\ RowsTell(outbox', log, ref) /\ DrainsInOrder(drain', log, ref) /\ CallsInOrder(prompts', log, ref)
         /\ CallsAreOwn(prompts', drain')
<1>0. c \in CallType /\ c.p \in Prompts BY DEF PhoneTypes, CallType
<1>1. RowsTell(outbox, log, ref) /\ DrainsInOrder(drain, log, ref) /\ CallsInOrder(prompts, log, ref)
  BY StillInOrder DEF OutboxInv
<1>2. RowsTell(outbox', log, ref)
  <2>1. outbox' = outbox \/ (outbox[c.p] # "none" /\ outbox' = [outbox EXCEPT ![c.p] = row]) BY DEF Answered
  <2>2. CASE outbox' = outbox BY <2>2, <1>1
  <2>3. CASE outbox[c.p] # "none" /\ outbox' = [outbox EXCEPT ![c.p] = row]
    <3>1. \A p \in Prompts : outbox'[p] = IF p = c.p THEN row ELSE outbox[p] BY <2>3 DEF PhoneTypes
    <3>2. \A p \in Prompts : outbox'[p] # "none" <=> outbox[p] # "none" BY <2>3, <3>1
    <3> QED BY <3>1, <3>2, <1>1, <1>0 DEF RowsTell
  <2> QED BY <2>1, <2>2, <2>3
<1>3. prompts' = prompts \ {c} BY DEF Answered
<1>4. CallsInOrder(prompts', log, ref) BY <1>1, <1>3 DEF CallsInOrder
<1>5. CASE c.by = "nobody"
  <2>1. drain' = drain BY <1>5 DEF Answered
  <2> QED BY <2>1, <1>1, <1>2, <1>3, <1>4 DEF OutboxInv, CallsAreOwn
<1>6. CASE c.by # "nobody"
  <2>1. c.by \in Drainers BY <1>0, <1>6 DEF CallType
  <2>2. drain[c.by].at = "call" /\ drain[c.by].todo # <<>> /\ Head(drain[c.by].todo) = c.p
    BY <1>6 DEF OutboxInv, CallsAreOwn
  <2> DEFINE todo == drain[c.by].todo
  <2>3. todo \in Seq(Prompts) BY <2>1, <2>2 DEF PhoneTypes, DrainType, Off
  <2>4. /\ Tail(todo) \in Seq(Prompts) /\ Len(Tail(todo)) = Len(todo) - 1 /\ todo[1] = c.p
        /\ \A i \in 1 .. Len(Tail(todo)) : Tail(todo)[i] = todo[i + 1]
        /\ Len(todo) \in Nat /\ DOMAIN todo = 1 .. Len(todo) /\ DOMAIN Tail(todo) = 1 .. Len(Tail(todo))
    BY <2>2, <2>3, HeadTailProperties
  <2>5. drain' = [drain EXCEPT ![c.by] = [at |-> "item", todo |-> Tail(todo)]] BY <1>6 DEF Answered
  <2>6. MaySend(log, ref, c.p) BY DEF MaySend
  <2>7. InTurn(todo, log, ref) BY <1>1, <2>1, <2>2 DEF DrainsInOrder, Off
  <2>8. InTurn(Tail(todo), log, ref)
    <3> HIDE DEF todo
    <3>1. ASSUME NEW i \in DOMAIN Tail(todo), NEW p \in Prompts, p < Tail(todo)[i], ~MaySend(log, ref, p)
          PROVE  \E j \in DOMAIN Tail(todo) : j < i /\ Tail(todo)[j] = p
      <4>1. i + 1 \in DOMAIN todo /\ Tail(todo)[i] = todo[i + 1] BY <2>4
      <4>2. PICK j \in DOMAIN todo : j < i + 1 /\ todo[j] = p BY <3>1, <4>1, <2>7 DEF InTurn
      <4>3. j # 1 BY <4>2, <2>4, <2>6, <3>1
      <4>4. j - 1 \in DOMAIN Tail(todo) /\ j - 1 < i /\ Tail(todo)[j - 1] = todo[j] BY <4>2, <4>3, <2>4
      <4> QED BY <4>2, <4>4
    <3> QED BY <3>1 DEF InTurn
  <2>9. DrainsInOrder(drain', log, ref)
    <3>1. ASSUME NEW d \in Drainers, drain'[d] # Off PROVE InTurn(drain'[d].todo, log, ref)
      <4>1. CASE d = c.by
        <5>1. drain'[d].todo = Tail(todo) BY <4>1, <2>1, <2>5 DEF PhoneTypes
        <5> QED BY <5>1, <2>8
      <4>2. CASE d # c.by
        <5>1. drain'[d] = drain[d] BY <4>2, <2>1, <2>5 DEF PhoneTypes
        <5> QED BY <5>1, <3>1, <1>1 DEF DrainsInOrder
      <4> QED BY <4>1, <4>2
    <3> QED BY <3>1 DEF DrainsInOrder
  <2>10. CallsAreOwn(prompts', drain')
    <3>1. \A e \in prompts' : e \in prompts /\ e # c BY <1>3
    <3>2. ASSUME NEW e \in prompts', e.by # "nobody" PROVE drain'[e.by] = drain[e.by]
      <4>1. e.by # c.by BY <3>1, <3>2 DEF OutboxInv, CallsAreOwn
      <4> QED BY <4>1, <2>5 DEF PhoneTypes
    <3>3. CallsAreOwn(prompts, drain) BY DEF OutboxInv
    <3> QED BY <3>1, <3>2, <3>3 DEF CallsAreOwn
  <2> QED BY <1>2, <1>4, <2>9, <2>10
<1> QED BY <1>5, <1>6

(* A prompt that is appended is in its turn, and not there already.        *)
LEMMA TakenFits ==
  ASSUME PhoneTypes, OutboxInv, NEW c \in prompts, c.at = "new", ~paused, TakePrompt(c)
  PROVE  OutboxInv'
<1>0. c \in CallType /\ c.p \in Prompts /\ c.p \in 0 .. MaxPrompts /\ c.p # 0
  BY PhoneBounds DEF PhoneTypes, CallType, Prompts
<1>a. Appends(c.p) /\ Answered(c, "sent") /\ UNCHANGED been BY DEF TakePrompt
<1>1. /\ eventLog' \in Seq(0 .. MaxPrompts) /\ Len(eventLog') = Len(eventLog) + 1
      /\ \A i \in 1 .. Len(eventLog) : eventLog'[i] = eventLog[i]
      /\ eventLog'[Len(eventLog) + 1] = c.p
  BY <1>0, <1>a, AppendTypes
<1>2. /\ Len(eventLog) \in Nat /\ DOMAIN eventLog = 1 .. Len(eventLog) /\ DOMAIN eventLog' = 1 .. (Len(eventLog) + 1)
      /\ \A i \in DOMAIN eventLog : eventLog[i] \in Nat
  BY <1>1, PhoneBounds DEF PhoneTypes
<1>3. Grown(eventLog, eventLog') BY <1>1, <1>2 DEF Grown
<1>4. InLog(eventLog', c.p) BY <1>1, <1>2 DEF InLog
<1>5. /\ RowsTell(outbox', eventLog', been.refused) /\ DrainsInOrder(drain', eventLog', been.refused)
      /\ CallsInOrder(prompts', eventLog', been.refused) /\ CallsAreOwn(prompts', drain')
  BY <1>3, <1>4, <1>a, AnswerFits
<1>6. prompts' = prompts \ {c} BY <1>a DEF Answered
<1>7. OneCallAtOnce(prompts', eventLog', been.overlapped)
  <2>1. ASSUME NEW e \in prompts', e.at = "new", e.p \notin been.overlapped, InLog(eventLog', e.p) PROVE FALSE
    <3>1. e \in prompts /\ e # c BY <1>6
    <3>2. e.p # c.p BY <2>1, <3>1 DEF OutboxInv, OneCallAtOnce
    <3>3. InLog(eventLog, e.p) BY <2>1, <3>2, <1>1, <1>2 DEF InLog
    <3> QED BY <2>1, <3>1, <3>3 DEF OutboxInv, OneCallAtOnce
  <2>2. \A d, e \in prompts' : d.p = e.p /\ d.p \notin been.overlapped => d = e
    BY <1>6 DEF OutboxInv, OneCallAtOnce
  <2> QED BY <2>1, <2>2 DEF OneCallAtOnce
<1>8. LoggedOnce(eventLog', been.overlapped)
  <2>1. CASE c.p \in been.overlapped
    BY <2>1, <1>1, <1>2 DEF LoggedOnce, OutboxInv
  <2>2. CASE c.p \notin been.overlapped
    <3>1. ~InLog(eventLog, c.p) BY <2>2 DEF OutboxInv, OneCallAtOnce
    <3> QED BY <3>1, <1>1, <1>2 DEF LoggedOnce, OutboxInv, InLog
  <2> QED BY <2>1, <2>2
<1>9. LoggedInOrder(eventLog', been.refused)
  <2>1. ASSUME NEW p \in Prompts \ been.refused, NEW j \in DOMAIN eventLog',
               eventLog'[j] \notin been.refused, p < eventLog'[j]
        PROVE  \E i \in DOMAIN eventLog' : i < j /\ eventLog'[i] = p
    <3>1. CASE j \in DOMAIN eventLog
      <4>1. eventLog'[j] = eventLog[j] BY <3>1, <1>1, <1>2
      <4>2. PICK i \in DOMAIN eventLog : i < j /\ eventLog[i] = p BY <2>1, <3>1, <4>1 DEF OutboxInv, LoggedInOrder
      <4> QED BY <4>2, <1>3 DEF Grown
    <3>2. CASE j \notin DOMAIN eventLog
      <4>1. j = Len(eventLog) + 1 /\ p < c.p BY <2>1, <3>2, <1>1, <1>2
      <4>2. InLog(eventLog, p) BY <2>1, <4>1 DEF OutboxInv, CallsInOrder, MaySend
      <4>3. PICK i \in DOMAIN eventLog : eventLog[i] = p BY <4>2 DEF InLog
      <4>4. i < j BY <4>1, <4>3, <1>2
      <4> QED BY <4>3, <4>4, <1>3 DEF Grown
    <3> QED BY <3>1, <3>2
  <2> QED BY <2>1 DEF LoggedInOrder
<1> QED BY <1>5, <1>7, <1>8, <1>9, <1>a DEF OutboxInv

LEMMA RefusedFits ==
  ASSUME PhoneTypes, OutboxInv, NEW c \in prompts, paused, TakePrompt(c)
  PROVE  OutboxInv'
<1>0. c \in CallType /\ c.p \in Prompts BY DEF PhoneTypes, CallType
<1>a. been' = [been EXCEPT !.refused = @ \cup {c.p}] /\ Answered(c, "blocked") /\ UNCHANGED eventLog BY DEF TakePrompt
<1>1. been'.refused = been.refused \cup {c.p} /\ been'.overlapped = been.overlapped BY <1>a DEF PhoneTypes, BeenType
<1>2. Grown(eventLog, eventLog) BY DEF Grown
<1>3. /\ RowsTell(outbox', eventLog, been'.refused) /\ DrainsInOrder(drain', eventLog, been'.refused)
      /\ CallsInOrder(prompts', eventLog, been'.refused) /\ CallsAreOwn(prompts', drain')
  BY <1>1, <1>2, <1>a, AnswerFits
<1>4. prompts' = prompts \ {c} BY <1>a DEF Answered
<1>5. OneCallAtOnce(prompts', eventLog, been.overlapped) BY <1>4 DEF OutboxInv, OneCallAtOnce
<1>6. LoggedInOrder(eventLog, been'.refused) BY <1>1 DEF OutboxInv, LoggedInOrder
<1> QED BY <1>1, <1>3, <1>5, <1>6, <1>a DEF OutboxInv

LEMMA LookedFits ==
  ASSUME PhoneTypes, OutboxInv, NEW c \in prompts, LookForId(c)
  PROVE  OutboxInv'
<1>0. c \in CallType BY DEF PhoneTypes
<1>a. UNCHANGED <<eventLog, been>> BY DEF LookForId
<1>1. CASE LogOf(c.p) # {}
  <2>1. Answered(c, "sent") BY <1>1 DEF LookForId
  <2>2. InLog(eventLog, c.p) BY <1>1 DEF LogOf, InLog
  <2>3. Grown(eventLog, eventLog) BY DEF Grown
  <2>4. /\ RowsTell(outbox', eventLog, been.refused) /\ DrainsInOrder(drain', eventLog, been.refused)
        /\ CallsInOrder(prompts', eventLog, been.refused) /\ CallsAreOwn(prompts', drain')
    BY <2>1, <2>2, <2>3, AnswerFits
  <2>5. prompts' = prompts \ {c} BY <2>1 DEF Answered
  <2>6. OneCallAtOnce(prompts', eventLog, been.overlapped) BY <2>5 DEF OutboxInv, OneCallAtOnce
  <2> QED BY <2>4, <2>6, <1>a DEF OutboxInv
<1>2. CASE LogOf(c.p) = {}
  <2> DEFINE e == [c EXCEPT !.at = "new"]
  <2>1. prompts' = (prompts \ {c}) \cup {e} /\ UNCHANGED <<outbox, drain>> BY <1>2 DEF LookForId
  <2>2. e.p = c.p /\ e.by = c.by /\ e.at = "new" BY <1>0 DEF CallType
  <2>3. ~InLog(eventLog, c.p) BY <1>2 DEF LogOf, InLog
  <2> HIDE DEF e
  <2>4. CallsInOrder(prompts', eventLog, been.refused) BY <2>1, <2>2 DEF OutboxInv, CallsInOrder
  <2>5. CallsAreOwn(prompts', drain) BY <2>1, <2>2 DEF OutboxInv, CallsAreOwn
  <2>6. OneCallAtOnce(prompts', eventLog, been.overlapped) BY <2>1, <2>2, <2>3 DEF OutboxInv, OneCallAtOnce
  <2> QED BY <2>1, <2>4, <2>5, <2>6, <1>a DEF OutboxInv
<1> QED BY <1>1, <1>2

LEMMA DrainBegun ==
  ASSUME PhoneTypes, OutboxInv, NEW d \in Drainers, BeginDrain(d)
  PROVE  OutboxInv'
<1> DEFINE S == {p \in Prompts : outbox[p] = "pending"}
<1>1. IsFiniteSet(S) /\ S \in SUBSET Nat
  <2>1. IsFiniteSet(1 .. MaxPrompts) BY PhoneBounds, FS_Interval
  <2> QED BY <2>1, FS_Subset, PhoneBounds DEF Prompts
<1>2. /\ DOMAIN Pending = 1 .. Cardinality(S) /\ Cardinality(S) \in Nat
      /\ \A i \in DOMAIN Pending : Pending[i] \in S
      /\ \A e \in S : \E k \in DOMAIN Pending : Pending[k] = e
      /\ \A j, k \in DOMAIN Pending : Pending[j] < Pending[k] => j < k
  <2> HIDE DEF S
  <2>1. /\ Cardinality(S) \in Nat /\ InOrder(S) \in [1 .. Cardinality(S) -> S]
        /\ \A e \in S : \E k \in 1 .. Cardinality(S) : InOrder(S)[k] = e
        /\ \A j, k \in 1 .. Cardinality(S) : InOrder(S)[j] < InOrder(S)[k] => j < k
    BY <1>1, InOrderIs
  <2>2. Pending = InOrder(S) BY DEF Pending, S
  <2> QED BY <2>1, <2>2
<1>3. InTurn(Pending, eventLog, been.refused)
  <2>1. ASSUME NEW i \in DOMAIN Pending, NEW p \in Prompts, p < Pending[i], ~MaySend(eventLog, been.refused, p)
        PROVE  \E j \in DOMAIN Pending : j < i /\ Pending[j] = p
    <3>1. Pending[i] \in Prompts /\ outbox[Pending[i]] # "none" BY <1>2
    <3>2. outbox[p] # "none" BY <2>1, <3>1 DEF OutboxInv, RowsTell
    <3>3. outbox[p] \notin {"sent", "blocked", "discarded"} BY <2>1 DEF OutboxInv, RowsTell, MaySend
    <3>4. p \in S BY <3>2, <3>3 DEF PhoneTypes
    <3>5. PICK j \in DOMAIN Pending : Pending[j] = p BY <3>4, <1>2
    <3>6. j < i BY <2>1, <3>5, <1>2
    <3> QED BY <3>5, <3>6
  <2> QED BY <2>1 DEF InTurn
<1>4. drain' = [drain EXCEPT ![d] = [at |-> "item", todo |-> Pending]]
      /\ UNCHANGED <<eventLog, outbox, prompts, been>> /\ drain[d] = Off
  BY DEF BeginDrain
<1>5. drain'[d].todo = Pending /\ \A e \in Drainers : e # d => drain'[e] = drain[e] BY <1>4 DEF PhoneTypes
<1>6. DrainsInOrder(drain', eventLog, been.refused) BY <1>3, <1>5 DEF OutboxInv, DrainsInOrder
<1>7. CallsAreOwn(prompts, drain')
  <2>1. \A c \in prompts : c.by # "nobody" => c.by \in Drainers /\ c.by # d
    BY <1>4 DEF PhoneTypes, CallType, OutboxInv, CallsAreOwn, Off
  <2> QED BY <2>1, <1>5 DEF OutboxInv, CallsAreOwn
<1> QED BY <1>4, <1>6, <1>7 DEF OutboxInv

LEMMA SentFits ==
  ASSUME PhoneTypes, OutboxInv, NEW d \in Drainers, SendPrompt(d)
  PROVE  OutboxInv'
<1>0. drain[d] \in [at : {"item", "call"}, todo : Seq(Prompts)] /\ drain[d].at = "item" /\ drain[d] # Off
  BY DEF SendPrompt, PhoneTypes, DrainType, Off
<1>a. UNCHANGED <<eventLog, outbox>> BY DEF SendPrompt
<1>b. \A c \in prompts : c.by # d
  BY <1>0, PhoneBounds DEF OutboxInv, CallsAreOwn
<1>1. CASE drain[d].todo = <<>>
  <2>1. drain' = [drain EXCEPT ![d] = Off] /\ UNCHANGED <<prompts, been>> BY <1>1 DEF SendPrompt
  <2>2. drain'[d] = Off /\ \A e \in Drainers : e # d => drain'[e] = drain[e] BY <2>1 DEF PhoneTypes
  <2>3. DrainsInOrder(drain', eventLog, been.refused) BY <2>2 DEF OutboxInv, DrainsInOrder
  <2>4. CallsAreOwn(prompts, drain')
    <3>1. \A c \in prompts : c.by # "nobody" => c.by \in Drainers /\ c.by # d BY <1>b DEF PhoneTypes, CallType
    <3> QED BY <3>1, <2>2 DEF OutboxInv, CallsAreOwn
  <2> QED BY <1>a, <2>1, <2>3, <2>4 DEF OutboxInv
<1>2. CASE drain[d].todo # <<>>
  <2> DEFINE p == Head(drain[d].todo)
             c0 == [p |-> p, by |-> d, at |-> "arrived", n |-> been.cuts]
  <2>1. p \in Prompts /\ p = drain[d].todo[1] /\ 1 \in DOMAIN drain[d].todo /\ DOMAIN drain[d].todo \subseteq Nat \ {0}
    BY <1>0, <1>2
  <2>2. prompts' = prompts \cup {c0} /\ drain' = [drain EXCEPT ![d].at = "call"] BY <1>2 DEF SendPrompt
  <2>3. /\ been' = been \/ been' = [been EXCEPT !.overlapped = @ \cup {p}]
        /\ (\E c \in prompts : c.p = p) => been' = [been EXCEPT !.overlapped = @ \cup {p}]
    BY <1>2 DEF SendPrompt
  <2>4. been'.refused = been.refused /\ been.overlapped \subseteq been'.overlapped
        /\ ((\E c \in prompts : c.p = p) => p \in been'.overlapped)
    BY <2>3 DEF PhoneTypes, BeenType
  <2>5. /\ drain'[d].at = "call" /\ drain'[d].todo = drain[d].todo /\ drain'[d] # Off
        /\ \A e \in Drainers : e # d => drain'[e] = drain[e]
    BY <2>2, <1>0 DEF PhoneTypes, Off
  <2>6. c0.p = p /\ c0.by = d /\ c0.at = "arrived" OBVIOUS
  <2> HIDE DEF c0, p
  <2>7. DrainsInOrder(drain', eventLog, been.refused) BY <2>5, <1>0 DEF OutboxInv, DrainsInOrder
  <2>8. CallsInOrder(prompts', eventLog, been.refused)
    <3>1. ASSUME NEW q \in Prompts, q < p PROVE MaySend(eventLog, been.refused, q)
      <4>1. InTurn(drain[d].todo, eventLog, been.refused) BY <1>0 DEF OutboxInv, DrainsInOrder
      <4>2. ~\E j \in DOMAIN drain[d].todo : j < 1 BY <2>1
      <4> QED BY <3>1, <4>1, <4>2, <2>1 DEF InTurn
    <3> QED BY <3>1, <2>2, <2>6 DEF OutboxInv, CallsInOrder
  <2>9. CallsAreOwn(prompts', drain')
    <3>1. \A c \in prompts : c.by # "nobody" => c.by \in Drainers /\ drain'[c.by] = drain[c.by]
      BY <1>b, <2>5 DEF PhoneTypes, CallType
    <3>2. drain'[d].at = "call" /\ drain'[d].todo # <<>> /\ Head(drain'[d].todo) = p BY <2>5, <1>2 DEF p
    <3>3. ASSUME NEW c \in prompts', c.by # "nobody"
          PROVE  drain'[c.by].at = "call" /\ drain'[c.by].todo # <<>> /\ Head(drain'[c.by].todo) = c.p
      BY <3>1, <3>2, <3>3, <2>2, <2>6 DEF OutboxInv, CallsAreOwn
    <3>4. \A c, e \in prompts' : c.by = e.by /\ c.by # "nobody" => c = e
      BY <1>b, <2>2, <2>6 DEF OutboxInv, CallsAreOwn
    <3> QED BY <3>3, <3>4 DEF CallsAreOwn
  <2>10. OneCallAtOnce(prompts', eventLog, been'.overlapped)
    BY <2>2, <2>4, <2>6 DEF OutboxInv, OneCallAtOnce
  <2>11. LoggedOnce(eventLog, been'.overlapped) BY <2>4 DEF OutboxInv, LoggedOnce
  <2> QED BY <1>a, <2>4, <2>7, <2>8, <2>9, <2>10, <2>11 DEF OutboxInv
<1> QED BY <1>1, <1>2

LEMMA CutFits ==
  ASSUME PhoneTypes, OutboxInv, NEW d \in Drainers, CutOff(d)
  PROVE  OutboxInv'
<1>1. drain' = [drain EXCEPT ![d] = Off] /\ UNCHANGED <<eventLog, outbox>> BY DEF CutOff, Unanswered
<1>2. been'.refused = been.refused /\ been'.overlapped = been.overlapped
  BY DEF CutOff, Unanswered, PhoneTypes, BeenType
<1>3. PICK c \in prompts : /\ c.by = d
                          /\ prompts' \in {prompts \ {c}, (prompts \ {c}) \cup {[c EXCEPT !.by = "nobody"]}}
  BY DEF CutOff, Unanswered
<1> DEFINE e0 == [c EXCEPT !.by = "nobody"]
<1>4. e0.p = c.p /\ e0.at = c.at /\ e0.by = "nobody" BY DEF PhoneTypes, CallType
<1>5. prompts' \subseteq (prompts \ {c}) \cup {e0} BY <1>3
<1> HIDE DEF e0
<1>6. drain'[d] = Off /\ \A e \in Drainers : e # d => drain'[e] = drain[e] BY <1>1 DEF PhoneTypes
<1>7. DrainsInOrder(drain', eventLog, been.refused) BY <1>6 DEF OutboxInv, DrainsInOrder
<1>8. CallsInOrder(prompts', eventLog, been.refused) BY <1>4, <1>5 DEF OutboxInv, CallsInOrder
<1>9. CallsAreOwn(prompts', drain')
  <2>1. \A e \in prompts' : e.by # "nobody" => e \in prompts /\ e # c BY <1>4, <1>5
  <2>2. \A e \in prompts' : e.by # "nobody" => e.by \in Drainers /\ e.by # d
    BY <2>1, <1>3, PhoneBounds DEF PhoneTypes, CallType, OutboxInv, CallsAreOwn
  <2>3. CallsAreOwn(prompts, drain) BY DEF OutboxInv
  <2>4. ASSUME NEW e \in prompts', e.by # "nobody"
        PROVE  drain'[e.by].at = "call" /\ drain'[e.by].todo # <<>> /\ Head(drain'[e.by].todo) = e.p
    <3>1. drain'[e.by] = drain[e.by] BY <2>2, <2>4, <1>6
    <3> QED BY <3>1, <2>1, <2>3, <2>4 DEF CallsAreOwn
  <2>5. \A b, e \in prompts' : b.by = e.by /\ b.by # "nobody" => b = e BY <2>1, <2>3 DEF CallsAreOwn
  <2> QED BY <2>4, <2>5 DEF CallsAreOwn
<1>10. OneCallAtOnce(prompts', eventLog, been.overlapped) BY <1>4, <1>5 DEF OutboxInv, OneCallAtOnce
<1> QED BY <1>1, <1>2, <1>7, <1>8, <1>9, <1>10 DEF OutboxInv

LEMMA TypedFits ==
  ASSUME PhoneTypes, OutboxInv, NEW p \in Prompts, Compose(p) \/ RetryOrDiscard(p)
  PROVE  OutboxInv'
<1>1. UNCHANGED <<eventLog, drain, prompts, been>> BY DEF Compose, RetryOrDiscard
<1>2. PICK row \in {"pending", "discarded"} :
        /\ outbox' = [outbox EXCEPT ![p] = row] /\ (row = "discarded" => outbox[p] = "blocked")
        /\ \A q \in Prompts : q < p => outbox[q] # "none"
  <2>1. CASE Compose(p) BY <2>1, PhoneBounds DEF Compose, Prompts
  <2>2. CASE RetryOrDiscard(p)
    <3>1. outbox[p] # "none" BY <2>2 DEF RetryOrDiscard
    <3> QED BY <2>2, <3>1 DEF RetryOrDiscard, OutboxInv, RowsTell
  <2> QED BY <2>1, <2>2
<1>3. \A q \in Prompts : outbox'[q] = IF q = p THEN row ELSE outbox[q] BY <1>2 DEF PhoneTypes
<1>4. RowsTell(outbox', eventLog, been.refused)
  <2>1. ASSUME NEW q \in Prompts
        PROVE  /\ outbox'[q] = "sent" => InLog(eventLog, q)
               /\ outbox'[q] \in {"blocked", "discarded"} => q \in been.refused
    BY <1>2, <1>3 DEF OutboxInv, RowsTell
  <2>2. ASSUME NEW q \in Prompts, outbox'[q] # "none", NEW r \in Prompts, r < q PROVE outbox'[r] # "none"
    BY <1>2, <1>3, <2>2 DEF OutboxInv, RowsTell
  <2> QED BY <2>1, <2>2 DEF RowsTell
<1> QED BY <1>1, <1>4 DEF OutboxInv

LEMMA StepOutbox == PhoneTypes /\ OutboxInv /\ [PhoneNext]_phoneVars => OutboxInv'
<1> SUFFICES ASSUME PhoneTypes, OutboxInv, [PhoneNext]_phoneVars PROVE OutboxInv' OBVIOUS
<1>1. CASE UNCHANGED phoneVars BY <1>1 DEF phoneVars, OutboxInv
<1>2. CASE SessionGoesOn BY <1>2, OtherEvent DEF SessionGoesOn
<1>3. ASSUME NEW p \in Prompts, Compose(p) \/ RetryOrDiscard(p) PROVE OutboxInv' BY <1>3, TypedFits
<1>4. ASSUME NEW d \in Drainers, BeginDrain(d) \/ SendPrompt(d) \/ CutOff(d) PROVE OutboxInv'
  BY <1>4, DrainBegun, SentFits, CutFits
<1>5. ASSUME NEW c \in prompts, LookForId(c) \/ TakePrompt(c) PROVE OutboxInv'
  <2>1. TakePrompt(c) => c.at = "new" BY DEF TakePrompt
  <2> QED BY <1>5, <2>1, LookedFits, TakenFits, RefusedFits
<1>6. CASE UNCHANGED <<eventLog, outbox, drain, prompts>> /\ been'.refused = been.refused
           /\ been'.overlapped = been.overlapped
  BY <1>6 DEF OutboxInv
<1>7. CASE PauseOrResume \/ Drop \/ SyncFails \/ Refetch
  <2>1. UNCHANGED <<eventLog, outbox, drain, prompts>> BY <1>7 DEF PauseOrResume, Drop, SyncFails, Refetch
  <2>2. been'.refused = been.refused /\ been'.overlapped = been.overlapped
    BY <1>7 DEF PauseOrResume, Drop, SyncFails, Refetch, PhoneTypes, BeenType
  <2> QED BY <2>1, <2>2, <1>6
<1>9. ASSUME NEW r \in Refreshers, ListSessions(r) \/ ForgetUnlisted(r) \/ ReadRow(r) \/ UpsertRow(r) PROVE OutboxInv'
  <2>1. UNCHANGED <<eventLog, outbox, drain, prompts>>
    BY <1>9 DEF ListSessions, ForgetUnlisted, ReadRow, UpsertRow
  <2>2. been'.refused = been.refused /\ been'.overlapped = been.overlapped
    BY <1>9 DEF ListSessions, ForgetUnlisted, ReadRow, UpsertRow, PhoneTypes, BeenType
  <2> QED BY <2>1, <2>2, <1>6
<1>8. CASE Connect \/ PhoneSubscribe \/ EventsAfter \/ FinishSync \/ Record \/ Disconnect
  BY <1>8, <1>6 DEF Connect, PhoneSubscribe, EventsAfter, FinishSync, Record, Disconnect
<1> QED BY <1>1, <1>2, <1>3, <1>4, <1>5, <1>7, <1>8, <1>9 DEF PhoneNext

-----------------------------------------------------------------------------
(* The mirror. *)

LinkFits(lk, f) ==
  /\ lk.up = "off" => ~lk.sub
  /\ ~lk.sub => lk.pushes = <<>> /\ f = NoFetch

(* A phone that has the first n events, with what a catch-up is to bring   *)
(* it up to m: the pushes go on from there, to the end of the log unless   *)
(* the socket is gone.                                                     *)
GoesOn(lk, m, len) ==
  /\ lk.pushes # <<>> => lk.pushes[1] <= m + 1
  /\ lk.up = "up" /\ lk.sub /\ lk.pushes = <<>> => m = len
InARow(lk, len) ==
  /\ \A i \in DOMAIN lk.pushes : lk.pushes[i] = lk.pushes[1] + i - 1
  /\ lk.up = "up" /\ lk.pushes # <<>> => lk.pushes[Len(lk.pushes)] = len

FirstOf(m, n) == Len(m.rows) = n /\ (\A i \in 1..n : m.rows[i] = i) /\ m.cursor <= n
Brings(f, from, m) == m = from + Len(f.events) /\ \A i \in DOMAIN f.events : f.events[i] = from + i

MirrorFits(m, lk, f, len) ==
  \E n \in 0 .. len :
    /\ FirstOf(m, n) /\ InARow(lk, len)
    /\ f = NoFetch => GoesOn(lk, n, len)
    /\ f.at = "asked" => f.from <= n
    /\ f.at = "answered" => \E from \in 0 .. n, k \in n .. len : Brings(f, from, k) /\ GoesOn(lk, k, len)

(* A row that was read, and is to be written back, has a cursor not past   *)
(* the mirror's end.                                                       *)
MirrorInv ==
  /\ LinkFits(link, fetch)
  /\ ~been.torn /\ ~been.forgotten =>
       MirrorFits(mirror, link, fetch, Len(eventLog)) /\ ReadsFit(refresh, Len(mirror.rows))

LEMMA MirrorGives == PhoneTypes /\ MirrorInv => MirrorIsWhole
<1> SUFFICES ASSUME PhoneTypes, MirrorInv, ~been.torn, ~been.forgotten PROVE MirrorIsWhole BY DEF MirrorIsWhole
<1>1. Len(eventLog) \in Nat /\ mirror.rows \in Seq(Nat) BY DEF PhoneTypes, MirrorType
<1>2. PICK n \in 0 .. Len(eventLog) : FirstOf(mirror, n) /\ (fetch = NoFetch => GoesOn(link, n, Len(eventLog)))
  BY DEF MirrorInv, MirrorFits
<1>3. mirror.rows = [i \in DOMAIN mirror.rows |-> i] BY <1>1, <1>2 DEF FirstOf
<1>4. mirror.cursor <= Len(mirror.rows) BY <1>2 DEF FirstOf
<1>5. link.up = "up" /\ link.sub /\ link.pushes = <<>> /\ fetch = NoFetch => Len(mirror.rows) = Len(eventLog)
  BY <1>2 DEF FirstOf, GoesOn
<1> QED BY <1>3, <1>4, <1>5 DEF MirrorIsWhole

LEMMA MirrorInit == PhoneInit => MirrorInv
<1> SUFFICES ASSUME PhoneInit PROVE MirrorInv OBVIOUS
<1>1. Len(eventLog) = 1 BY DEF PhoneInit
<1>2. FirstOf(mirror, 0) BY DEF PhoneInit, Emptied, FirstOf
<1>a. link.pushes = <<>> /\ ~link.sub BY DEF PhoneInit
<1>3. InARow(link, 1) /\ GoesOn(link, 0, 1) BY <1>a DEF InARow, GoesOn
<1>4. fetch = NoFetch /\ LinkFits(link, fetch) BY <1>a DEF PhoneInit, LinkFits
<1>5. ReadsFit(refresh, Len(mirror.rows))
  <2>1. \A x \in [at : {"listed"}, has : {FALSE}] : x.at = "listed" OBVIOUS
  <2>2. Resting.at = "idle" BY DEF Resting
  <2>3. refresh \in [Refreshers -> {Resting} \cup [at : {"listed"}, has : {FALSE}]] BY DEF PhoneInit
  <2>4. \A r \in Refreshers : refresh[r].at # "read" BY <2>1, <2>2, <2>3
  <2> QED BY <2>4 DEF ReadsFit
<1> QED BY <1>1, <1>2, <1>3, <1>4, <1>5 DEF MirrorInv, MirrorFits, NoFetch

(* The log grows: what a subscribed phone is not pushed, it has given up.  *)
LEMMA PushedFits ==
  ASSUME PhoneTypes, MirrorInv, NEW p \in 0 .. MaxPrompts, Appends(p), UNCHANGED <<mirror, fetch, refresh>>,
         been'.torn = been.torn, been'.forgotten = been.forgotten
  PROVE  MirrorInv'
<1> DEFINE L == Len(eventLog)
<1>1. L \in Nat /\ L # 0 /\ Len(eventLog') = L + 1 BY AppendTypes DEF PhoneTypes
<1>0. link \in LinkType /\ link.pushes \in Seq(Nat) BY DEF PhoneTypes, LinkType
<1>2. CASE link.up # "up" \/ ~link.sub \/ ~(Len(link.pushes) < Buffer)
  <2>1. link' = link \/ link' = [link EXCEPT !.up = "down"] BY <1>2 DEF Appends
  <2>2. link'.sub = link.sub /\ link'.pushes = link.pushes
    <3>1. CASE link' = link BY <3>1, <1>2, <1>0 DEF LinkType
    <3>2. CASE link' = [link EXCEPT !.up = "down"] BY <3>2, <1>0 DEF LinkType
    <3> QED BY <2>1, <3>1, <3>2
  <2>3. link'.up # "up" \/ ~link'.sub
    <3>1. CASE link.up # "up" \/ ~link.sub
      <4>1. link' = link BY <3>1 DEF Appends
      <4> QED BY <4>1, <3>1
    <3>2. CASE link.up = "up" /\ link.sub
      <4>1. link' = [link EXCEPT !.up = "down"] BY <3>2, <1>2 DEF Appends
      <4> QED BY <4>1, <1>0 DEF LinkType
    <3> QED BY <3>1, <3>2
  <2>4. LinkFits(link', fetch)
    <3>1. link' = link \/ link'.up = "down" BY <2>1, <1>0 DEF LinkType
    <3> QED BY <2>2, <3>1 DEF MirrorInv, LinkFits
  <2>5. ASSUME NEW n \in 0 .. L, FirstOf(mirror, n), InARow(link, L),
               fetch = NoFetch => GoesOn(link, n, L),
               fetch.at = "asked" => fetch.from <= n,
               fetch.at = "answered" => \E from \in 0 .. n, k \in n .. L : Brings(fetch, from, k) /\ GoesOn(link, k, L)
        PROVE  MirrorFits(mirror, link', fetch, L + 1)
    <3>1. InARow(link', L + 1) BY <2>2, <2>3, <2>4, <2>5 DEF InARow, LinkFits
    <3>2. \A k \in Nat : GoesOn(link, k, L) => GoesOn(link', k, L + 1) BY <2>2, <2>3 DEF GoesOn
    <3>3. GoesOn(link, n, L) => GoesOn(link', n, L + 1) BY <3>2, <1>1
    <3>4. ASSUME fetch.at = "answered"
          PROVE  \E from \in 0 .. n, k \in n .. (L + 1) : Brings(fetch, from, k) /\ GoesOn(link', k, L + 1)
      BY <2>5, <3>2, <3>4, <1>1
    <3>5. n \in 0 .. (L + 1) BY <1>1
    <3> HIDE DEF L
    <3> QED BY <2>5, <3>1, <3>3, <3>4, <3>5 DEF MirrorFits
  <2> QED BY <1>1, <2>4, <2>5 DEF MirrorInv, MirrorFits
<1>3. CASE link.up = "up" /\ link.sub /\ Len(link.pushes) < Buffer
  <2>1. link' = [link EXCEPT !.pushes = Append(@, L + 1)] BY <1>3 DEF Appends
  <2>2. /\ link'.up = "up" /\ link'.sub /\ link'.pushes = Append(link.pushes, L + 1)
    BY <2>1, <1>0, <1>3 DEF LinkType
  <2>3. /\ Len(link'.pushes) = Len(link.pushes) + 1 /\ link'.pushes # <<>> /\ DOMAIN link'.pushes = 1 .. Len(link'.pushes)
        /\ \A i \in 1 .. Len(link.pushes) : link'.pushes[i] = link.pushes[i]
        /\ link'.pushes[Len(link.pushes) + 1] = L + 1 /\ DOMAIN link.pushes = 1 .. Len(link.pushes) /\ Len(link.pushes) \in Nat
    <3> DEFINE ps == link.pushes
    <3>1. ps \in Seq(Nat) /\ L + 1 \in Nat BY <1>0, <1>1
    <3> HIDE DEF ps, L
    <3>2. /\ Len(Append(ps, L + 1)) = Len(ps) + 1 /\ Append(ps, L + 1) \in Seq(Nat)
          /\ \A i \in 1 .. Len(ps) : Append(ps, L + 1)[i] = ps[i]
          /\ Append(ps, L + 1)[Len(ps) + 1] = L + 1 /\ DOMAIN ps = 1 .. Len(ps) /\ Len(ps) \in Nat
      BY <3>1
    <3>3. Append(ps, L + 1) # <<>> /\ DOMAIN Append(ps, L + 1) = 1 .. Len(Append(ps, L + 1)) BY <3>2
    <3>4. link'.pushes = Append(ps, L + 1) BY <2>2 DEF ps
    <3>5. /\ Len(link'.pushes) = Len(ps) + 1 /\ link'.pushes # <<>> /\ DOMAIN link'.pushes = 1 .. Len(link'.pushes)
          /\ \A i \in 1 .. Len(ps) : link'.pushes[i] = ps[i]
          /\ link'.pushes[Len(ps) + 1] = L + 1 /\ DOMAIN ps = 1 .. Len(ps) /\ Len(ps) \in Nat
      BY <3>2, <3>3, <3>4
    <3> QED BY <3>5 DEF ps
  <2>4. LinkFits(link', fetch) BY <2>2 DEF LinkFits
  <2>5. ASSUME NEW n \in 0 .. L, FirstOf(mirror, n), InARow(link, L),
               fetch = NoFetch => GoesOn(link, n, L),
               fetch.at = "asked" => fetch.from <= n,
               fetch.at = "answered" => \E from \in 0 .. n, k \in n .. L : Brings(fetch, from, k) /\ GoesOn(link, k, L)
        PROVE  MirrorFits(mirror, link', fetch, L + 1)
    <3> HIDE DEF L
    <3>1. CASE link.pushes = <<>>
      <4>1. Len(link.pushes) = 0 /\ link'.pushes[1] = L + 1 BY <3>1, <2>3
      <4>2. InARow(link', L + 1) BY <4>1, <2>3, <1>1 DEF InARow
      <4>3. \A k \in Nat : GoesOn(link, k, L) => GoesOn(link', k, L + 1) BY <3>1, <4>1, <2>2, <2>3, <1>1, <1>3 DEF GoesOn
      <4>4. GoesOn(link, n, L) => GoesOn(link', n, L + 1) BY <4>3, <1>1
      <4>5. ASSUME fetch.at = "answered"
            PROVE  \E from \in 0 .. n, k \in n .. (L + 1) : Brings(fetch, from, k) /\ GoesOn(link', k, L + 1)
        BY <2>5, <4>3, <4>5, <1>1
      <4>6. n \in 0 .. (L + 1) BY <1>1
      <4> QED BY <2>5, <4>2, <4>4, <4>5, <4>6 DEF MirrorFits
    <3>2. CASE link.pushes # <<>>
      <4>1. 1 \in 1 .. Len(link.pushes) /\ link'.pushes[1] = link.pushes[1] BY <3>2, <2>3, <1>0
      <4>a. link.pushes[1] \in Nat BY <4>1, <1>0
      <4>b. link.pushes[Len(link.pushes)] = L /\ link.pushes[Len(link.pushes)] = link.pushes[1] + Len(link.pushes) - 1
        BY <2>5, <3>2, <1>3, <2>3, <4>1 DEF InARow
      <4>c. \A i \in 1 .. Len(link.pushes) : link.pushes[i] = link.pushes[1] + i - 1 BY <2>5, <2>3 DEF InARow
      <4>d. ASSUME NEW i \in 1 .. (Len(link.pushes) + 1) PROVE link'.pushes[i] = link'.pushes[1] + i - 1
        <5>1. CASE i = Len(link.pushes) + 1
          <6>1. link'.pushes[i] = L + 1 /\ link'.pushes[1] = link.pushes[1] BY <5>1, <4>1, <2>3
          <6>2. L + 1 = link.pushes[1] + i - 1
            <7>1. \A f, l \in Nat : L = f + l - 1 => L + 1 = f + (l + 1) - 1 OBVIOUS
            <7> QED BY <5>1, <4>a, <4>b, <2>3, <7>1
          <6> QED BY <6>1, <6>2
        <5>2. CASE i # Len(link.pushes) + 1
          <6>1. i \in 1 .. Len(link.pushes) BY <5>2, <2>3
          <6> QED BY <6>1, <4>1, <4>c, <2>3
        <5> QED BY <5>1, <5>2
      <4>2. InARow(link', L + 1) BY <4>d, <2>3 DEF InARow
      <4>3. \A k \in Nat : GoesOn(link, k, L) => GoesOn(link', k, L + 1) BY <3>2, <4>1, <2>3 DEF GoesOn
      <4>4. GoesOn(link, n, L) => GoesOn(link', n, L + 1) BY <4>3, <1>1
      <4>5. ASSUME fetch.at = "answered"
            PROVE  \E from \in 0 .. n, k \in n .. (L + 1) : Brings(fetch, from, k) /\ GoesOn(link', k, L + 1)
        BY <2>5, <4>3, <4>5, <1>1
      <4>6. n \in 0 .. (L + 1) BY <1>1
      <4> QED BY <2>5, <4>2, <4>4, <4>5, <4>6 DEF MirrorFits
    <3> QED BY <3>1, <3>2
  <2> QED BY <1>1, <2>4, <2>5 DEF MirrorInv, MirrorFits
<1> QED BY <1>2, <1>3

(* Events that go on at, or before, the mirror's end bring it to their     *)
(* end, or leave it where it is when it is past that.                      *)
LEMMA ApplyFits ==
  ASSUME PhoneTypes, NEW events \in Seq(Nat), FromLog(events, Len(eventLog)), Apply(events),
         NEW n \in Nat, FirstOf(mirror, n), NEW from \in Nat, NEW k \in Nat, from <= n,
         k = from + Len(events), \A i \in DOMAIN events : events[i] = from + i,
         NEW m \in Nat, m = (IF n <= k THEN k ELSE n)
  PROVE  FirstOf(mirror', m)
<1> DEFINE S == Range(events) \ Range(mirror.rows)
           rows == mirror.rows
<1>0. rows \in Seq(Nat) /\ Len(rows) = n /\ \A i \in 1..n : rows[i] = i BY DEF PhoneTypes, MirrorType, FirstOf
<1>1. Range(rows) = 1..n
  <2> HIDE DEF rows
  <2>1. DOMAIN rows = 1..n BY <1>0
  <2>2. ASSUME NEW x \in 1..n PROVE x \in Range(rows) BY <2>1, <2>2, <1>0 DEF Range
  <2>3. ASSUME NEW x \in Range(rows) PROVE x \in 1..n BY <2>1, <2>3, <1>0 DEF Range
  <2> QED BY <2>2, <2>3
<1>2. Range(events) = (from + 1) .. k
  <2>1. DOMAIN events = 1 .. (k - from) BY LenProperties
  <2>2. ASSUME NEW x \in (from + 1) .. k PROVE x \in Range(events)
    <3>1. x - from \in DOMAIN events /\ events[x - from] = x BY <2>1
    <3> QED BY <3>1 DEF Range
  <2>3. ASSUME NEW i \in DOMAIN events PROVE events[i] \in (from + 1) .. k BY <2>1
  <2> QED BY <2>2, <2>3 DEF Range
<1>3. S = (n + 1) .. m BY <1>1, <1>2
<1>4. InOrder(S) = [i \in 1 .. (m - n) |-> n + i]
  <2>1. n <= m OBVIOUS
  <2> HIDE DEF S
  <2> QED BY <2>1, <1>3, InOrderOfInterval
<1>5. /\ mirror'.rows = rows \o InOrder(S)
      /\ mirror'.cursor = (IF events = <<>> THEN mirror.cursor ELSE events[Len(events)])
  BY ApplyTypes
<1>6. mirror'.cursor <= m
  <2>0. mirror.cursor \in Nat /\ mirror.cursor <= n BY DEF PhoneTypes, MirrorType, FirstOf
  <2>1. CASE events = <<>>
    <3>1. mirror'.cursor = mirror.cursor BY <2>1, <1>5
    <3> QED BY <3>1, <2>0
  <2>2. CASE events # <<>>
    <3>1. Len(events) \in DOMAIN events BY <2>2
    <3>2. mirror'.cursor = k BY <2>2, <3>1, <1>5
    <3> QED BY <3>2
  <2> QED BY <2>1, <2>2
<1>7. Len(mirror'.rows) = m /\ \A i \in 1..m : mirror'.rows[i] = i
  <2> DEFINE more == InOrder(S)
  <2>1. more \in Seq(Nat) /\ Len(more) = m - n /\ \A i \in 1 .. (m - n) : more[i] = n + i
    <3>1. m - n \in Nat OBVIOUS
    <3>2. [i \in 1 .. (m - n) |-> n + i] \in Seq(Nat) /\ Len([i \in 1 .. (m - n) |-> n + i]) = m - n BY <3>1
    <3> QED BY <3>2, <1>4
  <2> HIDE DEF S, rows, more
  <2>2. /\ Len(rows \o more) = Len(rows) + Len(more)
        /\ \A i \in 1 .. Len(rows) + Len(more) :
             (rows \o more)[i] = IF i <= Len(rows) THEN rows[i] ELSE more[i - Len(rows)]
    BY <1>0, <2>1, ConcatProperties
  <2>3. mirror'.rows = rows \o more BY <1>5 DEF more
  <2>4. Len(mirror'.rows) = m BY <2>1, <2>2, <2>3, <1>0
  <2>5. ASSUME NEW i \in 1..m PROVE mirror'.rows[i] = i
    <3>1. i \in 1 .. Len(rows) + Len(more) BY <2>1, <1>0
    <3>2. CASE i <= n
      <4>1. mirror'.rows[i] = rows[i] BY <3>1, <3>2, <2>2, <2>3, <1>0
      <4> QED BY <4>1, <3>2, <1>0
    <3>3. CASE ~(i <= n)
      <4>1. mirror'.rows[i] = more[i - n] BY <3>1, <3>3, <2>2, <2>3, <1>0
      <4>2. i - n \in 1 .. (m - n) BY <3>3
      <4> QED BY <4>1, <4>2, <2>1
    <3> QED BY <3>2, <3>3
  <2> QED BY <2>4, <2>5
<1> QED BY <1>6, <1>7 DEF FirstOf

LEMMA SyncedFits ==
  ASSUME PhoneTypes, MirrorInv, FinishSync
  PROVE  MirrorInv'
<1> DEFINE L == Len(eventLog)
<1>a. UNCHANGED <<eventLog, link, been, refresh>> /\ fetch' = NoFetch /\ Apply(fetch.events) /\ fetch.at = "answered"
  BY DEF FinishSync
<1>1. fetch.events \in Seq(Nat) /\ FromLog(fetch.events, L) /\ L \in Nat
  BY <1>a DEF PhoneTypes, FetchType, NoFetch, FetchFits
<1>2. LinkFits(link, fetch') BY <1>a DEF MirrorInv, LinkFits
<1>3. ASSUME ~been.torn, ~been.forgotten
      PROVE  MirrorFits(mirror', link, fetch', L) /\ ReadsFit(refresh, Len(mirror'.rows))
  <2>1. MirrorFits(mirror, link, fetch, L) /\ ReadsFit(refresh, Len(mirror.rows)) BY <1>3 DEF MirrorInv
  <2> HIDE DEF L
  <2>2. PICK n \in 0 .. L : /\ FirstOf(mirror, n) /\ InARow(link, L)
                           /\ \E from \in 0 .. n, k \in n .. L : Brings(fetch, from, k) /\ GoesOn(link, k, L)
    BY <2>1, <1>a DEF MirrorFits
  <2>3. PICK from \in 0 .. n, k \in n .. L : Brings(fetch, from, k) /\ GoesOn(link, k, L) BY <2>2
  <2>4. n \in Nat /\ from \in Nat /\ from <= n /\ k \in Nat /\ n <= k /\ k <= L BY <2>2, <2>3, <1>1
  <2>5. FirstOf(mirror', k)
    <3>1. k = from + Len(fetch.events) /\ \A i \in DOMAIN fetch.events : fetch.events[i] = from + i
      BY <2>3 DEF Brings
    <3>2. Apply(fetch.events) /\ FromLog(fetch.events, Len(eventLog)) BY <1>a, <1>1 DEF L
    <3>3. k = (IF n <= k THEN k ELSE n) BY <2>4
    <3> QED BY <1>1, <2>2, <2>4, <3>1, <3>2, <3>3, ApplyFits
  <2>6. k \in 0 .. L BY <2>4, <1>1
  <2>7. ReadsFit(refresh, Len(mirror'.rows))
    <3>1. Len(mirror.rows) = n /\ Len(mirror'.rows) = k BY <2>2, <2>5 DEF FirstOf
    <3> QED BY <3>1, <2>1, <2>4, StillReads DEF PhoneTypes
  <2> QED BY <1>a, <2>2, <2>3, <2>5, <2>6, <2>7 DEF MirrorFits, NoFetch
<1> QED BY <1>a, <1>2, <1>3 DEF MirrorInv

LEMMA RecordFits ==
  ASSUME PhoneTypes, MirrorInv, Record
  PROVE  MirrorInv'
<1> DEFINE L == Len(eventLog)
           ps == link.pushes
<1>a. UNCHANGED <<eventLog, been, fetch, refresh>> /\ fetch = NoFetch /\ ps # <<>> /\ link' = [link EXCEPT !.pushes = Tail(ps)]
  BY DEF Record
<1>1. ps \in Seq(Nat) /\ link \in LinkType /\ L \in Nat /\ FromLog(ps, L) BY DEF PhoneTypes, LinkType
<1>2. link'.up = link.up /\ link'.sub = link.sub /\ link'.pushes = Tail(ps) BY <1>a, <1>1 DEF LinkType
<1>3. /\ Len(Tail(ps)) = Len(ps) - 1 /\ Len(ps) \in Nat \ {0} /\ Tail(ps) \in Seq(Nat)
      /\ \A i \in 1 .. Len(Tail(ps)) : Tail(ps)[i] = ps[i + 1]
      /\ DOMAIN ps = 1 .. Len(ps) /\ DOMAIN Tail(ps) = 1 .. Len(Tail(ps)) /\ Head(ps) = ps[1]
      /\ ps[1] \in 1 .. L
  <2> HIDE DEF ps, L
  <2>1. Len(ps) \in Nat \ {0} /\ DOMAIN ps = 1 .. Len(ps) BY <1>a, <1>1
  <2>2. ps[1] \in 1 .. L BY <2>1, <1>1 DEF FromLog
  <2>3. /\ Len(Tail(ps)) = Len(ps) - 1 /\ Tail(ps) \in Seq(Nat)
        /\ \A i \in 1 .. Len(Tail(ps)) : Tail(ps)[i] = ps[i + 1]
    BY <1>a, <1>1, HeadTailProperties
  <2> QED BY <2>1, <2>2, <2>3, <1>a, <1>1
<1>4. LinkFits(link', fetch')
  <2>1. link.sub BY <1>a DEF MirrorInv, LinkFits
  <2> QED BY <2>1, <1>2 DEF MirrorInv, LinkFits
<1>5. ASSUME ~been.torn, ~been.forgotten
      PROVE  MirrorFits(mirror', link', fetch', L) /\ ReadsFit(refresh, Len(mirror'.rows))
  <2>1. MirrorFits(mirror, link, fetch, L) /\ ReadsFit(refresh, Len(mirror.rows)) BY <1>5 DEF MirrorInv
  <2>2. PICK n \in 0 .. L : FirstOf(mirror, n) /\ InARow(link, L) /\ GoesOn(link, n, L)
    BY <2>1, <1>a DEF MirrorFits
  <2>3. ps[1] <= n + 1 /\ n \in Nat /\ Len(mirror.rows) = n BY <2>2, <1>a DEF GoesOn, FirstOf
  <2>4. \A i \in DOMAIN ps : ps[i] = ps[1] + i - 1 BY <2>2 DEF InARow
  <2>5. InARow(link', L)
    <3>1. ASSUME NEW i \in DOMAIN Tail(ps) PROVE Tail(ps)[i] = Tail(ps)[1] + i - 1
      <4>1. i \in Nat /\ i + 1 \in DOMAIN ps /\ Tail(ps)[i] = ps[i + 1] BY <1>3
      <4>2. 2 \in DOMAIN ps /\ Tail(ps)[1] = ps[1 + 1] BY <1>3
      <4>3. ps[i + 1] = ps[1] + (i + 1) - 1 /\ ps[1 + 1] = ps[1] + (1 + 1) - 1 BY <4>1, <4>2, <2>4
      <4>4. ps[1] \in Nat BY <1>3
      <4>5. \A f, j \in Nat : f + (j + 1) - 1 = (f + (1 + 1) - 1) + j - 1 OBVIOUS
      <4> QED BY <4>1, <4>2, <4>3, <4>4, <4>5
    <3>2. ASSUME link.up = "up", Tail(ps) # <<>> PROVE Tail(ps)[Len(Tail(ps))] = L
      <4>1. Len(Tail(ps)) \in 1 .. Len(Tail(ps)) BY <3>2, <1>3
      <4>2. Tail(ps)[Len(Tail(ps))] = ps[Len(ps)]
        <5>1. Len(Tail(ps)) + 1 = Len(ps) BY <1>3
        <5> QED BY <4>1, <5>1, <1>3
      <4> QED BY <4>2, <3>2, <2>2, <1>a DEF InARow
    <3> QED BY <3>1, <3>2, <1>2 DEF InARow
  <2>6. ASSUME NEW m \in 0 .. L, n <= m, ps[1] <= m, FirstOf(mirror', m)
        PROVE  MirrorFits(mirror', link', fetch', L) /\ ReadsFit(refresh, Len(mirror'.rows))
    <3>1. Tail(ps) # <<>> => Tail(ps)[1] <= m + 1
      <4>1. ASSUME Tail(ps) # <<>> PROVE Tail(ps)[1] = ps[1] + 1
        <5>1. 1 \in 1 .. Len(Tail(ps)) /\ 2 \in DOMAIN ps BY <4>1, <1>3
        <5>2. Tail(ps)[1] = ps[2] BY <5>1, <1>3
        <5>3. ps[2] = ps[1] + 2 - 1 BY <5>1, <2>4
        <5>4. ps[1] \in Nat BY <1>3
        <5>5. ps[1] + 2 - 1 = ps[1] + 1 BY <5>4
        <5> QED BY <5>2, <5>3, <5>5
      <4>2. ps[1] \in Nat BY <1>3
      <4> QED BY <4>1, <4>2, <2>6
    <3>2. ASSUME link.up = "up", link.sub, Tail(ps) = <<>> PROVE m = L
      <4>1. Len(ps) = 1
        <5>0. Len(<<>>) = 0 OBVIOUS
        <5>1. Len(Tail(ps)) = 0 BY <3>2, <5>0, Zenon
        <5> HIDE DEF ps
        <5> QED BY <5>1, <1>3
      <4>2. ps[1] = L BY <4>1, <3>2, <2>2, <1>a DEF InARow
      <4> QED BY <4>2, <2>6, <1>1
    <3>3. GoesOn(link', m, L) BY <3>1, <3>2, <2>6, <1>2 DEF GoesOn
    <3>4. ReadsFit(refresh, Len(mirror'.rows))
      <4>1. Len(mirror'.rows) = m BY <2>6 DEF FirstOf
      <4>2. m \in Nat BY <1>1
      <4> QED BY <4>1, <4>2, <2>1, <2>3, <2>6, StillReads DEF PhoneTypes
    <3> QED BY <3>3, <3>4, <2>5, <2>6, <1>a DEF MirrorFits, NoFetch
  <2>7. CASE mirror' = mirror /\ ps[1] <= mirror.cursor
    <3>1. ps[1] <= n /\ n <= n
      <4>1. mirror.cursor \in Nat /\ mirror.cursor <= n BY <2>2 DEF FirstOf, PhoneTypes, MirrorType
      <4> QED BY <4>1, <2>3, <2>7, <1>3
    <3>2. FirstOf(mirror', n) BY <2>7, <2>2
    <3> QED BY <3>1, <3>2, <2>2, <2>6
  <2>8. CASE Apply(<<ps[1]>>)
    <3> DEFINE e == ps[1]
               es == <<e>>
               m == IF n <= e THEN e ELSE n
    <3>1. e \in Nat \ {0} /\ e <= L /\ e <= n + 1 BY <2>3, <1>3
    <3>2. Apply(es) BY <2>8
    <3> HIDE DEF e, ps
    <3>3. es \in Seq(Nat) /\ FromLog(es, L) /\ Len(es) = 1 /\ \A i \in DOMAIN es : es[i] = (e - 1) + i
      BY <3>1 DEF FromLog
    <3>4. e - 1 \in Nat /\ e - 1 <= n /\ e = (e - 1) + Len(es) /\ m \in Nat BY <2>3, <3>1, <3>3
    <3>5. n <= m /\ e <= m /\ m \in 0 .. L BY <2>2, <2>3, <3>1, <1>1
    <3> HIDE DEF es
    <3>6. m = (IF n <= e THEN e ELSE n) OBVIOUS
    <3> HIDE DEF m
    <3>7. FirstOf(mirror', m) BY <3>1, <3>2, <3>3, <3>4, <3>6, <2>2, <2>3, ApplyFits
    <3>8. ps[1] <= m BY <3>5 DEF e
    <3> QED BY <3>5, <3>7, <3>8, <2>6
  <2>9. (mirror' = mirror /\ Head(ps) <= mirror.cursor) \/ Apply(<<Head(ps)>>) BY DEF Record
  <2> QED BY <2>7, <2>8, <2>9, <1>3
<1> QED BY <1>a, <1>4, <1>5 DEF MirrorInv

(* The connection comes and goes, and a catch-up is asked and answered.    *)
LEMMA LinkStepFits ==
  ASSUME PhoneTypes, MirrorInv, Connect \/ PhoneSubscribe \/ EventsAfter \/ Drop \/ Disconnect
  PROVE  MirrorInv'
<1> DEFINE L == Len(eventLog)
<1>0. L \in Nat /\ L # 0 /\ link \in LinkType /\ mirror \in MirrorType /\ fetch \in FetchType /\ been \in BeenType
      /\ mirror.cursor \in Nat
  BY DEF PhoneTypes, MirrorType
<1>1. CASE Connect \/ Disconnect
  <2>1. fetch = NoFetch
    <3>1. Connect => ~link.sub BY DEF Connect, MirrorInv, LinkFits
    <3> QED BY <1>1, <3>1 DEF Disconnect, MirrorInv, LinkFits
  <2>2. ~link'.sub /\ link'.pushes = <<>> /\ UNCHANGED <<eventLog, mirror, fetch, refresh, been>> BY <1>1 DEF Connect, Disconnect
  <2>3. LinkFits(link', fetch') BY <2>1, <2>2 DEF LinkFits
  <2>4. ASSUME NEW n \in 0 .. L, FirstOf(mirror, n) PROVE MirrorFits(mirror, link', fetch, L)
    <3>1. InARow(link', L) /\ GoesOn(link', n, L) BY <2>2 DEF InARow, GoesOn
    <3> HIDE DEF L
    <3> QED BY <2>1, <2>4, <3>1 DEF MirrorFits, NoFetch
  <2> QED BY <2>2, <2>3, <2>4 DEF MirrorInv, MirrorFits
<1>2. CASE PhoneSubscribe
  <2>1. /\ link.up = "up" /\ link' = [link EXCEPT !.sub = TRUE] /\ UNCHANGED <<eventLog, mirror, refresh, been>>
        /\ fetch' = [at |-> "asked", from |-> IF mirror.rows = <<>> THEN 0 ELSE mirror.cursor]
    BY <1>2 DEF PhoneSubscribe
  <2>2. link'.sub /\ link'.up = "up" /\ link'.pushes = link.pushes BY <2>1, <1>0 DEF LinkType
  <2>3. fetch'.at = "asked" /\ fetch'.from \in {0, mirror.cursor} /\ fetch' # NoFetch BY <2>1 DEF NoFetch
  <2>4. LinkFits(link', fetch') BY <2>2 DEF LinkFits
  <2>5. ASSUME NEW n \in 0 .. L, FirstOf(mirror, n), InARow(link, L) PROVE MirrorFits(mirror, link', fetch', L)
    <3>1. InARow(link', L) BY <2>1, <2>2, <2>5 DEF InARow
    <3>2. fetch'.from <= n BY <2>3, <2>5, <1>0 DEF FirstOf
    <3> HIDE DEF L
    <3> QED BY <2>3, <2>5, <3>1, <3>2 DEF MirrorFits
  <2> QED BY <2>1, <2>4, <2>5 DEF MirrorInv, MirrorFits
<1>3. CASE EventsAfter
  <2>1. link.up = "up" /\ fetch.at = "asked" /\ UNCHANGED <<eventLog, mirror, refresh, been, link>>
    BY <1>3 DEF EventsAfter
  <2> DEFINE es == [i \in 1 .. (L - fetch.from) |-> fetch.from + i]
  <2>2. fetch' = [at |-> "answered", events |-> es] BY <1>3 DEF EventsAfter
  <2>3. fetch'.at = "answered" /\ fetch'.events = es /\ fetch' # NoFetch BY <2>2 DEF NoFetch
  <2>a. fetch.from \in Nat /\ fetch.from <= L BY <2>1 DEF PhoneTypes, FetchFits, FetchType, NoFetch
  <2>b. Len(es) = L - fetch.from /\ DOMAIN es = 1 .. (L - fetch.from) BY <2>a, <1>0
  <2>4. LinkFits(link', fetch')
    <3>1. fetch # NoFetch BY <2>1 DEF NoFetch
    <3> QED BY <3>1, <2>1 DEF MirrorInv, LinkFits
  <2>5. ASSUME NEW n \in 0 .. L, FirstOf(mirror, n), InARow(link, L), fetch.from <= n
        PROVE  MirrorFits(mirror, link, fetch', L)
    <3>1. Brings(fetch', fetch.from, L) BY <2>a, <2>b, <2>3, <2>5, <1>0 DEF Brings
    <3>2. GoesOn(link, L, L)
      <4>1. ASSUME link.pushes # <<>> PROVE link.pushes[1] <= L + 1
        <5>1. 1 \in DOMAIN link.pushes BY <4>1, <1>0 DEF LinkType
        <5>2. link.pushes[1] \in 1 .. L BY <5>1 DEF PhoneTypes, FromLog
        <5> QED BY <5>2, <1>0
      <4> QED BY <4>1 DEF GoesOn
    <3>3. L \in n .. L /\ fetch.from \in 0 .. n BY <1>0, <2>a, <2>5
    <3> HIDE DEF L, es
    <3> QED BY <2>3, <2>5, <3>1, <3>2, <3>3, <1>0 DEF MirrorFits
  <2> QED BY <2>1, <2>4, <2>5 DEF MirrorInv, MirrorFits
<1>4. CASE Drop
  <2>1. UNCHANGED <<eventLog, mirror, fetch, refresh>> /\ link' = [link EXCEPT !.up = "down"] BY <1>4 DEF Drop
  <2>2. link'.up = "down" /\ link'.sub = link.sub /\ link'.pushes = link.pushes BY <2>1, <1>0 DEF LinkType
  <2>3. been'.torn = been.torn /\ been'.forgotten = been.forgotten BY <1>4, <1>0 DEF Drop, BeenType
  <2>4. LinkFits(link', fetch) BY <2>2 DEF MirrorInv, LinkFits
  <2>5. InARow(link, L) => InARow(link', L) BY <2>2 DEF InARow
  <2>6. link.up = "up" BY <1>4 DEF Drop
  <2>7. \A k : GoesOn(link, k, L) => GoesOn(link', k, L) BY <2>2 DEF GoesOn
  <2>9. MirrorFits(mirror, link, fetch, L) => MirrorFits(mirror, link', fetch, L)
    BY <2>5, <2>7 DEF MirrorFits
  <2> QED BY <2>1, <2>3, <2>4, <2>9 DEF MirrorInv
<1> QED BY <1>1, <1>2, <1>3, <1>4

(* A catch-up that fails leaves the mirror's rows as they are.             *)
LEMMA FailureFits ==
  ASSUME PhoneTypes, MirrorInv, SyncFails \/ Refetch
  PROVE  MirrorInv'
<1> DEFINE L == Len(eventLog)
<1>0. L \in Nat /\ mirror \in MirrorType /\ been \in BeenType BY DEF PhoneTypes
<1>1. /\ UNCHANGED <<eventLog, link, refresh>> /\ fetch.at = "asked"
      /\ mirror' = mirror \/ mirror' = [mirror EXCEPT !.cursor = 0, !.synced = FALSE]
  BY DEF SyncFails, Refetch
<1>2. mirror'.rows = mirror.rows /\ mirror'.cursor \in {0, mirror.cursor}
  <2>1. CASE mirror' = mirror BY <2>1
  <2>2. CASE mirror' = [mirror EXCEPT !.cursor = 0, !.synced = FALSE] BY <2>2, <1>0 DEF MirrorType
  <2> QED BY <1>1, <2>1, <2>2
<1>3. LinkFits(link', fetch')
  <2>1. fetch # NoFetch BY <1>1 DEF NoFetch
  <2> QED BY <2>1, <1>1 DEF MirrorInv, LinkFits
<1>4. \A n \in 0 .. L : FirstOf(mirror, n) => FirstOf(mirror', n) BY <1>2 DEF FirstOf
<1>5. CASE SyncFails
  <2>1. fetch' = NoFetch /\ been'.forgotten = been.forgotten BY <1>5, <1>0 DEF SyncFails, BeenType
  <2>2. ~been'.torn => ~been.torn /\ link.up # "up" /\ link.pushes = <<>> BY <1>5, <1>0 DEF SyncFails, BeenType
  <2>3. ASSUME NEW n \in 0 .. L, FirstOf(mirror, n), link.up # "up", link.pushes = <<>>
        PROVE  MirrorFits(mirror', link, NoFetch, L)
    <3>1. InARow(link, L) /\ GoesOn(link, n, L) BY <2>3 DEF InARow, GoesOn
    <3> HIDE DEF L
    <3> QED BY <2>3, <3>1, <1>4 DEF MirrorFits, NoFetch
  <2> QED BY <2>1, <2>2, <2>3, <1>1, <1>2, <1>3 DEF MirrorInv, MirrorFits
<1>6. CASE Refetch
  <2>1. fetch' = [at |-> "asked", from |-> 0] BY <1>6 DEF Refetch
  <2>2. been'.torn = been.torn /\ been'.forgotten = been.forgotten BY <1>6, <1>0 DEF Refetch, BeenType
  <2>3. fetch'.at = "asked" /\ fetch'.from = 0 /\ fetch' # NoFetch BY <2>1 DEF NoFetch
  <2>4. ASSUME NEW n \in 0 .. L, FirstOf(mirror, n), InARow(link, L)
        PROVE  MirrorFits(mirror', link, fetch', L)
    <3>1. 0 <= n OBVIOUS
    <3> HIDE DEF L
    <3> QED BY <2>3, <2>4, <3>1, <1>4 DEF MirrorFits
  <2> QED BY <2>2, <2>4, <1>1, <1>2, <1>3 DEF MirrorInv, MirrorFits
<1> QED BY <1>5, <1>6

(* A refresh writes back a cursor not past the mirror's end, and a list    *)
(* that deletes a mirror with nothing in it changes nothing.               *)
LEMMA RefreshFits ==
  ASSUME PhoneTypes, MirrorInv, NEW r \in Refreshers,
         ListSessions(r) \/ ForgetUnlisted(r) \/ ReadRow(r) \/ UpsertRow(r)
  PROVE  MirrorInv'
<1> DEFINE L == Len(eventLog)
<1>0. /\ L \in Nat /\ mirror \in MirrorType /\ mirror.cursor \in Nat /\ been \in BeenType
      /\ refresh \in [Refreshers -> RefreshType]
  BY DEF PhoneTypes, MirrorType
<1>1. UNCHANGED <<eventLog, link, fetch>> BY DEF ListSessions, ForgetUnlisted, ReadRow, UpsertRow
<1>2. been'.torn = been.torn /\ (~been'.forgotten => ~been.forgotten)
  BY <1>0 DEF ListSessions, ForgetUnlisted, ReadRow, UpsertRow, BeenType
<1>3. ASSUME ~been'.torn, ~been'.forgotten
      PROVE  MirrorFits(mirror', link, fetch, L) /\ ReadsFit(refresh', Len(mirror'.rows))
  <2>1. MirrorFits(mirror, link, fetch, L) /\ ReadsFit(refresh, Len(mirror.rows)) BY <1>2, <1>3 DEF MirrorInv
  <2>2. PICK n \in 0 .. L :
          /\ FirstOf(mirror, n) /\ InARow(link, L)
          /\ fetch = NoFetch => GoesOn(link, n, L)
          /\ fetch.at = "asked" => fetch.from <= n
          /\ fetch.at = "answered" => \E from \in 0 .. n, k \in n .. L : Brings(fetch, from, k) /\ GoesOn(link, k, L)
    BY <2>1 DEF MirrorFits
  <2>3. Len(mirror.rows) = n /\ mirror.cursor <= n BY <2>2 DEF FirstOf
  <2>4. PICK x \in RefreshType : refresh' = [refresh EXCEPT ![r] = x] /\ (x.at = "read" => x.cursor <= n)
    <3>1. CASE ListSessions(r)
      <4> DEFINE x == [at |-> "listed", has |-> TRUE]
      <4>1. x \in RefreshType /\ x.at # "read" BY DEF RefreshType
      <4>2. refresh' = [refresh EXCEPT ![r] = x] BY <3>1 DEF ListSessions
      <4> HIDE DEF x
      <4> QED BY <4>1, <4>2
    <3>2. CASE ReadRow(r)
      <4> DEFINE x == [at |-> "read", cursor |-> mirror.cursor, synced |-> mirror.synced]
      <4>1. mirror.synced \in BOOLEAN BY <1>0 DEF MirrorType
      <4>2. x \in RefreshType /\ x.cursor = mirror.cursor BY <4>1, <1>0 DEF RefreshType
      <4>3. refresh' = [refresh EXCEPT ![r] = x] BY <3>2 DEF ReadRow
      <4> HIDE DEF x
      <4> QED BY <4>2, <4>3, <2>3
    <3>3. CASE ForgetUnlisted(r) \/ UpsertRow(r)
      <4>1. Resting \in RefreshType /\ Resting.at # "read" BY DEF RefreshType, Resting
      <4>2. refresh' = [refresh EXCEPT ![r] = Resting] BY <3>3 DEF ForgetUnlisted, UpsertRow
      <4> QED BY <4>1, <4>2
    <3> QED BY <3>1, <3>2, <3>3
  <2>5. ReadsFit(refresh', n) BY <2>1, <2>3, <2>4, <1>0 DEF ReadsFit
  <2>6. FirstOf(mirror', n)
    <3>1. CASE ListSessions(r) \/ ReadRow(r)
      <4>1. mirror' = mirror BY <3>1 DEF ListSessions, ReadRow
      <4> QED BY <4>1, <2>2
    <3>2. CASE ForgetUnlisted(r)
      <4>1. been' = [been EXCEPT !.forgotten = @ \/ mirror.rows # <<>>] /\ mirror' = Emptied
        BY <3>2 DEF ForgetUnlisted
      <4>2. mirror.rows = <<>> BY <4>1, <1>3, <1>0 DEF BeenType
      <4>3. n = 0 BY <4>2, <2>3
      <4> QED BY <4>1, <4>3 DEF FirstOf, Emptied
    <3>3. CASE UpsertRow(r)
      <4>1. refresh[r].cursor \in Nat /\ refresh[r].cursor <= n
        BY <3>3, <2>1, <2>3, <1>0 DEF UpsertRow, ReadsFit, RefreshType, Resting
      <4>2. mirror' = [mirror EXCEPT !.cursor = refresh[r].cursor, !.synced = refresh[r].synced]
        BY <3>3 DEF UpsertRow
      <4>3. mirror'.rows = mirror.rows /\ mirror'.cursor = refresh[r].cursor BY <4>2, <1>0 DEF MirrorType
      <4> QED BY <4>1, <4>3, <2>2 DEF FirstOf
    <3> QED BY <3>1, <3>2, <3>3
  <2>7. Len(mirror'.rows) = n BY <2>6 DEF FirstOf
  <2>8. MirrorFits(mirror', link, fetch, L) BY <2>2, <2>6 DEF MirrorFits
  <2> QED BY <2>5, <2>7, <2>8
<1> QED BY <1>1, <1>3 DEF MirrorInv

LEMMA StepMirror == PhoneTypes /\ MirrorInv /\ [PhoneNext]_phoneVars => MirrorInv'
<1> SUFFICES ASSUME PhoneTypes, MirrorInv, [PhoneNext]_phoneVars PROVE MirrorInv' OBVIOUS
<1>1. CASE UNCHANGED phoneVars BY <1>1 DEF phoneVars, MirrorInv
<1>2. CASE SessionGoesOn
  <2>1. 0 \in 0 .. MaxPrompts BY PhoneBounds
  <2> QED BY <1>2, <2>1, PushedFits DEF SessionGoesOn
<1>3. CASE UNCHANGED <<eventLog, mirror, link, fetch, refresh>> /\ been'.torn = been.torn /\ been'.forgotten = been.forgotten
  BY <1>3 DEF MirrorInv
<1>4. CASE PauseOrResume
  <2>1. been'.torn = been.torn /\ been'.forgotten = been.forgotten BY <1>4 DEF PauseOrResume, PhoneTypes, BeenType
  <2> QED BY <1>3, <1>4, <2>1 DEF PauseOrResume
<1>5. ASSUME NEW p \in Prompts, Compose(p) \/ RetryOrDiscard(p) PROVE MirrorInv'
  BY <1>3, <1>5 DEF Compose, RetryOrDiscard
<1>6. ASSUME NEW d \in Drainers, BeginDrain(d) \/ SendPrompt(d) \/ CutOff(d) PROVE MirrorInv'
  <2>1. been'.torn = been.torn /\ been'.forgotten = been.forgotten
    <3>1. CASE BeginDrain(d) BY <3>1 DEF BeginDrain
    <3>2. CASE SendPrompt(d)
      <4>1. been' = been \/ been' = [been EXCEPT !.overlapped = @ \cup {Head(drain[d].todo)}]
        BY <3>2 DEF SendPrompt
      <4> QED BY <4>1 DEF PhoneTypes, BeenType
    <3>3. CASE CutOff(d) BY <3>3 DEF CutOff, Unanswered, PhoneTypes, BeenType
    <3> QED BY <1>6, <3>1, <3>2, <3>3
  <2> QED BY <1>3, <1>6, <2>1 DEF BeginDrain, SendPrompt, CutOff, Unanswered
<1>7. ASSUME NEW c \in prompts, LookForId(c) \/ TakePrompt(c) PROVE MirrorInv'
  <2>1. CASE LookForId(c) BY <1>3, <2>1 DEF LookForId
  <2>2. CASE TakePrompt(c) /\ paused
    <3>1. been'.torn = been.torn /\ been'.forgotten = been.forgotten BY <2>2 DEF TakePrompt, PhoneTypes, BeenType
    <3> QED BY <1>3, <2>2, <3>1 DEF TakePrompt
  <2>3. CASE TakePrompt(c) /\ ~paused
    <3>1. c.p \in 0 .. MaxPrompts BY PhoneBounds DEF PhoneTypes, CallType, Prompts
    <3> QED BY <2>3, <3>1, PushedFits DEF TakePrompt
  <2> QED BY <1>7, <2>1, <2>2, <2>3
<1>8. CASE Connect \/ PhoneSubscribe \/ EventsAfter \/ Drop \/ Disconnect BY <1>8, LinkStepFits
<1>10. CASE SyncFails \/ Refetch BY <1>10, FailureFits
<1>11. ASSUME NEW r \in Refreshers, ListSessions(r) \/ ForgetUnlisted(r) \/ ReadRow(r) \/ UpsertRow(r) PROVE MirrorInv'
  BY <1>11, RefreshFits
<1>9. CASE FinishSync \/ Record BY <1>9, SyncedFits, RecordFits
<1> QED BY <1>1, <1>2, <1>4, <1>5, <1>6, <1>7, <1>8, <1>9, <1>10, <1>11 DEF PhoneNext

-----------------------------------------------------------------------------
PhoneInv == PhoneTypes /\ OutboxInv /\ MirrorInv

LEMMA PhoneInvHolds == PhoneSpec => []PhoneInv
<1>1. PhoneInit => PhoneInv BY PhoneInitTypes, OutboxInit, MirrorInit DEF PhoneInv
<1>2. PhoneInv /\ [PhoneNext]_phoneVars => PhoneInv'
  BY StepTypes, StepOutbox, StepMirror DEF PhoneInv, OutboxInv
<1> QED BY <1>1, <1>2, PTL DEF PhoneSpec

(* The log, the outbox, the drains, the calls, the mirror and the          *)
(* connection keep their types, for any drainers, prompts and buffer       *)
(* (SessionRepository.kt).                                                 *)
THEOREM PhoneTypeCorrect == PhoneSpec => []PhoneTypeOK
<1>1. PhoneInv => PhoneTypeOK BY TypesGive DEF PhoneInv
<1> QED BY <1>1, PhoneInvHolds, PTL

(* Whatever drains overlap, whatever connections and answers are lost and  *)
(* whatever rows a refresh writes back: what the phone shows as sent is in *)
(* the log, twice only if two calls for it were open, in the order typed;  *)
(* and its copy of the log has nothing missing, but after a catch-up that  *)
(* failed with pushes behind it or to come, or a list older than the       *)
(* session that deleted it (queuePrompt, flushOutbox, sync, record, apply, *)
(* refreshSessions).                                                       *)
THEOREM PhoneAlwaysSound == PhoneSpec => []PhoneIsSound
<1>1. PhoneInv => PhoneIsSound BY OutboxGives, MirrorGives DEF PhoneInv, PhoneIsSound
<1> QED BY <1>1, PhoneInvHolds, PTL

(* The phone's copy of the log by itself, for any number of refreshers.    *)
THEOREM MirrorAlwaysWhole == PhoneSpec => []MirrorIsWhole
<1>1. PhoneInv => MirrorIsWhole BY MirrorGives DEF PhoneInv
<1> QED BY <1>1, PhoneInvHolds, PTL

-----------------------------------------------------------------------------
(* The terminal. *)
MsgType == [k : {"event"}, of : Nat] \cup [k : {"prompt"}, of : AskedPrompts]
ActType == [k : {"answer"}, to : AskedPrompts] \cup [k : {"attach", "restore", "prompt", "archive"}, to : Shown]
WireType ==
  [at : {"dialing", "subscribed", "fetched", "live", "ending", "leaving"}, on : Shown, cursor : Nat, upto : Nat,
   next : Shown, queue : Seq(MsgType), busy : BOOLEAN]
ScreenType == [on : Shown, last : Nat, transcript : Seq(Nat), prompts : Seq(AskedPrompts)]

(* What is queued has been logged.                                         *)
Known(q, n) == \A i \in DOMAIN q : q[i].k = "event" => q[i].of \in 1 .. n

TermTypes ==
  /\ logged \in Seq(Shown) /\ asked \in [AskedPrompts -> {"new", "open", "closed"}]
  /\ wire \in WireType /\ screen \in ScreenType /\ stray \in Nat /\ actions \in Seq(ActType)
  /\ archived \subseteq Shown /\ spoiled \subseteq {"crossed", "robbed", "rejoined", "unrestored"}
  /\ wire.cursor <= Len(logged) /\ wire.upto <= Len(logged) /\ screen.last <= Len(logged)
  /\ Known(wire.queue, Len(logged))

LEMMA TermTypesGive == TermTypes => TerminalTypeOK
<1> SUFFICES ASSUME TermTypes PROVE TerminalTypeOK OBVIOUS
<1>1. wire.at \in {"dialing", "subscribed", "fetched", "live", "ending", "leaving"} BY DEF TermTypes, WireType
<1>2. {wire.on, wire.next, screen.on} \cup archived \subseteq Shown BY DEF TermTypes, WireType, ScreenType
<1>3. {wire.cursor, wire.upto} \subseteq 0..Len(logged) /\ screen.last \in 0..Len(logged)
  BY DEF TermTypes, WireType, ScreenType
<1>4. Range(screen.prompts) \subseteq AskedPrompts
  <2>1. screen.prompts \in Seq(AskedPrompts) BY DEF TermTypes, ScreenType
  <2> QED BY <2>1 DEF Range
<1> QED BY <1>1, <1>2, <1>3, <1>4 DEF TerminalTypeOK, TermTypes

LEMMA EventsAre ==
  ASSUME TermTypes, NEW s
  PROVE  EventsOf(s) \in SUBSET Nat /\ IsFiniteSet(EventsOf(s)) /\ \A e \in EventsOf(s) : e \in 1 .. Len(logged)
<1>1. Len(logged) \in Nat /\ DOMAIN logged = 1 .. Len(logged) BY DEF TermTypes
<1>2. EventsOf(s) \in SUBSET (1 .. Len(logged)) BY <1>1 DEF EventsOf
<1>3. IsFiniteSet(1 .. Len(logged)) BY <1>1, FS_Interval
<1>4. IsFiniteSet(EventsOf(s)) BY <1>2, <1>3, FS_Subset
<1> QED BY <1>1, <1>2, <1>4

LEMMA TermInitTypes == TerminalInit => TermTypes
<1> SUFFICES ASSUME TerminalInit PROVE TermTypes OBVIOUS
<1>1. PICK s \in Shown :
        /\ wire = [at |-> "dialing", on |-> s, cursor |-> 0, upto |-> 0, next |-> s, queue |-> << >>, busy |-> FALSE]
        /\ screen = [on |-> s, last |-> 0, transcript |-> << >>, prompts |-> << >>]
  BY DEF TerminalInit, NewModel
<1>2. wire \in WireType /\ screen \in ScreenType BY <1>1 DEF WireType, ScreenType
<1>3. logged = << >> /\ Len(logged) = 0 BY DEF TerminalInit
<1>4. logged \in Seq(Shown) /\ actions \in Seq(ActType) BY DEF TerminalInit
<1>5. wire.cursor = 0 /\ wire.upto = 0 /\ screen.last = 0 /\ wire.queue = << >> BY <1>1
<1>6. Known(wire.queue, Len(logged)) BY <1>5 DEF Known
<1> QED BY <1>2, <1>3, <1>4, <1>5, <1>6 DEF TerminalInit, TermTypes

LEMMA DeliverTypes ==
  ASSUME TermTypes, NEW s, NEW m \in MsgType, Deliver(s, m), NEW n \in Nat, Len(logged) <= n,
         m.k = "event" => m.of \in 1 .. n
  PROVE  /\ wire' \in WireType /\ Known(wire'.queue, n) /\ wire'.cursor <= n /\ wire'.upto <= n
         /\ wire'.at = wire.at /\ wire'.on = wire.on /\ wire'.next = wire.next
         /\ wire'.cursor = wire.cursor /\ wire'.upto = wire.upto
         /\ wire'.queue = IF wire.at \in {"subscribed", "fetched", "live"} /\ wire.on = s THEN Append(wire.queue, m) ELSE wire.queue
<1>1. wire.queue \in Seq(MsgType) /\ wire.cursor <= Len(logged) /\ wire.upto <= Len(logged) /\ Len(logged) \in Nat
      /\ Known(wire.queue, Len(logged)) /\ wire.cursor \in Nat /\ wire.upto \in Nat
  BY DEF TermTypes, WireType
<1>2. Known(wire.queue, n) BY <1>1 DEF Known
<1>3. Append(wire.queue, m) \in Seq(MsgType) BY <1>1
<1>4. Known(Append(wire.queue, m), n)
  <2> SUFFICES ASSUME NEW i \in DOMAIN Append(wire.queue, m), Append(wire.queue, m)[i].k = "event"
               PROVE  Append(wire.queue, m)[i].of \in 1 .. n
    BY DEF Known
  <2>1. i \in 1 .. Len(wire.queue) + 1 BY <1>1
  <2>2. CASE i = Len(wire.queue) + 1
    <3>1. Append(wire.queue, m)[i] = m BY <1>1, <2>2
    <3> QED BY <3>1
  <2>3. CASE i # Len(wire.queue) + 1
    <3>1. i \in DOMAIN wire.queue /\ Append(wire.queue, m)[i] = wire.queue[i] BY <1>1, <2>1, <2>3
    <3> QED BY <3>1, <1>2 DEF Known
  <2> QED BY <2>2, <2>3
<1>5. CASE wire.at \in {"subscribed", "fetched", "live"} /\ wire.on = s
  <2>1. wire' = [wire EXCEPT !.queue = Append(@, m)] BY <1>5 DEF Deliver
  <2>2. wire \in WireType BY DEF TermTypes
  <2>3. /\ wire'.queue = Append(wire.queue, m) /\ wire'.cursor = wire.cursor /\ wire'.upto = wire.upto
        /\ wire'.at = wire.at /\ wire'.on = wire.on /\ wire'.next = wire.next
    BY <2>1, <2>2 DEF WireType
  <2>4. wire' \in WireType BY <2>1, <2>2, <1>3 DEF WireType
  <2> QED BY <2>3, <2>4, <1>1, <1>4, <1>5
<1>6. CASE ~(wire.at \in {"subscribed", "fetched", "live"} /\ wire.on = s)
  <2>1. wire' = wire BY <1>6 DEF Deliver
  <2>2. wire \in WireType BY DEF TermTypes
  <2> QED BY <2>1, <2>2, <1>1, <1>2, <1>6
<1> QED BY <1>5, <1>6

(* What is appended to the screen.                                         *)
LEMMA AppendedIs ==
  ASSUME NEW scr \in ScreenType, NEW ids \in SUBSET Nat, IsFiniteSet(ids), NEW r, r = Appended(scr, ids)
  PROVE  LET new == {i \in ids : i > scr.last}
         IN  /\ r \in ScreenType /\ r.on = scr.on /\ r.prompts = scr.prompts
             /\ IsFiniteSet(new) /\ r.transcript = scr.transcript \o InOrder(new)
             /\ r.last \in new \cup {scr.last} /\ \A i \in new \cup {scr.last} : i <= r.last
<1> DEFINE new == {i \in ids : i > scr.last}
<1>1. new \in SUBSET Nat /\ IsFiniteSet(new) BY FS_Subset
<1>2. r = [scr EXCEPT !.transcript = @ \o InOrder(new), !.last = Max(new \cup {scr.last})] BY DEF Appended
<1>3. InOrder(new) \in Seq(Nat)
  <2>1. Cardinality(new) \in Nat /\ InOrder(new) \in [1 .. Cardinality(new) -> new] BY <1>1, InOrderRank
  <2>2. InOrder(new) \in [1 .. Cardinality(new) -> Nat] BY <2>1
  <2> QED BY <2>1, <2>2
<1>4. Max(new \cup {scr.last}) \in new \cup {scr.last} /\ \A i \in new \cup {scr.last} : i <= Max(new \cup {scr.last})
  <2>1. scr.last \in Nat BY DEF ScreenType
  <2>2. IsFiniteSet(new \cup {scr.last}) BY <1>1, FS_AddElement
  <2>3. new \cup {scr.last} \in SUBSET Nat /\ new \cup {scr.last} # {} BY <1>1, <2>1
  <2> HIDE DEF new
  <2> QED BY <2>2, <2>3, GreatestIs
<1>5. Max(new \cup {scr.last}) \in Nat
  <2>1. scr.last \in Nat BY DEF ScreenType
  <2> QED BY <1>1, <1>4, <2>1
<1> HIDE DEF new
<1>6. scr.transcript \o InOrder(new) \in Seq(Nat) BY <1>3 DEF ScreenType
<1>7. r \in ScreenType BY <1>2, <1>5, <1>6 DEF ScreenType
<1>8. r.on = scr.on /\ r.prompts = scr.prompts /\ r.transcript = scr.transcript \o InOrder(new) /\ r.last = Max(new \cup {scr.last})
  BY <1>2 DEF ScreenType
<1> QED BY <1>1, <1>4, <1>7, <1>8 DEF new

LEMMA EnqueuedIs ==
  ASSUME NEW scr \in ScreenType, NEW p \in AskedPrompts, NEW r, r = Enqueued(scr, p)
  PROVE  /\ r \in ScreenType /\ r.on = scr.on /\ r.last = scr.last /\ r.transcript = scr.transcript
         /\ \E i \in DOMAIN r.prompts : r.prompts[i] = p
         /\ \A i \in DOMAIN scr.prompts : i \in DOMAIN r.prompts /\ r.prompts[i] = scr.prompts[i]
<1>1. CASE HoldsPrompt(scr, p)
  <2>1. r = scr BY <1>1 DEF Enqueued
  <2>2. \E i \in DOMAIN scr.prompts : scr.prompts[i] = p BY <1>1 DEF HoldsPrompt, Range
  <2> QED BY <2>1, <2>2
<1>2. CASE ~HoldsPrompt(scr, p)
  <2>1. r = [scr EXCEPT !.prompts = Append(@, p)] BY <1>2 DEF Enqueued
  <2>2. scr.prompts \in Seq(AskedPrompts) BY DEF ScreenType
  <2>3. Append(scr.prompts, p) \in Seq(AskedPrompts) BY <2>2
  <2>4. r.prompts = Append(scr.prompts, p) /\ r.on = scr.on /\ r.last = scr.last /\ r.transcript = scr.transcript
    BY <2>1 DEF ScreenType
  <2>5. r \in ScreenType BY <2>1, <2>3 DEF ScreenType
  <2>6. Len(scr.prompts) + 1 \in DOMAIN r.prompts /\ r.prompts[Len(scr.prompts) + 1] = p BY <2>2, <2>4
  <2>7. ASSUME NEW i \in DOMAIN scr.prompts PROVE i \in DOMAIN r.prompts /\ r.prompts[i] = scr.prompts[i]
    BY <2>2, <2>4
  <2> QED BY <2>4, <2>5, <2>6, <2>7
<1> QED BY <1>1, <1>2

(* A queue holds events of its session in their order.  Complete past c: it has *)
(* all that comes after c or after what it has; without a gap: all of that *)
(* up to what it has.                                                      *)
InQueue(q, e) == \E i \in DOMAIN q : q[i].k = "event" /\ q[i].of = e
Orderly(q, evs) ==
  /\ \A i \in DOMAIN q : q[i].k = "event" => q[i].of \in evs
  /\ \A i, j \in DOMAIN q : i < j /\ q[i].k = "event" /\ q[j].k = "event" => q[i].of < q[j].of
Comes(q, c, e) == e > c \/ \E i \in DOMAIN q : q[i].k = "event" /\ q[i].of <= e
Complete(q, c, evs) == \A e \in evs : Comes(q, c, e) => InQueue(q, e)
NoGap(q, c, evs) ==
  \A e \in evs : Comes(q, c, e) /\ (\E i \in DOMAIN q : q[i].k = "event" /\ e <= q[i].of) => InQueue(q, e)

LEMMA QueuePrompt ==
  ASSUME NEW q \in Seq(MsgType), NEW m, m.k = "prompt", NEW evs, NEW r, r = Append(q, m)
  PROVE  /\ Orderly(q, evs) => Orderly(r, evs)
         /\ \A c : Complete(q, c, evs) => Complete(r, c, evs)
<1>1. Len(q) \in Nat /\ DOMAIN q = 1 .. Len(q) /\ DOMAIN r = 1 .. Len(q) + 1 /\ r[Len(q) + 1] = m
      /\ \A i \in 1 .. Len(q) : r[i] = q[i]
  OBVIOUS
<1>2. ASSUME NEW i \in DOMAIN r, r[i].k = "event" PROVE i \in DOMAIN q /\ r[i] = q[i]
  BY <1>1, <1>2
<1>3. \A i \in DOMAIN q : i \in DOMAIN r /\ r[i] = q[i] BY <1>1
<1>4. Orderly(q, evs) => Orderly(r, evs) BY <1>2 DEF Orderly
<1>5. ASSUME NEW c, Complete(q, c, evs), NEW e \in evs, Comes(r, c, e) PROVE InQueue(r, e)
  <2>1. Comes(q, c, e) BY <1>2, <1>5 DEF Comes
  <2>2. InQueue(q, e) BY <2>1, <1>5 DEF Complete
  <2> QED BY <2>2, <1>3 DEF InQueue
<1> QED BY <1>4, <1>5 DEF Complete

LEMMA QueueEvent ==
  ASSUME NEW q \in Seq(MsgType), NEW n \in Nat, NEW evs \in SUBSET (1 .. n), NEW r, r = Append(q, MsgEvent(n + 1)),
         Orderly(q, evs)
  PROVE  /\ Orderly(r, evs \cup {n + 1})
         /\ \A c \in Nat : Complete(q, c, evs) => Complete(r, c, evs \cup {n + 1})
         /\ Complete(q, n, evs) => Complete(r, n + 1, evs \cup {n + 1})
<1> DEFINE m == MsgEvent(n + 1)
<1>0. m.k = "event" /\ m.of = n + 1 BY DEF MsgEvent
<1> HIDE DEF m
<1>1. /\ Len(q) \in Nat /\ DOMAIN q = 1 .. Len(q) /\ DOMAIN r = 1 .. Len(q) + 1 /\ r[Len(q) + 1] = m
      /\ \A i \in 1 .. Len(q) : r[i] = q[i]
  BY DEF m
<1>2. ASSUME NEW i \in DOMAIN r PROVE (i \in DOMAIN q /\ r[i] = q[i]) \/ (i = Len(q) + 1 /\ r[i] = m)
  BY <1>1
<1>3. \A i \in DOMAIN q : i \in DOMAIN r /\ r[i] = q[i] /\ i < Len(q) + 1 BY <1>1
<1>4. Len(q) + 1 \in DOMAIN r BY <1>1
<1>5. ASSUME NEW i \in DOMAIN q, q[i].k = "event" PROVE q[i].of \in evs /\ q[i].of \in Nat /\ q[i].of < n + 1
  <2>1. q[i].of \in evs BY <1>5 DEF Orderly
  <2>2. q[i].of \in 1 .. n BY <2>1
  <2> QED BY <2>1, <2>2
<1>6. Orderly(r, evs \cup {n + 1})
  <2>1. \A i \in DOMAIN r : r[i].k = "event" => r[i].of \in evs \cup {n + 1} BY <1>0, <1>2, <1>5
  <2>2. ASSUME NEW i \in DOMAIN r, NEW j \in DOMAIN r, i < j, r[i].k = "event", r[j].k = "event"
        PROVE  r[i].of < r[j].of
    <3>1. i \in DOMAIN q /\ r[i] = q[i] BY <1>1, <2>2
    <3>2. CASE j \in DOMAIN q /\ r[j] = q[j] BY <3>1, <3>2, <2>2 DEF Orderly
    <3>3. CASE r[j] = m BY <3>1, <3>3, <2>2, <1>0, <1>5
    <3> QED BY <3>2, <3>3, <1>2
  <2> QED BY <2>1, <2>2 DEF Orderly
<1>7. InQueue(r, n + 1) BY <1>0, <1>1, <1>4 DEF InQueue
<1>8. ASSUME NEW e, InQueue(q, e) PROVE InQueue(r, e) BY <1>3, <1>8 DEF InQueue
<1>9. ASSUME NEW c \in Nat, NEW e \in evs, Comes(r, c, e) PROVE Comes(q, c, e)
  <2>1. CASE e > c BY <2>1 DEF Comes
  <2>2. CASE \E i \in DOMAIN r : r[i].k = "event" /\ r[i].of <= e
    <3>1. PICK i \in DOMAIN r : r[i].k = "event" /\ r[i].of <= e BY <2>2
    <3>3. e \in 1 .. n BY <1>9
    <3>4. ~(n + 1 <= e) BY <3>3
    <3>2. r[i] # m BY <3>1, <3>4, <1>0
    <3> QED BY <3>1, <3>2, <1>2 DEF Comes
  <2> QED BY <1>9, <2>1, <2>2 DEF Comes
<1>10. \A c \in Nat : Complete(q, c, evs) => Complete(r, c, evs \cup {n + 1})
  BY <1>7, <1>8, <1>9 DEF Complete
<1>11. ASSUME Complete(q, n, evs), NEW e \in evs \cup {n + 1}, Comes(r, n + 1, e) PROVE InQueue(r, e)
  <2>1. CASE e = n + 1 BY <2>1, <1>7
  <2>2. CASE e \in evs
    <3>1. Comes(q, n + 1, e) BY <2>2, <1>9, <1>11
    <3>3. e \in 1 .. n BY <2>2
    <3>4. ~(e > n + 1) BY <3>3
    <3>2. Comes(q, n, e) BY <3>1, <3>4 DEF Comes
    <3> QED BY <3>2, <2>2, <1>8, <1>11 DEF Complete
  <2> QED BY <2>1, <2>2
<1> QED BY <1>6, <1>10, <1>11 DEF Complete

(* An event that is not queued, or of another session.                     *)
LEMMA QueueStays ==
  ASSUME NEW q \in Seq(MsgType), NEW n \in Nat, NEW evs \in SUBSET (1 .. n), NEW c \in Nat, Orderly(q, evs)
  PROVE  /\ Orderly(q, evs \cup {n + 1})
         /\ NoGap(q, c, evs) => NoGap(q, c, evs \cup {n + 1})
         /\ Complete(q, n, evs) => Complete(q, n + 1, evs)
<1>1. ASSUME NEW i \in DOMAIN q, q[i].k = "event" PROVE q[i].of \in evs /\ q[i].of \in 1 .. n
  <2>1. q[i].of \in evs BY <1>1 DEF Orderly
  <2> QED BY <2>1
<1>2. Orderly(q, evs \cup {n + 1}) BY DEF Orderly
<1>3. ASSUME NEW i \in DOMAIN q, q[i].k = "event" PROVE ~(n + 1 <= q[i].of)
  <2>1. q[i].of \in 1 .. n BY <1>1, <1>3
  <2> QED BY <2>1
<1>4. NoGap(q, c, evs) => NoGap(q, c, evs \cup {n + 1}) BY <1>3 DEF NoGap
<1>5. ASSUME NEW e \in evs, Comes(q, n + 1, e) PROVE Comes(q, n, e)
  <2>1. e \in 1 .. n BY <1>5
  <2>2. ~(e > n + 1) BY <2>1
  <2> QED BY <1>5, <2>2 DEF Comes
<1> QED BY <1>2, <1>4, <1>5 DEF Complete

(* The first of the queue is taken.                                        *)
Past(m, c) == IF m.k = "event" THEN m.of ELSE c
QueueGoesOn(q, c, evs) ==
  LET m == Head(q)
      r == Tail(q)
  IN  /\ Orderly(r, evs)
      /\ Complete(q, c, evs) => NoGap(q, c, evs)
      /\ Complete(q, c, evs) => Complete(r, Past(m, c), evs)
      /\ NoGap(q, c, evs) => NoGap(r, Past(m, c), evs)
      /\ NoGap(q, c, evs) /\ m.k = "event" => m.of \in evs /\ \A e \in evs : c < e /\ e <= m.of => e = m.of

LEMMA QueueTaken ==
  ASSUME NEW q \in Seq(MsgType), q # << >>, NEW evs \in SUBSET Nat, NEW c \in Nat, Orderly(q, evs)
  PROVE  QueueGoesOn(q, c, evs)
<1> DEFINE m == Head(q)
           d == Past(m, c)
           r == Tail(q)
<1>0. d = IF m.k = "event" THEN m.of ELSE c BY DEF Past
<1>1. /\ Len(q) \in Nat \ {0} /\ DOMAIN q = 1 .. Len(q) /\ DOMAIN r = 1 .. Len(q) - 1 /\ m = q[1]
      /\ \A i \in 1 .. Len(q) - 1 : r[i] = q[i + 1]
  OBVIOUS
<1> HIDE DEF m, d, r
<1>2. 1 \in DOMAIN q BY <1>1
<1>3. ASSUME NEW i \in DOMAIN r PROVE i + 1 \in DOMAIN q /\ r[i] = q[i + 1] /\ 1 < i + 1 BY <1>1
<1>4. ASSUME NEW i \in DOMAIN q, i # 1 PROVE i - 1 \in DOMAIN r /\ r[i - 1] = q[i] /\ 1 < i BY <1>1, <1>4
<1>5. \A i \in DOMAIN q : q[i].k = "event" => q[i].of \in evs /\ q[i].of \in Nat BY DEF Orderly
<1>6. m.k = "event" => \A i \in DOMAIN r : r[i].k = "event" => m.of < r[i].of
  BY <1>1, <1>2, <1>3 DEF Orderly
<1>7. Orderly(r, evs)
  <2>1. \A i \in DOMAIN r : r[i].k = "event" => r[i].of \in evs BY <1>3, <1>5
  <2>2. ASSUME NEW i \in DOMAIN r, NEW j \in DOMAIN r, i < j, r[i].k = "event", r[j].k = "event"
        PROVE  r[i].of < r[j].of
    <3>1. i + 1 < j + 1 BY <2>2, <1>1
    <3> QED BY <3>1, <2>2, <1>3 DEF Orderly
  <2> QED BY <2>1, <2>2 DEF Orderly
<1>8. Complete(q, c, evs) => NoGap(q, c, evs) BY DEF Complete, NoGap
<1>9. ASSUME NEW e \in evs, Comes(r, d, e) PROVE Comes(q, c, e) /\ (m.k = "event" => e > m.of)
  <2>1. CASE e > d
    <3>1. CASE m.k = "event" BY <2>1, <3>1, <1>0, <1>1, <1>2, <1>5 DEF Comes
    <3>2. CASE m.k # "event" BY <2>1, <3>2, <1>0 DEF Comes
    <3> QED BY <3>1, <3>2
  <2>2. CASE \E i \in DOMAIN r : r[i].k = "event" /\ r[i].of <= e
    <3>1. PICK i \in DOMAIN r : r[i].k = "event" /\ r[i].of <= e BY <2>2
    <3>2. i + 1 \in DOMAIN q /\ q[i + 1].k = "event" /\ q[i + 1].of <= e /\ q[i + 1].of \in Nat BY <3>1, <1>3, <1>5
    <3>3. m.k = "event" => m.of < q[i + 1].of /\ m.of \in Nat BY <3>1, <1>1, <1>2, <1>3, <1>5, <1>6
    <3> QED BY <3>2, <3>3 DEF Comes
  <2> QED BY <1>9, <2>1, <2>2 DEF Comes
<1>10. ASSUME NEW e \in evs, InQueue(q, e), m.k = "event" => e > m.of PROVE InQueue(r, e)
  <2>1. PICK i \in DOMAIN q : q[i].k = "event" /\ q[i].of = e BY <1>10 DEF InQueue
  <2>2. i # 1 BY <2>1, <1>1, <1>5, <1>10
  <2> QED BY <2>1, <2>2, <1>4 DEF InQueue
<1>11. Complete(q, c, evs) => Complete(r, d, evs) BY <1>9, <1>10 DEF Complete
<1>12. NoGap(q, c, evs) => NoGap(r, d, evs)
  <2> SUFFICES ASSUME NoGap(q, c, evs), NEW e \in evs, Comes(r, d, e), NEW i \in DOMAIN r, r[i].k = "event", e <= r[i].of
               PROVE  InQueue(r, e)
    BY DEF NoGap
  <2>1. i + 1 \in DOMAIN q /\ q[i + 1].k = "event" /\ e <= q[i + 1].of BY <1>3
  <2>2. Comes(q, c, e) BY <1>9
  <2>3. InQueue(q, e) BY <2>1, <2>2 DEF NoGap
  <2> QED BY <2>3, <1>9, <1>10
<1>13. ASSUME NoGap(q, c, evs), m.k = "event", NEW e \in evs, c < e, e <= m.of PROVE e = m.of
  <2>1. Comes(q, c, e) BY <1>13 DEF Comes
  <2>2. InQueue(q, e) BY <2>1, <1>1, <1>2, <1>13 DEF NoGap
  <2>3. PICK i \in DOMAIN q : q[i].k = "event" /\ q[i].of = e BY <2>2 DEF InQueue
  <2>4. i = 1 \/ m.of < q[i].of BY <2>3, <1>1, <1>2, <1>4, <1>13 DEF Orderly
  <2> QED BY <2>3, <2>4, <1>1, <1>2, <1>5, <1>13
<1>14. m.k = "event" => m.of \in evs BY <1>1, <1>2, <1>5
<1> QED BY <1>7, <1>8, <1>11, <1>12, <1>13, <1>14 DEF QueueGoesOn, m, d, r

(* A connection breaks: what had been read is a beginning of the queue.    *)
LEMMA QueueCut ==
  ASSUME NEW q \in Seq(MsgType), NEW n \in 0 .. Len(q), NEW evs \in SUBSET Nat, NEW c \in Nat, Orderly(q, evs),
         NEW r, r = SubSeq(q, 1, n), Complete(q, c, evs)
  PROVE  Orderly(r, evs) /\ NoGap(r, c, evs)
<1>1. Len(q) \in Nat /\ DOMAIN q = 1 .. Len(q) /\ DOMAIN r = 1 .. n /\ \A i \in 1 .. n : r[i] = q[i]
  OBVIOUS
<1>2. \A i \in DOMAIN r : i \in DOMAIN q /\ r[i] = q[i] BY <1>1
<1>3. Orderly(r, evs) BY <1>2 DEF Orderly
<1>4. ASSUME NEW e \in evs, Comes(r, c, e), NEW i \in DOMAIN r, r[i].k = "event", e <= r[i].of PROVE InQueue(r, e)
  <2>1. Comes(q, c, e) BY <1>2, <1>4 DEF Comes
  <2>2. PICK j \in DOMAIN q : q[j].k = "event" /\ q[j].of = e BY <2>1 DEF Complete, InQueue
  <2>3. ~(i < j)
    <3>1. i < j => r[i].of < e BY <1>2, <1>4, <2>2 DEF Orderly
    <3>2. r[i].of \in Nat /\ e \in Nat BY <1>3, <1>4 DEF Orderly
    <3> QED BY <3>1, <3>2, <1>4
  <2>4. j \in DOMAIN r /\ r[j] = q[j] BY <1>1, <2>2, <2>3, <1>4
  <2> QED BY <2>2, <2>4 DEF InQueue
<1> QED BY <1>3, <1>4 DEF NoGap

-----------------------------------------------------------------------------
(* The screen. *)

Evs(l, s) == {i \in DOMAIN l : l[i] = s}
OpenOf(ask, s) == {p \in AskedPrompts : ask[p] = "open" /\ PromptOf[p] = s}

(* What the connection has still to say of the events of its session.      *)
WireFits(wr, evs, n) ==
  /\ wr.at \in {"subscribed", "fetched", "live", "ending"} => Orderly(wr.queue, evs)
  /\ wr.at = "subscribed" => Complete(wr.queue, n, evs)
  /\ wr.at = "fetched" => Complete(wr.queue, wr.upto, evs)
  /\ wr.at = "live" => Complete(wr.queue, wr.cursor, evs)
  /\ wr.at = "ending" => NoGap(wr.queue, wr.cursor, evs)
  /\ wr.at # "leaving" => wr.next = wr.on

Switching(acts) == \E i \in DOMAIN acts : Switch(acts[i])
Crosses(wr, acts) == wr.at = "leaving" \/ Switching(acts)
LastSwitch(acts, s) ==
  \E i \in DOMAIN acts : Switch(acts[i]) /\ acts[i].to = s /\ \A j \in DOMAIN acts : j > i => ~Switch(acts[j])
Blank(scr) == scr.last = 0 /\ scr.transcript = << >> /\ scr.prompts = << >>
UpTo(evs, k) == {e \in evs : e <= k}
Shows(scr, wr, evs) ==
  /\ scr.on = wr.on /\ wr.cursor <= scr.last
  /\ scr.transcript = InOrder(UpTo(evs, scr.last))
HeldBy(scr, p) == \E i \in DOMAIN scr.prompts : scr.prompts[i] = p
QueuedIn(q, p) == \E i \in DOMAIN q : q[i] = MsgPrompt(p)
AnsweredIn(acts, p) == \E i \in DOMAIN acts : acts[i] = Act("answer", p)
Waits(scr, wr, acts, open) ==
  wr.at \in {"subscribed", "fetched", "live"} =>
    \A p \in open : HeldBy(scr, p) \/ QueuedIn(wr.queue, p) \/ AnsweredIn(acts, p)

(* The screen and the connection agree, or the person has chosen another   *)
(* session, nothing of which is on the screen yet.                         *)
ScreenFits(wr, scr, acts, evs, open) ==
  /\ wr.at = "leaving" => wr.next # wr.on
  /\ Crosses(wr, acts) => Blank(scr)
  /\ Switching(acts) => LastSwitch(acts, scr.on)
  /\ wr.at = "leaving" /\ ~Switching(acts) => scr.on = wr.next
  /\ ~Crosses(wr, acts) => Shows(scr, wr, evs) /\ Waits(scr, wr, acts, open)

TermFits ==
  /\ WireFits(wire, Evs(logged, wire.on), Len(logged))
  /\ spoiled = {} => ScreenFits(wire, screen, actions, Evs(logged, wire.on), OpenOf(asked, wire.on))
TermInv == TermTypes /\ TermFits

LEMMA EvsAre ==
  ASSUME NEW l \in Seq(Shown), NEW s
  PROVE  /\ Evs(l, s) \in SUBSET (1 .. Len(l)) /\ Evs(l, s) \in SUBSET Nat /\ IsFiniteSet(Evs(l, s)) /\ Len(l) \in Nat
<1>1. Len(l) \in Nat /\ DOMAIN l = 1 .. Len(l) OBVIOUS
<1>2. Evs(l, s) \in SUBSET (1 .. Len(l)) BY <1>1 DEF Evs
<1>3. IsFiniteSet(1 .. Len(l)) BY <1>1, FS_Interval
<1> QED BY <1>1, <1>2, <1>3, FS_Subset

LEMMA InOrderNone == InOrder({}) = << >>
<1>1. Cardinality({}) = 0 BY FS_EmptySet
<1>2. InOrder({}) = [k \in 1 .. 0 |-> CHOOSE e \in {} : Cardinality({f \in {} : f <= e}) = k] BY <1>1 DEF InOrder
<1> QED BY <1>2

LEMMA CrossedIs ==
  ASSUME NEW h \in BOOLEAN, spoiled' = spoiled \cup Crossed(h), spoiled' = {}, actions \in Seq(ActType)
  PROVE  spoiled = {} /\ (h => ~Crosses(wire, actions))
<1>1. spoiled = {} /\ Crossed(h) = {} OBVIOUS
<1>2. "crossed" \notin Crossed(h) BY <1>1
<1>3. ~(h /\ (wire.at = "leaving" \/ \E a \in Range(actions) : Switch(a))) BY <1>2 DEF Crossed
<1>4. Switching(actions) => \E a \in Range(actions) : Switch(a) BY DEF Switching, Range
<1> QED BY <1>1, <1>3, <1>4 DEF Crosses

LEMMA ActsTaken ==
  ASSUME NEW acts \in Seq(ActType), acts # << >>, NEW t, t = Tail(acts), NEW a, a = Head(acts)
  PROVE  /\ t \in Seq(ActType) /\ a \in ActType
         /\ Switching(acts) <=> Switch(a) \/ Switching(t)
         /\ \A s : LastSwitch(acts, s) /\ Switching(t) => LastSwitch(t, s)
         /\ \A s : LastSwitch(acts, s) /\ ~Switching(t) => a.to = s
         /\ \A p : AnsweredIn(acts, p) => a = Act("answer", p) \/ AnsweredIn(t, p)
<1>1. /\ Len(acts) \in Nat \ {0} /\ DOMAIN acts = 1 .. Len(acts) /\ DOMAIN t = 1 .. Len(acts) - 1 /\ a = acts[1]
      /\ \A i \in 1 .. Len(acts) - 1 : t[i] = acts[i + 1]
  OBVIOUS
<1>2. t \in Seq(ActType) /\ a \in ActType BY <1>1
<1>3. 1 \in DOMAIN acts BY <1>1
<1>4. ASSUME NEW i \in DOMAIN t PROVE i + 1 \in DOMAIN acts /\ t[i] = acts[i + 1] BY <1>1
<1>5. ASSUME NEW i \in DOMAIN acts, i # 1 PROVE i - 1 \in DOMAIN t /\ t[i - 1] = acts[i] BY <1>1, <1>5
<1>6. Switching(acts) <=> Switch(a) \/ Switching(t) BY <1>1, <1>3, <1>4, <1>5 DEF Switching
<1>7. ASSUME NEW s, LastSwitch(acts, s), Switching(t) PROVE LastSwitch(t, s)
  <2>1. PICK i \in DOMAIN acts : Switch(acts[i]) /\ acts[i].to = s /\ \A j \in DOMAIN acts : j > i => ~Switch(acts[j])
    BY <1>7 DEF LastSwitch
  <2>2. PICK k \in DOMAIN t : Switch(t[k]) BY <1>7 DEF Switching
  <2>3. ~(k + 1 > i) BY <2>1, <2>2, <1>4
  <2>4. i # 1 BY <2>3, <1>1
  <2>5. i - 1 \in DOMAIN t /\ t[i - 1] = acts[i] BY <2>4, <1>5
  <2>6. ASSUME NEW j \in DOMAIN t, j > i - 1 PROVE ~Switch(t[j])
    <3>1. j + 1 > i BY <2>6, <1>1
    <3> QED BY <3>1, <2>1, <1>4
  <2> QED BY <2>1, <2>5, <2>6 DEF LastSwitch
<1>8. ASSUME NEW s, LastSwitch(acts, s), ~Switching(t) PROVE a.to = s
  <2>1. PICK i \in DOMAIN acts : Switch(acts[i]) /\ acts[i].to = s BY <1>8 DEF LastSwitch
  <2>2. i = 1 BY <2>1, <1>5, <1>8 DEF Switching
  <2> QED BY <2>1, <2>2, <1>1
<1>9. \A p : AnsweredIn(acts, p) => a = Act("answer", p) \/ AnsweredIn(t, p) BY <1>1, <1>5 DEF AnsweredIn
<1> QED BY <1>2, <1>6, <1>7, <1>8, <1>9

LEMMA ActsGrow ==
  ASSUME NEW acts \in Seq(ActType), NEW a \in ActType, NEW r, r = Append(acts, a)
  PROVE  /\ r \in Seq(ActType)
         /\ Switching(r) <=> Switch(a) \/ Switching(acts)
         /\ Switch(a) => LastSwitch(r, a.to)
         /\ \A s : ~Switch(a) /\ LastSwitch(acts, s) => LastSwitch(r, s)
         /\ \A p : AnsweredIn(acts, p) \/ a = Act("answer", p) => AnsweredIn(r, p)
<1>1. /\ Len(acts) \in Nat /\ DOMAIN acts = 1 .. Len(acts) /\ DOMAIN r = 1 .. Len(acts) + 1 /\ r[Len(acts) + 1] = a
      /\ \A i \in 1 .. Len(acts) : r[i] = acts[i]
  OBVIOUS
<1>2. r \in Seq(ActType) OBVIOUS
<1>3. ASSUME NEW i \in DOMAIN r PROVE (i \in DOMAIN acts /\ r[i] = acts[i]) \/ (i = Len(acts) + 1 /\ r[i] = a) BY <1>1
<1>4. \A i \in DOMAIN acts : i \in DOMAIN r /\ r[i] = acts[i] BY <1>1
<1>5. Len(acts) + 1 \in DOMAIN r /\ \A i \in DOMAIN r : ~(i > Len(acts) + 1) BY <1>1
<1>6. Switching(r) <=> Switch(a) \/ Switching(acts) BY <1>1, <1>3, <1>4, <1>5 DEF Switching
<1>7. Switch(a) => LastSwitch(r, a.to) BY <1>1, <1>5 DEF LastSwitch
<1>8. ASSUME NEW s, ~Switch(a), LastSwitch(acts, s) PROVE LastSwitch(r, s)
  <2>1. PICK i \in DOMAIN acts : Switch(acts[i]) /\ acts[i].to = s /\ \A j \in DOMAIN acts : j > i => ~Switch(acts[j])
    BY <1>8 DEF LastSwitch
  <2>2. \A j \in DOMAIN r : j > i => ~Switch(r[j]) BY <2>1, <1>3, <1>8
  <2> QED BY <2>1, <2>2, <1>4 DEF LastSwitch
<1>9. \A p : AnsweredIn(acts, p) \/ a = Act("answer", p) => AnsweredIn(r, p) BY <1>1, <1>4, <1>5 DEF AnsweredIn
<1> QED BY <1>2, <1>6, <1>7, <1>8, <1>9

(* The screen hears of all there is up to some event.                      *)
AllUpTo(evs, ids, last, u) ==
  /\ \A e \in evs : last < e /\ e <= u => e \in ids
  /\ \A e \in ids : e <= u

LEMMA HearsUpTo ==
  ASSUME NEW scr \in ScreenType, NEW evs \in SUBSET Nat, IsFiniteSet(evs), NEW ids \in SUBSET evs, NEW u \in Nat,
         AllUpTo(evs, ids, scr.last, u),
         scr.transcript = InOrder(UpTo(evs, scr.last)),
         NEW r, r = Appended(scr, ids)
  PROVE  /\ r \in ScreenType /\ r.on = scr.on /\ r.prompts = scr.prompts
         /\ r.transcript = InOrder(UpTo(evs, r.last))
         /\ scr.last <= r.last /\ \A e \in ids : e <= r.last
<1> DEFINE new == {i \in ids : i > scr.last}
           S == {e \in evs : e <= scr.last}
<1>1. IsFiniteSet(ids) /\ ids \in SUBSET Nat BY FS_Subset
<1>2. /\ r \in ScreenType /\ r.on = scr.on /\ r.prompts = scr.prompts
      /\ IsFiniteSet(new) /\ r.transcript = scr.transcript \o InOrder(new)
      /\ r.last \in new \cup {scr.last} /\ \A i \in new \cup {scr.last} : i <= r.last
  BY <1>1, AppendedIs
<1>3. scr.last \in Nat /\ r.last \in Nat BY <1>2 DEF ScreenType
<1>4. IsFiniteSet(S) /\ S \in SUBSET Nat /\ new \in SUBSET Nat /\ \A s \in S, t \in new : s < t
  <2>1. S \in SUBSET evs OBVIOUS
  <2>2. \A s \in S, t \in new : s < t BY <1>3
  <2> QED BY <2>1, <2>2, FS_Subset
<1>5. UpTo(evs, r.last) = S \cup new
  <2>1. ASSUME NEW e \in evs, e <= r.last, ~(e <= scr.last) PROVE e \in new
    <3>1. r.last # scr.last BY <2>1
    <3>2. r.last <= u BY <3>1, <1>2 DEF AllUpTo
    <3>3. e <= u /\ scr.last < e BY <3>2, <2>1, <1>3
    <3> QED BY <3>3 DEF AllUpTo
  <2>2. ASSUME NEW e \in S \cup new PROVE e \in evs /\ e <= r.last
    <3>1. scr.last <= r.last BY <1>2
    <3> QED BY <3>1, <1>2, <1>3
  <2> QED BY <2>1, <2>2 DEF UpTo
<1>6. InOrder(S \cup new) = InOrder(S) \o InOrder(new)
  <2> HIDE DEF S, new
  <2> QED BY <1>2, <1>4, InOrderThen
<1>7. \A e \in ids : e <= r.last
  <2> TAKE e \in ids
  <2>1. CASE e > scr.last BY <2>1, <1>2
  <2>2. CASE ~(e > scr.last)
    <3>1. scr.last <= r.last BY <1>2
    <3> QED BY <3>1, <2>2, <1>3
  <2> QED BY <2>1, <2>2
<1>8. S = UpTo(evs, scr.last) BY DEF UpTo
<1> HIDE DEF S, new
<1> QED BY <1>2, <1>5, <1>6, <1>7, <1>8

(* All the requests still open are queued again for a subscriber.          *)
LEMMA AgainIs ==
  ASSUME NEW S, IsFiniteSet(S), NEW f \in SetToSeqs(S)
  PROVE  f \in Seq(S) /\ \A p \in S : \E i \in DOMAIN f : f[i] = p
<1> DEFINE N == Cardinality(S)
<1>1. N \in Nat BY FS_CardinalityType
<1>2. f \in [1 .. N -> S] /\ \A i, j \in 1 .. N : i # j => f[i] # f[j] BY DEF SetToSeqs
<1>3. IsFiniteSet(1..N) /\ Cardinality(1..N) = N BY <1>1, FS_Interval
<1>4. f \in Injection(1..N, S)
  <2>1. IsInjective(f) BY <1>2 DEF IsInjective
  <2> QED BY <1>2, <2>1 DEF Injection
<1>5. f \in Surjection(1..N, S) BY <1>3, <1>4, FS_Injection
<1>6. \A p \in S : \E i \in DOMAIN f : f[i] = p BY <1>2, <1>5 DEF Surjection
<1> QED BY <1>1, <1>2, <1>6

LEMMA QueuedGrows ==
  ASSUME NEW q \in Seq(MsgType), NEW m
  PROVE  \A p : QueuedIn(q, p) \/ m = MsgPrompt(p) => QueuedIn(Append(q, m), p)
<1>1. DOMAIN Append(q, m) = 1 .. Len(q) + 1 /\ Append(q, m)[Len(q) + 1] = m /\ Len(q) \in Nat /\ DOMAIN q = 1 .. Len(q)
      /\ \A i \in 1 .. Len(q) : Append(q, m)[i] = q[i]
  OBVIOUS
<1> QED BY <1>1 DEF QueuedIn

LEMMA QueuedTaken ==
  ASSUME NEW q \in Seq(MsgType), q # << >>
  PROVE  \A p : QueuedIn(q, p) => Head(q) = MsgPrompt(p) \/ QueuedIn(Tail(q), p)
<1>1. Len(q) \in Nat \ {0} /\ DOMAIN q = 1 .. Len(q) /\ DOMAIN Tail(q) = 1 .. Len(q) - 1 /\ Head(q) = q[1]
      /\ \A i \in 1 .. Len(q) - 1 : Tail(q)[i] = q[i + 1]
  OBVIOUS
<1>2. ASSUME NEW i \in DOMAIN q, i # 1 PROVE i - 1 \in DOMAIN Tail(q) /\ Tail(q)[i - 1] = q[i] BY <1>1, <1>2
<1> QED BY <1>1, <1>2 DEF QueuedIn

LEMMA KnownTaken ==
  ASSUME NEW q \in Seq(MsgType), q # << >>, NEW n, Known(q, n)
  PROVE  /\ Tail(q) \in Seq(MsgType) /\ Known(Tail(q), n) /\ Head(q) \in MsgType
         /\ Head(q).k = "event" => Head(q).of \in 1 .. n
<1>1. Len(q) \in Nat \ {0} /\ DOMAIN q = 1 .. Len(q) /\ DOMAIN Tail(q) = 1 .. Len(q) - 1 /\ Head(q) = q[1]
      /\ \A i \in 1 .. Len(q) - 1 : Tail(q)[i] = q[i + 1]
  OBVIOUS
<1>2. Tail(q) \in Seq(MsgType) /\ Head(q) \in MsgType BY <1>1
<1>3. Known(Tail(q), n) BY <1>1 DEF Known
<1>4. 1 \in DOMAIN q BY <1>1
<1> QED BY <1>1, <1>2, <1>3, <1>4 DEF Known

LEMMA WireIs ==
  ASSUME TermTypes
  PROVE  /\ wire.at \in {"dialing", "subscribed", "fetched", "live", "ending", "leaving"}
         /\ wire.on \in Shown /\ wire.next \in Shown /\ wire.cursor \in Nat /\ wire.upto \in Nat
         /\ wire.queue \in Seq(MsgType) /\ wire.busy \in BOOLEAN /\ Len(logged) \in Nat
         /\ screen.on \in Shown /\ screen.last \in Nat /\ screen.prompts \in Seq(AskedPrompts)
         /\ wire.cursor <= Len(logged) /\ wire.upto <= Len(logged) /\ screen.last <= Len(logged)
         /\ actions \in Seq(ActType)
<1>1. logged \in Seq(Shown) BY DEF TermTypes
<1>2. Len(logged) \in Nat BY <1>1
<1> QED BY <1>2 DEF TermTypes, WireType, ScreenType

-----------------------------------------------------------------------------
(* The steps. *)

LEMMA LogsFits == ASSUME TermInv, NEW s \in Shown, SessionLogs(s) PROVE TermInv'
<1> DEFINE n == Len(logged)
           evs == Evs(logged, wire.on)
           m == MsgEvent(n + 1)
<1>1. /\ logged' = Append(logged, s) /\ Deliver(s, MsgEvent(Len(logged')))
      /\ UNCHANGED <<asked, stray, screen, actions, archived, broken, typed, spoiled>>
  BY DEF SessionLogs
<1>2. TermTypes /\ logged \in Seq(Shown) BY DEF TermInv, TermTypes
<1>3. logged' \in Seq(Shown) /\ Len(logged') = n + 1 /\ n \in Nat BY <1>1, <1>2
<1>4. m \in MsgType /\ m.k = "event" /\ m.of = n + 1 BY <1>3 DEF MsgEvent, MsgType
<1>5. /\ wire' \in WireType /\ Known(wire'.queue, n + 1) /\ wire'.cursor <= n + 1 /\ wire'.upto <= n + 1
      /\ wire'.at = wire.at /\ wire'.on = wire.on /\ wire'.next = wire.next
      /\ wire'.cursor = wire.cursor /\ wire'.upto = wire.upto
      /\ wire'.queue = IF wire.at \in {"subscribed", "fetched", "live"} /\ wire.on = s THEN Append(wire.queue, m) ELSE wire.queue
  <2>1. Deliver(s, m) BY <1>1, <1>3
  <2>2. n + 1 \in Nat /\ Len(logged) <= n + 1 /\ m.of \in 1 .. n + 1 BY <1>3, <1>4
  <2> HIDE DEF m
  <2> QED BY <1>2, <1>4, <2>1, <2>2, DeliverTypes
<1>6. screen.last <= n BY <1>2, WireIs
<1>7. TermTypes'
  <2>1. screen.last <= n + 1 BY <1>6, <1>2, <1>3, WireIs
  <2> QED BY <1>1, <1>2, <1>3, <1>5, <2>1 DEF TermTypes
<1>8. Evs(logged', wire'.on) = IF s = wire.on THEN evs \cup {n + 1} ELSE evs
  <2>1. DOMAIN logged = 1 .. n /\ DOMAIN logged' = 1 .. n + 1 /\ logged'[n + 1] = s /\ \A i \in 1 .. n : logged'[i] = logged[i]
    BY <1>1, <1>2, <1>3
  <2>2. 1 .. n + 1 = (1 .. n) \cup {n + 1} BY <1>3
  <2> QED BY <2>1, <2>2, <1>5 DEF Evs
<1>9. evs \in SUBSET (1 .. n) /\ evs \in SUBSET Nat BY <1>2, EvsAre
<1>10. WireFits(wire, evs, n) BY DEF TermInv, TermFits
<1>11. wire.queue \in Seq(MsgType) /\ wire.cursor \in Nat /\ wire.upto \in Nat BY <1>2, WireIs
<1> HIDE DEF n, evs
<1>12. WireFits(wire', Evs(logged', wire'.on), n + 1)
  <2>1. CASE s # wire.on
    <3>1. wire'.queue = wire.queue /\ Evs(logged', wire'.on) = evs BY <2>1, <1>5, <1>8
    <3>2. wire.at = "subscribed" => Complete(wire.queue, n + 1, evs)
      BY <1>3, <1>9, <1>10, <1>11, QueueStays DEF WireFits
    <3> QED BY <3>1, <3>2, <1>5, <1>10 DEF WireFits
  <2>2. CASE s = wire.on /\ wire.at \in {"subscribed", "fetched", "live"}
    <3>1. wire'.queue = Append(wire.queue, m) /\ Evs(logged', wire'.on) = evs \cup {n + 1} BY <2>2, <1>5, <1>8
    <3>2. Orderly(wire.queue, evs) BY <2>2, <1>10 DEF WireFits
    <3>3. /\ Orderly(wire'.queue, evs \cup {n + 1})
          /\ \A c \in Nat : Complete(wire.queue, c, evs) => Complete(wire'.queue, c, evs \cup {n + 1})
          /\ Complete(wire.queue, n, evs) => Complete(wire'.queue, n + 1, evs \cup {n + 1})
      BY <3>1, <3>2, <1>3, <1>9, <1>11, QueueEvent
    <3> QED BY <3>1, <3>3, <2>2, <1>5, <1>10, <1>11 DEF WireFits
  <2>3. CASE s = wire.on /\ wire.at \notin {"subscribed", "fetched", "live"}
    <3>1. wire'.queue = wire.queue /\ Evs(logged', wire'.on) = evs \cup {n + 1} BY <2>3, <1>5, <1>8
    <3>2. wire.at = "ending" => Orderly(wire.queue, evs \cup {n + 1}) /\ NoGap(wire.queue, wire.cursor, evs \cup {n + 1})
      BY <1>3, <1>9, <1>10, <1>11, QueueStays DEF WireFits
    <3> QED BY <3>1, <3>2, <2>3, <1>5, <1>10 DEF WireFits
  <2> QED BY <2>1, <2>2, <2>3
<1>13. ASSUME spoiled' = {} PROVE ScreenFits(wire', screen', actions', Evs(logged', wire'.on), OpenOf(asked', wire'.on))
  <2>1. ScreenFits(wire, screen, actions, evs, OpenOf(asked, wire.on)) BY <1>1, <1>13 DEF TermInv, TermFits, evs
  <2>2. screen' = screen /\ actions' = actions /\ asked' = asked BY <1>1
  <2>3. UpTo(Evs(logged', wire'.on), screen.last) = UpTo(evs, screen.last)
    <3>1. ~(n + 1 <= screen.last) BY <1>3, <1>6, <1>2, WireIs DEF n
    <3> QED BY <3>1, <1>8 DEF UpTo
  <2>4. Shows(screen, wire, evs) => Shows(screen', wire', Evs(logged', wire'.on)) BY <2>2, <2>3, <1>5 DEF Shows
  <2>5. \A p : QueuedIn(wire.queue, p) => QueuedIn(wire'.queue, p) BY <1>5, <1>11, QueuedGrows
  <2>6. OpenOf(asked', wire'.on) = OpenOf(asked, wire.on) BY <2>2, <1>5
  <2>7. Waits(screen, wire, actions, OpenOf(asked, wire.on)) => Waits(screen', wire', actions', OpenOf(asked', wire'.on))
    BY <2>2, <2>5, <2>6, <1>5 DEF Waits
  <2>8. Crosses(wire', actions') <=> Crosses(wire, actions) BY <2>2, <1>5 DEF Crosses
  <2> QED BY <2>1, <2>2, <2>4, <2>7, <2>8, <1>5 DEF ScreenFits
<1> QED BY <1>3, <1>7, <1>12, <1>13 DEF TermInv, TermFits

LEMMA AsksFits == ASSUME TermInv, NEW p \in AskedPrompts, DaemonAsks(p) PROVE TermInv'
<1> DEFINE n == Len(logged)
           evs == Evs(logged, wire.on)
           m == MsgPrompt(p)
<1>1. /\ asked' = [asked EXCEPT ![p] = "open"] /\ Deliver(PromptOf[p], m)
      /\ UNCHANGED <<logged, stray, screen, actions, archived, broken, typed, spoiled>>
  BY DEF DaemonAsks
<1>2. TermTypes /\ asked \in [AskedPrompts -> {"new", "open", "closed"}] /\ n \in Nat /\ n <= n
  <2>1. TermTypes BY DEF TermInv
  <2>2. n \in Nat BY <2>1, WireIs
  <2> QED BY <2>1, <2>2 DEF TermTypes
<1>3. m \in MsgType /\ m.k = "prompt" BY DEF MsgPrompt, MsgType
<1>4. /\ wire' \in WireType /\ Known(wire'.queue, n) /\ wire'.cursor <= n /\ wire'.upto <= n
      /\ wire'.at = wire.at /\ wire'.on = wire.on /\ wire'.next = wire.next
      /\ wire'.cursor = wire.cursor /\ wire'.upto = wire.upto
      /\ wire'.queue = IF wire.at \in {"subscribed", "fetched", "live"} /\ wire.on = PromptOf[p] THEN Append(wire.queue, m) ELSE wire.queue
  <2>1. m.k # "event" BY <1>3
  <2> HIDE DEF m
  <2> QED BY <1>1, <1>2, <1>3, <2>1, DeliverTypes
<1>5. TermTypes' BY <1>1, <1>2, <1>4 DEF TermTypes
<1>6. WireFits(wire, evs, n) /\ Evs(logged', wire'.on) = evs BY <1>1, <1>4 DEF TermInv, TermFits
<1>7. wire.queue \in Seq(MsgType) BY <1>2, WireIs
<1> HIDE DEF n, evs
<1>8. WireFits(wire', evs, n)
  <2>1. CASE wire'.queue = wire.queue BY <2>1, <1>4, <1>6 DEF WireFits
  <2>2. CASE wire'.queue # wire.queue
    <3>1. wire'.queue = Append(wire.queue, m) BY <2>2, <1>4
    <3>2. (Orderly(wire.queue, evs) => Orderly(wire'.queue, evs))
          /\ \A c : Complete(wire.queue, c, evs) => Complete(wire'.queue, c, evs)
      BY <3>1, <1>3, <1>7, QueuePrompt
    <3>3. wire.at # "ending" BY <2>2, <1>4
    <3> QED BY <3>2, <3>3, <1>4, <1>6 DEF WireFits
  <2> QED BY <2>1, <2>2
<1>9. ASSUME spoiled' = {} PROVE ScreenFits(wire', screen', actions', evs, OpenOf(asked', wire'.on))
  <2>1. ScreenFits(wire, screen, actions, evs, OpenOf(asked, wire.on)) BY <1>1, <1>9 DEF TermInv, TermFits, evs
  <2>2. screen' = screen /\ actions' = actions BY <1>1
  <2>3. Shows(screen, wire, evs) => Shows(screen', wire', evs) BY <2>2, <1>4 DEF Shows
  <2>4. \A x : QueuedIn(wire.queue, x) => QueuedIn(wire'.queue, x) BY <1>4, <1>7, QueuedGrows
  <2>5. wire.at \in {"subscribed", "fetched", "live"} /\ wire.on = PromptOf[p] => QueuedIn(wire'.queue, p)
    BY <1>4, <1>7, QueuedGrows
  <2>6. ASSUME NEW x \in OpenOf(asked', wire'.on) PROVE x \in OpenOf(asked, wire.on) \/ (x = p /\ wire.on = PromptOf[p])
    <3>1. x \in AskedPrompts /\ asked'[x] = "open" /\ PromptOf[x] = wire.on BY <1>4 DEF OpenOf
    <3>2. x # p => asked'[x] = asked[x] BY <1>1, <1>2, <3>1
    <3> QED BY <3>1, <3>2 DEF OpenOf
  <2>7. Waits(screen, wire, actions, OpenOf(asked, wire.on)) => Waits(screen', wire', actions', OpenOf(asked', wire'.on))
    BY <2>2, <2>4, <2>5, <2>6, <1>4 DEF Waits
  <2>8. Crosses(wire', actions') <=> Crosses(wire, actions) BY <2>2, <1>4 DEF Crosses
  <2> QED BY <2>1, <2>2, <2>3, <2>7, <2>8, <1>4 DEF ScreenFits
<1> QED BY <1>1, <1>5, <1>6, <1>8, <1>9 DEF TermInv, TermFits, n

(* What the daemon holds, the screen and the connection are left as they are, *)
(* but for actions that say nothing of a session and requests that close.  *)
LEMMA FitsStill ==
  ASSUME NEW wr, NEW v, v.at = wr.at, v.on = wr.on, v.next = wr.next, v.cursor = wr.cursor, v.queue = wr.queue,
         NEW scr, NEW acts, NEW t, NEW evs, NEW open, NEW left, ScreenFits(wr, scr, acts, evs, open),
         Switching(t) <=> Switching(acts),
         \A s : Switching(t) /\ LastSwitch(acts, s) => LastSwitch(t, s),
         \A p \in left : p \in open
           /\ (wr.at \in {"subscribed", "fetched", "live"} /\ AnsweredIn(acts, p) => AnsweredIn(t, p))
  PROVE  ScreenFits(v, scr, t, evs, left)
<1>1. Crosses(v, t) <=> Crosses(wr, acts) BY DEF Crosses
<1>2. Shows(scr, wr, evs) => Shows(scr, v, evs) BY DEF Shows
<1>3. Waits(scr, wr, acts, open) => Waits(scr, v, t, left) BY DEF Waits
<1> QED BY <1>1, <1>2, <1>3 DEF ScreenFits

LEMMA WireStill ==
  ASSUME NEW wr, NEW v, v.at = wr.at, v.on = wr.on, v.next = wr.next, v.cursor = wr.cursor, v.queue = wr.queue,
         v.upto = wr.upto, NEW evs, NEW n, WireFits(wr, evs, n)
  PROVE  WireFits(v, evs, n)
BY DEF WireFits

(* What an invariant says of this state, in the words of the lemmas.       *)
LEMMA InvGives ==
  ASSUME TermInv
  PROVE  /\ TermTypes /\ WireFits(wire, Evs(logged, wire.on), Len(logged))
         /\ spoiled = {} => ScreenFits(wire, screen, actions, Evs(logged, wire.on), OpenOf(asked, wire.on))
         /\ \A s : EventsOf(s) = Evs(logged, s) /\ StillOpen(s) = OpenOf(asked, s)
BY DEF TermInv, TermFits, EventsOf, StillOpen, Evs, OpenOf

LEMMA SubscribesFits == ASSUME TermInv, Subscribes PROVE TermInv'
<1> DEFINE n == Len(logged)
           evs == Evs(logged, wire.on)
           open == OpenOf(asked, wire.on)
<1>1. PICK again \in SetToSeqs(StillOpen(wire.on)) :
        wire' = [wire EXCEPT !.at = "subscribed", !.queue = [i \in DOMAIN again |-> MsgPrompt(again[i])]]
  BY DEF Subscribes
<1>2. wire.at = "dialing" /\ UNCHANGED <<logged, asked, stray, screen, actions, archived, broken, typed, spoiled>>
  BY DEF Subscribes
<1> DEFINE q == [i \in DOMAIN again |-> MsgPrompt(again[i])]
<1>3. /\ TermTypes /\ WireFits(wire, evs, n) /\ StillOpen(wire.on) = open
      /\ spoiled = {} => ScreenFits(wire, screen, actions, evs, open)
  BY InvGives
<1>4. open \in SUBSET AskedPrompts /\ IsFiniteSet(open)
  <2>1. open \in SUBSET AskedPrompts BY DEF OpenOf
  <2> HIDE DEF open
  <2> QED BY <2>1, TerminalAssumption, FS_Subset
<1>5. again \in Seq(open) /\ \A p \in open : \E i \in DOMAIN again : again[i] = p
  <2> HIDE DEF open
  <2> QED BY <1>3, <1>4, AgainIs
<1>6. q \in Seq(MsgType) /\ DOMAIN q = DOMAIN again /\ \A i \in DOMAIN q : q[i] = MsgPrompt(again[i]) /\ q[i].k = "prompt"
  <2>1. Len(again) \in Nat /\ DOMAIN again = 1 .. Len(again) BY <1>5
  <2>2. ASSUME NEW i \in DOMAIN again PROVE MsgPrompt(again[i]) \in MsgType /\ MsgPrompt(again[i]).k = "prompt"
    <3>1. again[i] \in AskedPrompts BY <1>4, <1>5
    <3> QED BY <3>1 DEF MsgPrompt, MsgType
  <2> QED BY <2>1, <2>2
<1>7. \A p \in open : QueuedIn(q, p) BY <1>5, <1>6 DEF QueuedIn
<1> HIDE DEF q, n, evs, open
<1>8. /\ wire'.at = "subscribed" /\ wire'.queue = q /\ wire'.on = wire.on /\ wire'.next = wire.next
      /\ wire'.cursor = wire.cursor /\ wire'.upto = wire.upto /\ wire' \in WireType
  <2>1. wire \in WireType BY <1>3 DEF TermTypes
  <2>2. wire' = [wire EXCEPT !.at = "subscribed", !.queue = q] BY <1>1 DEF q
  <2> QED BY <2>1, <2>2, <1>6 DEF WireType
<1>9. Known(q, n) /\ Orderly(q, evs) BY <1>6 DEF Known, Orderly
<1>10. Complete(q, n, evs)
  <2>1. ASSUME NEW e \in evs PROVE ~Comes(q, n, e)
    <3>1. e \in 1 .. n /\ n \in Nat
      <4>1. logged \in Seq(Shown) BY <1>3 DEF TermTypes
      <4> QED BY <4>1, EvsAre DEF evs, n
    <3>2. ~(e > n) BY <3>1
    <3> QED BY <3>2, <1>6 DEF Comes
  <2> QED BY <2>1 DEF Complete
<1>11. TermTypes'
  <2>1. Known(wire'.queue, Len(logged')) BY <1>2, <1>8, <1>9 DEF n
  <2> QED BY <2>1, <1>2, <1>3, <1>8 DEF TermTypes
<1>12. wire.next = wire.on BY <1>2, <1>3 DEF WireFits
<1>13. WireFits(wire', evs, n) BY <1>8, <1>9, <1>10, <1>12 DEF WireFits
<1>14. ASSUME spoiled' = {} PROVE ScreenFits(wire', screen, actions, evs, open)
  <2>1. ScreenFits(wire, screen, actions, evs, open) BY <1>2, <1>3, <1>14
  <2>2. Crosses(wire', actions) <=> Crosses(wire, actions) BY <1>2, <1>8 DEF Crosses
  <2>3. Shows(screen, wire, evs) => Shows(screen, wire', evs) BY <1>8 DEF Shows
  <2>4. Waits(screen, wire', actions, open) BY <1>7, <1>8 DEF Waits
  <2> QED BY <2>1, <2>2, <2>3, <2>4, <1>8 DEF ScreenFits
<1>15. evs = Evs(logged', wire'.on) /\ n = Len(logged') /\ open = OpenOf(asked', wire'.on) /\ screen' = screen
       /\ actions' = actions
  BY <1>2, <1>8 DEF evs, n, open
<1> QED BY <1>11, <1>13, <1>14, <1>15 DEF TermInv, TermFits

LEMMA FetchesFits == ASSUME TermInv, Fetches PROVE TermInv'
<1> DEFINE n == Len(logged)
           evs == Evs(logged, wire.on)
           open == OpenOf(asked, wire.on)
<1>1. /\ wire.at = "subscribed" /\ wire' = [wire EXCEPT !.at = "fetched", !.upto = n]
      /\ UNCHANGED <<logged, asked, stray, screen, actions, archived, broken, typed, spoiled>>
  BY DEF Fetches
<1>2. /\ TermTypes /\ WireFits(wire, evs, n)
      /\ spoiled = {} => ScreenFits(wire, screen, actions, evs, open)
  BY InvGives
<1>3. n \in Nat /\ n <= n
  <2>1. n \in Nat BY <1>2, WireIs
  <2> HIDE DEF n
  <2> QED BY <2>1
<1> HIDE DEF n, evs, open
<1>4. /\ wire'.at = "fetched" /\ wire'.queue = wire.queue /\ wire'.on = wire.on /\ wire'.next = wire.next
      /\ wire'.cursor = wire.cursor /\ wire'.upto = n /\ wire' \in WireType
  <2>1. wire \in WireType BY <1>2 DEF TermTypes
  <2> QED BY <2>1, <1>1, <1>3 DEF WireType
<1>5. evs = Evs(logged', wire'.on) /\ n = Len(logged') /\ open = OpenOf(asked', wire'.on) /\ screen' = screen
      /\ actions' = actions
  BY <1>1, <1>4 DEF evs, n, open
<1>6. TermTypes'
  <2>1. wire'.upto <= Len(logged') BY <1>3, <1>4, <1>5
  <2> QED BY <2>1, <1>1, <1>2, <1>4 DEF TermTypes
<1>7. WireFits(wire', evs, n) BY <1>1, <1>2, <1>4 DEF WireFits
<1>8. ASSUME spoiled' = {} PROVE ScreenFits(wire', screen, actions, evs, open)
  <2>1. ScreenFits(wire, screen, actions, evs, open) BY <1>1, <1>2, <1>8
  <2>2. Crosses(wire', actions) <=> Crosses(wire, actions) BY <1>1, <1>4 DEF Crosses
  <2>3. Shows(screen, wire, evs) => Shows(screen, wire', evs) BY <1>4 DEF Shows
  <2>4. Waits(screen, wire, actions, open) => Waits(screen, wire', actions, open) BY <1>1, <1>4 DEF Waits
  <2> QED BY <2>1, <2>2, <2>3, <2>4, <1>4 DEF ScreenFits
<1> QED BY <1>5, <1>6, <1>7, <1>8 DEF TermInv, TermFits

LEMMA CatchUpFits == ASSUME TermInv, CatchUp PROVE TermInv'
<1> DEFINE n == Len(logged)
           evs == Evs(logged, wire.on)
           open == OpenOf(asked, wire.on)
           ids == Fetched
           c == Max(Fetched \cup {wire.cursor})
<1>1. /\ wire.at = "fetched" /\ screen' = Appended(screen, Fetched)
      /\ wire' = [wire EXCEPT !.at = "live", !.upto = 0, !.cursor = c]
      /\ spoiled' = spoiled \cup Crossed(Fetched # {})
      /\ UNCHANGED <<logged, asked, stray, actions, archived, broken, typed>>
  BY DEF CatchUp
<1>2. /\ TermTypes /\ WireFits(wire, evs, n) /\ EventsOf(wire.on) = evs
      /\ spoiled = {} => ScreenFits(wire, screen, actions, evs, open)
  BY InvGives
<1>3. evs \in SUBSET (1 .. n) /\ evs \in SUBSET Nat /\ IsFiniteSet(evs) /\ n \in Nat
  <2>1. logged \in Seq(Shown) BY <1>2 DEF TermTypes
  <2> QED BY <2>1, EvsAre
<1>4. /\ wire.cursor \in Nat /\ wire.upto \in Nat /\ wire.cursor <= n /\ wire.upto <= n /\ screen \in ScreenType
      /\ wire.queue \in Seq(MsgType) /\ screen.last \in Nat /\ screen.last <= n /\ actions \in Seq(ActType)
      /\ wire \in WireType
  BY <1>2, WireIs DEF TermTypes
<1> HIDE DEF n, evs, open
<1>5. ids = {i \in evs : wire.cursor < i /\ i <= wire.upto} BY <1>2 DEF Fetched
<1>6. ids \in SUBSET evs /\ IsFiniteSet(ids) /\ ids \in SUBSET Nat
  <2>1. ids \in SUBSET evs BY <1>5
  <2> HIDE DEF ids
  <2> QED BY <2>1, <1>3, FS_Subset
<1>7. c \in ids \cup {wire.cursor} /\ \A i \in ids \cup {wire.cursor} : i <= c
  <2> DEFINE T == ids \cup {wire.cursor}
  <2> HIDE DEF ids
  <2>1. T \in SUBSET Nat /\ IsFiniteSet(T) /\ T # {} BY <1>4, <1>6, FS_AddElement
  <2> HIDE DEF T
  <2>2. Max(T) \in T /\ \A i \in T : i <= Max(T) BY <2>1, GreatestIs
  <2> QED BY <2>2 DEF T, ids
<1> HIDE DEF ids, c
<1>8. c \in Nat /\ c <= n
  <2>1. CASE c \in ids BY <2>1, <1>3, <1>6
  <2>2. CASE c = wire.cursor BY <2>2, <1>4
  <2> QED BY <2>1, <2>2, <1>7
<1>9. /\ wire'.at = "live" /\ wire'.queue = wire.queue /\ wire'.on = wire.on /\ wire'.next = wire.next
      /\ wire'.cursor = c /\ wire'.upto = 0 /\ wire' \in WireType
  BY <1>1, <1>4, <1>8 DEF WireType
<1>10. screen' = Appended(screen, ids) BY <1>1 DEF ids
<1>11. LET new == {i \in ids : i > screen.last}
       IN  /\ screen' \in ScreenType /\ screen'.on = screen.on /\ screen'.prompts = screen.prompts
           /\ IsFiniteSet(new) /\ screen'.transcript = screen.transcript \o InOrder(new)
           /\ screen'.last \in new \cup {screen.last} /\ \A i \in new \cup {screen.last} : i <= screen'.last
  BY <1>4, <1>6, <1>10, AppendedIs
<1>12. screen'.last <= n
  <2>1. CASE screen'.last \in ids
    <3>1. screen'.last \in 1 .. n BY <2>1, <1>3, <1>6
    <3> QED BY <3>1, <1>3
  <2>2. CASE screen'.last = screen.last BY <2>2, <1>4
  <2> QED BY <2>1, <2>2, <1>11
<1>13. evs = Evs(logged', wire'.on) /\ n = Len(logged') /\ open = OpenOf(asked', wire'.on) /\ actions' = actions
  BY <1>1, <1>9 DEF evs, n, open
<1>14. TermTypes'
  <2>1. spoiled' \subseteq {"crossed", "robbed", "rejoined", "unrestored"} BY <1>1, <1>2 DEF TermTypes, Crossed
  <2>2. wire'.cursor <= Len(logged') /\ wire'.upto <= Len(logged') /\ screen'.last <= Len(logged')
    BY <1>3, <1>8, <1>9, <1>12, <1>13
  <2>3. Known(wire'.queue, Len(logged')) BY <1>1, <1>2, <1>9 DEF TermTypes
  <2> QED BY <2>1, <2>2, <2>3, <1>1, <1>2, <1>9, <1>11 DEF TermTypes
<1>15. WireFits(wire', evs, n)
  <2>1. Orderly(wire.queue, evs) /\ Complete(wire.queue, wire.upto, evs) /\ wire.next = wire.on
    BY <1>1, <1>2 DEF WireFits
  <2>2. ASSUME NEW e \in evs, Comes(wire.queue, c, e) PROVE Comes(wire.queue, wire.upto, e)
    <3>1. CASE e > c
      <4>1. e \notin ids /\ e \in Nat /\ wire.cursor <= c
        <5>1. e \in ids => e <= c BY <1>7
        <5>2. e \in Nat BY <1>3
        <5>3. wire.cursor <= c BY <1>7
        <5> QED BY <5>1, <5>2, <5>3, <3>1, <1>8
      <4>2. e > wire.upto BY <4>1, <3>1, <1>4, <1>5, <1>8
      <4> QED BY <4>2 DEF Comes
    <3>2. CASE ~(e > c) BY <2>2, <3>2 DEF Comes
    <3> QED BY <3>1, <3>2
  <2>3. Complete(wire.queue, c, evs) BY <2>1, <2>2 DEF Complete
  <2> QED BY <2>1, <2>3, <1>9 DEF WireFits
<1>16. ASSUME spoiled' = {} PROVE ScreenFits(wire', screen', actions, evs, open)
  <2>1. spoiled = {} /\ (ids # {} => ~Crosses(wire, actions))
    <3>1. (Fetched # {}) \in BOOLEAN OBVIOUS
    <3>2. spoiled = {} /\ (Fetched # {} => ~Crosses(wire, actions)) BY <3>1, <1>1, <1>4, <1>16, CrossedIs
    <3> QED BY <3>2 DEF ids
  <2>2. ScreenFits(wire, screen, actions, evs, open) BY <2>1, <1>2
  <2>3. Crosses(wire', actions) <=> Crosses(wire, actions) BY <1>1, <1>9 DEF Crosses
  <2>4. Waits(screen, wire, actions, open) => Waits(screen', wire', actions, open)
    BY <1>1, <1>9, <1>11 DEF Waits, HeldBy
  <2>5. CASE Crosses(wire, actions)
    <3>1. Blank(screen) /\ ids = {} BY <2>1, <2>2, <2>5 DEF ScreenFits
    <3>2. {i \in ids : i > screen.last} = {} BY <3>1
    <3>3. screen'.transcript = << >> \o << >> /\ screen'.last = screen.last
      BY <3>1, <3>2, <1>11, InOrderNone DEF Blank
    <3>4. Blank(screen') BY <3>1, <3>3, <1>11 DEF Blank
    <3> QED BY <3>4, <2>2, <2>3, <2>5, <1>9, <1>11 DEF ScreenFits
  <2>6. CASE ~Crosses(wire, actions)
    <3>1. screen.on = wire.on /\ wire.cursor <= screen.last /\ screen.transcript = InOrder(UpTo(evs, screen.last))
      BY <2>2, <2>6 DEF ScreenFits, Shows
    <3>2. \A e \in evs : screen.last < e /\ e <= wire.upto => e \in ids
      <4> TAKE e \in evs
      <4> HAVE screen.last < e /\ e <= wire.upto
      <4>1. wire.cursor < e BY <3>1, <1>3, <1>4
      <4> QED BY <4>1, <1>5
    <3>3. \A e \in ids : e <= wire.upto BY <1>5
    <3>4. /\ screen'.transcript = InOrder(UpTo(evs, screen'.last))
          /\ screen.last <= screen'.last /\ \A e \in ids : e <= screen'.last
      <4>1. AllUpTo(evs, ids, screen.last, wire.upto) BY <3>2, <3>3 DEF AllUpTo
      <4>2. screen \in ScreenType /\ wire.upto \in Nat BY <1>4
      <4>3. evs \in SUBSET Nat /\ IsFiniteSet(evs) /\ ids \in SUBSET evs BY <1>3, <1>6
      <4> QED BY <3>1, <4>1, <4>2, <4>3, <1>10, HearsUpTo
    <3>5. c <= screen'.last
      <4>1. CASE c \in ids BY <4>1, <3>4
      <4>2. CASE c = wire.cursor
        <5>1. screen'.last \in Nat BY <1>11 DEF ScreenType
        <5> QED BY <5>1, <4>2, <3>1, <3>4, <1>4
      <4> QED BY <4>1, <4>2, <1>7
    <3>6. Shows(screen', wire', evs) BY <3>1, <3>4, <3>5, <1>9, <1>11 DEF Shows
    <3> QED BY <3>6, <2>2, <2>3, <2>4, <2>6, <1>9, <1>11 DEF ScreenFits
  <2> QED BY <2>5, <2>6
<1> QED BY <1>13, <1>14, <1>15, <1>16 DEF TermInv, TermFits

LEMMA StreamsFits == ASSUME TermInv, Streams PROVE TermInv'
<1> DEFINE n == Len(logged)
           evs == Evs(logged, wire.on)
           open == OpenOf(asked, wire.on)
           m == Head(wire.queue)
           d == Past(m, wire.cursor)
<1>1. /\ wire.at \in {"live", "ending", "leaving"} /\ wire.queue # << >>
      /\ screen' = IF m.k = "event" THEN Appended(screen, {m.of}) ELSE Enqueued(screen, m.of)
      /\ wire' = [wire EXCEPT !.queue = Tail(@), !.cursor = IF m.k = "event" THEN m.of ELSE @]
      /\ spoiled' = spoiled \cup Crossed(TRUE)
      /\ UNCHANGED <<logged, asked, stray, actions, archived, broken, typed>>
  BY DEF Streams
<1>2. /\ TermTypes /\ WireFits(wire, evs, n)
      /\ spoiled = {} => ScreenFits(wire, screen, actions, evs, open)
  BY InvGives
<1>3. evs \in SUBSET (1 .. n) /\ evs \in SUBSET Nat /\ IsFiniteSet(evs) /\ n \in Nat
  <2>1. logged \in Seq(Shown) BY <1>2 DEF TermTypes
  <2> QED BY <2>1, EvsAre
<1>4. /\ wire.cursor \in Nat /\ wire.upto \in Nat /\ wire.cursor <= n /\ wire.upto <= n /\ screen \in ScreenType
      /\ wire.queue \in Seq(MsgType) /\ screen.last \in Nat /\ screen.last <= n /\ actions \in Seq(ActType)
      /\ wire \in WireType /\ Known(wire.queue, n)
  BY <1>2, WireIs DEF TermTypes
<1> HIDE DEF n, evs, open
<1>5. /\ Tail(wire.queue) \in Seq(MsgType) /\ Known(Tail(wire.queue), n) /\ m \in MsgType
      /\ m.k = "event" => m.of \in 1 .. n
  BY <1>1, <1>4, KnownTaken
<1>6. (m.k = "event" \/ m.k = "prompt") /\ (m.k = "prompt" => m.of \in AskedPrompts) BY <1>5 DEF MsgType
<1>7. d \in Nat /\ d <= n BY <1>3, <1>4, <1>5 DEF Past
<1>8. /\ wire'.at = wire.at /\ wire'.queue = Tail(wire.queue) /\ wire'.on = wire.on /\ wire'.next = wire.next
      /\ wire'.cursor = d /\ wire'.upto = wire.upto /\ wire' \in WireType
  <2>1. wire' = [wire EXCEPT !.queue = Tail(wire.queue), !.cursor = d] BY <1>1 DEF Past
  <2> HIDE DEF d, m
  <2> QED BY <2>1, <1>4, <1>5, <1>7 DEF WireType
<1> HIDE DEF d
<1>9. screen' \in ScreenType /\ screen'.on = screen.on /\ screen'.last <= n
  <2>1. CASE m.k = "event"
    <3>1. m.of \in 1 .. n /\ m.of \in Nat BY <2>1, <1>5
    <3>2. IsFiniteSet({m.of}) /\ {m.of} \in SUBSET Nat BY <3>1, FS_Singleton
    <3>3. screen' = Appended(screen, {m.of}) BY <1>1, <2>1
    <3>4. screen' \in ScreenType /\ screen'.on = screen.on /\ screen'.last \in {i \in {m.of} : i > screen.last} \cup {screen.last}
      BY <3>2, <3>3, <1>4, AppendedIs
    <3> QED BY <3>1, <3>4, <1>3, <1>4
  <2>2. CASE m.k = "prompt"
    <3>1. screen' = Enqueued(screen, m.of) BY <1>1, <2>2
    <3> QED BY <3>1, <2>2, <1>4, <1>6, EnqueuedIs
  <2> QED BY <2>1, <2>2, <1>6
<1>10. evs = Evs(logged', wire'.on) /\ n = Len(logged') /\ open = OpenOf(asked', wire'.on) /\ actions' = actions
  BY <1>1, <1>8 DEF evs, n, open
<1>11. TermTypes'
  <2>1. spoiled' \subseteq {"crossed", "robbed", "rejoined", "unrestored"} BY <1>1, <1>2 DEF TermTypes, Crossed
  <2>2. wire'.cursor <= Len(logged') /\ wire'.upto <= Len(logged') /\ screen'.last <= Len(logged')
    BY <1>4, <1>7, <1>8, <1>9, <1>10
  <2>3. Known(wire'.queue, Len(logged')) BY <1>5, <1>8, <1>10
  <2> QED BY <2>1, <2>2, <2>3, <1>1, <1>2, <1>8, <1>9 DEF TermTypes
<1>12. wire.at # "leaving" =>
         /\ Orderly(Tail(wire.queue), evs) /\ NoGap(wire.queue, wire.cursor, evs)
         /\ Complete(wire.queue, wire.cursor, evs) => Complete(Tail(wire.queue), d, evs)
         /\ NoGap(wire.queue, wire.cursor, evs) => NoGap(Tail(wire.queue), d, evs)
         /\ m.k = "event" => m.of \in evs /\ \A e \in evs : wire.cursor < e /\ e <= m.of => e = m.of
  <2> SUFFICES ASSUME wire.at # "leaving" PROVE
         /\ Orderly(Tail(wire.queue), evs) /\ NoGap(wire.queue, wire.cursor, evs)
         /\ Complete(wire.queue, wire.cursor, evs) => Complete(Tail(wire.queue), d, evs)
         /\ NoGap(wire.queue, wire.cursor, evs) => NoGap(Tail(wire.queue), d, evs)
         /\ m.k = "event" => m.of \in evs /\ \A e \in evs : wire.cursor < e /\ e <= m.of => e = m.of
    OBVIOUS
  <2>1. Orderly(wire.queue, evs) /\ (wire.at = "live" => Complete(wire.queue, wire.cursor, evs))
        /\ (wire.at = "ending" => NoGap(wire.queue, wire.cursor, evs))
    BY <1>1, <1>2 DEF WireFits
  <2>2. QueueGoesOn(wire.queue, wire.cursor, evs) BY <2>1, <1>1, <1>3, <1>4, QueueTaken
  <2> QED BY <2>1, <2>2, <1>1 DEF QueueGoesOn, d
<1>13. WireFits(wire', evs, n) BY <1>1, <1>2, <1>8, <1>12 DEF WireFits
<1>14. ASSUME spoiled' = {} PROVE ScreenFits(wire', screen', actions, evs, open)
  <2>1. spoiled = {} /\ ~Crosses(wire, actions) BY <1>1, <1>4, <1>14, CrossedIs
  <2>2. ScreenFits(wire, screen, actions, evs, open) BY <2>1, <1>2
  <2>3. Shows(screen, wire, evs) /\ Waits(screen, wire, actions, open) /\ wire.at # "leaving"
    BY <2>1, <2>2 DEF ScreenFits, Crosses
  <2>4. ~Crosses(wire', actions) BY <2>1, <1>8 DEF Crosses
  <2>5. \A p : QueuedIn(wire.queue, p) => m = MsgPrompt(p) \/ QueuedIn(Tail(wire.queue), p)
    BY <1>1, <1>4, QueuedTaken
  <2>6. CASE m.k = "event"
    <3> DEFINE ids == {m.of}
    <3>1. m.of \in evs /\ (\A e \in evs : wire.cursor < e /\ e <= m.of => e = m.of) /\ m.of \in Nat
      BY <2>3, <2>6, <1>3, <1>12
    <3>2. screen' = Appended(screen, ids) BY <1>1, <2>6
    <3>3. wire.cursor <= screen.last /\ screen.transcript = InOrder(UpTo(evs, screen.last))
      BY <2>3 DEF Shows
    <3>4. \A e \in evs : screen.last < e /\ e <= m.of => e \in ids
      <4> TAKE e \in evs
      <4> HAVE screen.last < e /\ e <= m.of
      <4>1. wire.cursor < e BY <3>3, <1>3, <1>4
      <4> QED BY <4>1, <3>1
    <3>5. \A e \in ids : e <= m.of BY <3>1
    <3>6. ids \in SUBSET evs BY <3>1
    <3>7. /\ screen'.on = screen.on /\ screen'.prompts = screen.prompts
          /\ screen'.transcript = InOrder(UpTo(evs, screen'.last))
          /\ \A e \in ids : e <= screen'.last
      <4>1. AllUpTo(evs, ids, screen.last, m.of) BY <3>4, <3>5 DEF AllUpTo
      <4> HIDE DEF ids, m
      <4> QED BY <3>1, <3>2, <3>3, <3>6, <4>1, <1>3, <1>4, HearsUpTo
    <3>8. d <= screen'.last BY <3>7, <2>6 DEF d, Past
    <3>9. Shows(screen', wire', evs) BY <3>7, <3>8, <2>3, <1>8 DEF Shows
    <3>10. Waits(screen', wire', actions, open)
      <4>1. \A p : m # MsgPrompt(p) BY <2>6 DEF MsgPrompt
      <4> HIDE DEF m
      <4> QED BY <4>1, <3>7, <2>3, <2>5, <1>8 DEF Waits, HeldBy
    <3> QED BY <3>9, <3>10, <2>2, <2>4, <1>8, <1>9 DEF ScreenFits, Crosses
  <2>7. CASE m.k = "prompt"
    <3>1. screen' = Enqueued(screen, m.of) /\ m.of \in AskedPrompts BY <1>1, <1>6, <2>7
    <3>2. /\ screen'.on = screen.on /\ screen'.last = screen.last /\ screen'.transcript = screen.transcript
          /\ \E i \in DOMAIN screen'.prompts : screen'.prompts[i] = m.of
          /\ \A i \in DOMAIN screen.prompts : i \in DOMAIN screen'.prompts /\ screen'.prompts[i] = screen.prompts[i]
      BY <3>1, <1>4, EnqueuedIs
    <3>3. d = wire.cursor BY <2>7 DEF d, Past
    <3>4. Shows(screen', wire', evs) BY <3>2, <3>3, <2>3, <1>8 DEF Shows
    <3>5. \A p : HeldBy(screen, p) \/ m = MsgPrompt(p) => HeldBy(screen', p)
      <4>1. \A p : m = MsgPrompt(p) => p = m.of BY DEF MsgPrompt
      <4> HIDE DEF m
      <4> QED BY <4>1, <3>2 DEF HeldBy
    <3>6. Waits(screen', wire', actions, open)
      <4> HIDE DEF m
      <4> QED BY <3>5, <2>3, <2>5, <1>8 DEF Waits
    <3> QED BY <3>4, <3>6, <2>2, <2>4, <1>8, <1>9 DEF ScreenFits, Crosses
  <2> QED BY <2>6, <2>7, <1>6
<1> QED BY <1>10, <1>11, <1>13, <1>14 DEF TermInv, TermFits

LEMMA BreaksFits == ASSUME TermInv, Breaks PROVE TermInv'
<1> DEFINE n == Len(logged)
           evs == Evs(logged, wire.on)
           open == OpenOf(asked, wire.on)
<1>1. /\ wire.at \in {"subscribed", "fetched", "live"}
      /\ IF wire.at # "live"
         THEN wire' = [wire EXCEPT !.at = "dialing", !.queue = << >>, !.upto = 0]
         ELSE \E k \in 0..Len(wire.queue) : wire' = [wire EXCEPT !.at = "ending", !.queue = SubSeq(@, 1, k)]
      /\ UNCHANGED <<logged, asked, stray, screen, actions, archived, typed, spoiled>>
  BY DEF Breaks
<1>2. /\ TermTypes /\ WireFits(wire, evs, n)
      /\ spoiled = {} => ScreenFits(wire, screen, actions, evs, open)
  BY InvGives
<1>3. evs \in SUBSET Nat /\ n \in Nat
  <2>1. logged \in Seq(Shown) BY <1>2 DEF TermTypes
  <2> QED BY <2>1, EvsAre
<1>4. wire \in WireType /\ wire.queue \in Seq(MsgType) /\ wire.cursor \in Nat /\ wire.cursor <= n /\ wire.upto \in Nat
      /\ wire.upto <= n /\ Known(wire.queue, n)
  BY <1>2, WireIs DEF TermTypes
<1>5. PICK q \in Seq(MsgType) :
        /\ wire'.at \in {"dialing", "ending"} /\ wire'.queue = q /\ wire'.on = wire.on /\ wire'.next = wire.next
        /\ wire'.cursor = wire.cursor /\ wire'.upto \in Nat /\ wire'.upto <= n /\ wire' \in WireType
        /\ Known(q, n)
        /\ wire'.at = "ending" => Orderly(q, evs) /\ NoGap(q, wire.cursor, evs)
  <2> HIDE DEF n, evs
  <2>1. CASE wire.at # "live"
    <3>1. wire' = [wire EXCEPT !.at = "dialing", !.queue = << >>, !.upto = 0] BY <1>1, <2>1
    <3>2. << >> \in Seq(MsgType) OBVIOUS
    <3>3. Known(<< >>, n) BY DEF Known
    <3>4. /\ wire'.at = "dialing" /\ wire'.queue = << >> /\ wire'.on = wire.on /\ wire'.next = wire.next
          /\ wire'.cursor = wire.cursor /\ wire'.upto = 0 /\ wire' \in WireType
      BY <3>1, <3>2, <1>4 DEF WireType
    <3>5. wire'.at # "ending" /\ wire'.at \in {"dialing", "ending"} BY <3>4
    <3>6. wire'.upto \in Nat /\ wire'.upto <= n BY <3>4, <1>3
    <3> DEFINE q == << >>
    <3>7. q \in Seq(MsgType) /\ wire'.queue = q /\ Known(q, n) BY <3>2, <3>3, <3>4
    <3> HIDE DEF q
    <3> QED BY <3>4, <3>5, <3>6, <3>7
  <2>2. CASE wire.at = "live"
    <3>1. PICK k \in 0..Len(wire.queue) : wire' = [wire EXCEPT !.at = "ending", !.queue = SubSeq(@, 1, k)]
      BY <1>1, <2>2
    <3> DEFINE q == SubSeq(wire.queue, 1, k)
    <3>2. q \in Seq(MsgType) /\ DOMAIN q = 1 .. k /\ \A i \in 1 .. k : q[i] = wire.queue[i] /\ i \in DOMAIN wire.queue
      BY <1>4
    <3>3. Known(q, n) BY <3>2, <1>4 DEF Known
    <3>4. Orderly(wire.queue, evs) /\ Complete(wire.queue, wire.cursor, evs) BY <2>2, <1>2 DEF WireFits
    <3>5. Orderly(q, evs) /\ NoGap(q, wire.cursor, evs) BY <3>4, <1>3, <1>4, QueueCut
    <3> HIDE DEF q
    <3>6. wire' = [wire EXCEPT !.at = "ending", !.queue = q] BY <3>1 DEF q
    <3>7. /\ wire'.at = "ending" /\ wire'.queue = q /\ wire'.on = wire.on /\ wire'.next = wire.next
          /\ wire'.cursor = wire.cursor /\ wire'.upto = wire.upto /\ wire' \in WireType
      BY <3>6, <3>2, <1>4 DEF WireType
    <3> QED BY <3>2, <3>3, <3>5, <3>7, <1>4
  <2> QED BY <2>1, <2>2
<1> HIDE DEF n, evs, open
<1>6. evs = Evs(logged', wire'.on) /\ n = Len(logged') /\ open = OpenOf(asked', wire'.on) /\ screen' = screen
      /\ actions' = actions
  BY <1>1, <1>5 DEF evs, n, open
<1>7. TermTypes' BY <1>1, <1>2, <1>4, <1>5, <1>6 DEF TermTypes
<1>8. WireFits(wire', evs, n) BY <1>1, <1>2, <1>5 DEF WireFits
<1>9. ASSUME spoiled' = {} PROVE ScreenFits(wire', screen, actions, evs, open)
  <2>1. ScreenFits(wire, screen, actions, evs, open) BY <1>1, <1>2, <1>9
  <2>2. Crosses(wire', actions) <=> Crosses(wire, actions) BY <1>1, <1>5 DEF Crosses
  <2>3. Shows(screen, wire, evs) => Shows(screen, wire', evs) BY <1>5 DEF Shows
  <2>4. Waits(screen, wire', actions, open) BY <1>5 DEF Waits
  <2> QED BY <2>1, <2>2, <2>3, <2>4, <1>5 DEF ScreenFits
<1> QED BY <1>6, <1>7, <1>8, <1>9 DEF TermInv, TermFits

LEMMA AttachReturnsFits == ASSUME TermInv, AttachReturns PROVE TermInv'
<1> DEFINE n == Len(logged)
           evs == Evs(logged, wire.on)
           open == OpenOf(asked, wire.on)
           c == IF wire.next = wire.on THEN wire.cursor ELSE 0
<1>1. /\ wire.at \in {"ending", "leaving"}
      /\ stray' = stray + IF wire.busy THEN 1 ELSE 0
      /\ wire' = [wire EXCEPT !.at = "dialing", !.queue = << >>, !.upto = 0, !.busy = FALSE, !.on = wire.next, !.cursor = c]
      /\ UNCHANGED <<logged, asked, screen, actions, archived, broken, typed, spoiled>>
  BY DEF AttachReturns
<1>2. /\ TermTypes /\ WireFits(wire, evs, n)
      /\ spoiled = {} => ScreenFits(wire, screen, actions, evs, open)
  BY InvGives
<1>3. wire \in WireType /\ wire.cursor \in Nat /\ wire.cursor <= n /\ n \in Nat /\ wire.next \in Shown
      /\ stray \in Nat /\ wire.busy \in BOOLEAN
  BY <1>2, WireIs DEF TermTypes
<1>4. c \in Nat /\ c <= n BY <1>3
<1>5. stray' \in Nat BY <1>1, <1>3
<1>6. << >> \in Seq(MsgType) /\ Known(<< >>, n) BY DEF Known
<1> HIDE DEF n, evs, open
<1>7. /\ wire'.at = "dialing" /\ wire'.queue = << >> /\ wire'.on = wire.next /\ wire'.next = wire.next
      /\ wire'.cursor = c /\ wire'.upto = 0 /\ wire' \in WireType
  <2> HIDE DEF c
  <2> QED BY <1>1, <1>3, <1>4, <1>6 DEF WireType
<1>8. TermTypes'
  <2>1. n = Len(logged') /\ wire'.cursor <= n /\ wire'.upto <= n BY <1>1, <1>3, <1>4, <1>7 DEF n
  <2>2. Known(wire'.queue, Len(logged')) BY <2>1, <1>6, <1>7
  <2> QED BY <2>1, <2>2, <1>1, <1>2, <1>5, <1>7 DEF TermTypes
<1>9. WireFits(wire', Evs(logged', wire'.on), Len(logged')) BY <1>7 DEF WireFits
<1>10. ASSUME spoiled' = {} PROVE ScreenFits(wire', screen', actions', Evs(logged', wire'.on), OpenOf(asked', wire'.on))
  <2>1. ScreenFits(wire, screen, actions, evs, open) BY <1>1, <1>2, <1>10
  <2>2. screen' = screen /\ actions' = actions /\ logged' = logged BY <1>1
  <2>3. Waits(screen, wire', actions, OpenOf(asked', wire'.on)) BY <1>7 DEF Waits
  <2>4. Crosses(wire', actions) <=> Switching(actions) BY <1>7 DEF Crosses
  <2>5. CASE wire.at = "ending"
    <3>1. wire.next = wire.on /\ (Crosses(wire, actions) <=> Switching(actions)) BY <2>5, <1>2 DEF WireFits, Crosses
    <3>2. Shows(screen, wire, evs) => Shows(screen, wire', Evs(logged', wire'.on))
      BY <3>1, <2>2, <1>7 DEF Shows, evs
    <3> QED BY <3>1, <3>2, <2>1, <2>2, <2>3, <2>4, <1>7 DEF ScreenFits
  <2>6. CASE wire.at = "leaving"
    <3>1. wire.next # wire.on /\ Blank(screen) BY <2>1, <2>6 DEF ScreenFits, Crosses
    <3>2. CASE Switching(actions)
      BY <3>1, <3>2, <2>1, <2>2, <2>3, <2>4, <1>7 DEF ScreenFits
    <3>3. CASE ~Switching(actions)
      <4>1. screen.on = wire.next BY <3>3, <2>1, <2>6 DEF ScreenFits
      <4>2. UpTo(Evs(logged', wire'.on), 0) = {}
        <5>1. logged \in Seq(Shown) BY <1>2 DEF TermTypes
        <5>2. Evs(logged, wire'.on) \in SUBSET (1 .. Len(logged)) /\ Len(logged) \in Nat BY <5>1, EvsAre
        <5>3. ASSUME NEW e \in Evs(logged, wire'.on) PROVE ~(e <= 0)
          <6>1. e \in 1 .. Len(logged) BY <5>2
          <6> QED BY <6>1, <5>2
        <5> QED BY <5>3, <2>2 DEF UpTo
      <4>3. c = 0 BY <3>1
      <4>4. Shows(screen, wire', Evs(logged', wire'.on))
        <5>1. screen.last = 0 /\ screen.transcript = << >> BY <3>1 DEF Blank
        <5>2. InOrder(UpTo(Evs(logged', wire'.on), screen.last)) = << >> BY <5>1, <4>2, InOrderNone
        <5>3. wire'.cursor <= screen.last /\ screen.on = wire'.on BY <5>1, <4>1, <4>3, <1>7
        <5> QED BY <5>1, <5>2, <5>3 DEF Shows
      <4> QED BY <3>3, <4>4, <2>2, <2>3, <2>4, <1>7 DEF ScreenFits
    <3> QED BY <3>2, <3>3
  <2> QED BY <2>5, <2>6, <1>1
<1> QED BY <1>8, <1>9, <1>10 DEF TermInv, TermFits

(* The connection as it is, and so what it has still to say.               *)
LEMMA QuietFits ==
  ASSUME TermInv, TermTypes', logged' = logged, screen' = screen,
         wire'.at = wire.at, wire'.on = wire.on, wire'.next = wire.next, wire'.cursor = wire.cursor,
         wire'.queue = wire.queue, wire'.upto = wire.upto,
         spoiled' = {} =>
           /\ spoiled = {} /\ (Switching(actions') <=> Switching(actions))
           /\ \A s : Switching(actions') /\ LastSwitch(actions, s) => LastSwitch(actions', s)
           /\ \A p \in OpenOf(asked', wire.on) :
                /\ p \in OpenOf(asked, wire.on)
                /\ wire.at \in {"subscribed", "fetched", "live"} /\ AnsweredIn(actions, p) => AnsweredIn(actions', p)
  PROVE  TermInv'
<1>1. /\ WireFits(wire, Evs(logged, wire.on), Len(logged))
      /\ spoiled = {} => ScreenFits(wire, screen, actions, Evs(logged, wire.on), OpenOf(asked, wire.on))
  BY InvGives
<1>2. WireFits(wire', Evs(logged', wire'.on), Len(logged'))
  <2>1. WireFits(wire', Evs(logged, wire.on), Len(logged)) BY <1>1, WireStill
  <2> QED BY <2>1
<1>3. ASSUME spoiled' = {} PROVE ScreenFits(wire', screen', actions', Evs(logged', wire'.on), OpenOf(asked', wire'.on))
  <2>1. ScreenFits(wire, screen, actions, Evs(logged, wire.on), OpenOf(asked, wire.on)) BY <1>1, <1>3
  <2>2. ScreenFits(wire', screen, actions', Evs(logged, wire.on), OpenOf(asked', wire.on))
    BY <2>1, <1>3, FitsStill
  <2> QED BY <2>2
<1> QED BY <1>2, <1>3 DEF TermInv, TermFits

LEMMA PerformsFits == ASSUME TermInv, Performs PROVE TermInv'
<1> DEFINE a == Head(actions)
           t == Tail(actions)
           open == OpenOf(asked, wire.on)
<1>1. /\ wire.at = "live" /\ actions # << >> /\ actions' = t
      /\ CASE a.k = "answer" ->
                /\ asked' = [asked EXCEPT ![a.to] = "closed"] /\ UNCHANGED <<wire, archived, spoiled>>
           [] a.k = "archive" ->
                archived' = archived \cup {y \in {a.to} : StillOpen(y) = {}} /\ UNCHANGED <<wire, asked, spoiled>>
           [] Switch(a) ->
                /\ archived' = archived \ {y \in {a.to} : a.k = "restore"}
                /\ wire' = [wire EXCEPT !.at = "leaving", !.next = a.to]
                /\ spoiled' = spoiled \cup {k \in {"rejoined"} : a.to = wire.on}
                /\ UNCHANGED asked
           [] OTHER -> wire' = [wire EXCEPT !.busy = TRUE] /\ UNCHANGED <<asked, archived, spoiled>>
      /\ UNCHANGED <<logged, stray, screen, broken, typed>>
  BY DEF Performs, Takes
<1>2. /\ TermTypes /\ WireFits(wire, Evs(logged, wire.on), Len(logged))
      /\ spoiled = {} => ScreenFits(wire, screen, actions, Evs(logged, wire.on), open)
  BY InvGives
<1>3. actions \in Seq(ActType) /\ wire \in WireType BY <1>2 DEF TermTypes
<1>4. /\ t \in Seq(ActType) /\ a \in ActType
      /\ Switching(actions) <=> Switch(a) \/ Switching(t)
      /\ \A s : LastSwitch(actions, s) /\ Switching(t) => LastSwitch(t, s)
      /\ \A s : LastSwitch(actions, s) /\ ~Switching(t) => a.to = s
      /\ \A p : AnsweredIn(actions, p) => a = Act("answer", p) \/ AnsweredIn(t, p)
  BY <1>1, <1>3, ActsTaken
<1>5. \/ a.k = "answer" /\ a.to \in AskedPrompts
      \/ a.k \in {"attach", "restore", "prompt", "archive"} /\ a.to \in Shown
  BY <1>4 DEF ActType
<1>6. \A p : a.k # "answer" => a # Act("answer", p) BY DEF Act
<1>7. \A p : a = Act("answer", p) => a.to = p BY DEF Act
<1> HIDE DEF a, t
<1>8. CASE a.k = "answer"
  <2>0. ~Switch(a) /\ a.k # "archive" BY <1>8 DEF Switch
  <2>1. asked' = [asked EXCEPT ![a.to] = "closed"] /\ UNCHANGED <<wire, archived, spoiled>> BY <1>1, <1>8, <2>0
  <2>2. asked \in [AskedPrompts -> {"new", "open", "closed"}] /\ a.to \in AskedPrompts BY <1>2, <1>5, <1>8 DEF TermTypes
  <2>3. TermTypes' BY <1>1, <1>2, <1>4, <2>1, <2>2 DEF TermTypes
  <2>4. ASSUME NEW p \in OpenOf(asked', wire.on) PROVE p \in OpenOf(asked, wire.on) /\ p # a.to
    <3>1. p \in AskedPrompts /\ asked'[p] = "open" /\ PromptOf[p] = wire.on BY DEF OpenOf
    <3>2. p # a.to BY <3>1, <2>1, <2>2
    <3> QED BY <3>1, <3>2, <2>1, <2>2 DEF OpenOf
  <2>5. ~Switch(a) BY <1>8 DEF Switch
  <2>6. \A p \in OpenOf(asked', wire.on) : AnsweredIn(actions, p) => AnsweredIn(actions', p)
    BY <1>1, <1>4, <1>7, <2>4
  <2> QED BY <2>1, <2>3, <2>4, <2>5, <2>6, <1>1, <1>4, QuietFits
<1>9. CASE a.k = "archive"
  <2>1. archived' = archived \cup {y \in {a.to} : StillOpen(y) = {}} /\ UNCHANGED <<wire, asked, spoiled>>
    BY <1>1, <1>9 DEF Switch
  <2>2. archived' \subseteq Shown BY <2>1, <1>2, <1>5, <1>9 DEF TermTypes
  <2>3. TermTypes' BY <1>1, <1>2, <1>4, <2>1, <2>2 DEF TermTypes
  <2>4. ~Switch(a) BY <1>9 DEF Switch
  <2>5. \A p : AnsweredIn(actions, p) => AnsweredIn(actions', p) BY <1>1, <1>4, <1>6, <1>9
  <2> QED BY <2>1, <2>3, <2>4, <2>5, <1>1, <1>4, QuietFits
<1>10. CASE Switch(a)
  <2>0. a.k \in {"attach", "restore"} /\ a.to \in Shown BY <1>5, <1>10 DEF Switch
  <2>1. /\ archived' = archived \ {y \in {a.to} : a.k = "restore"}
        /\ wire' = [wire EXCEPT !.at = "leaving", !.next = a.to]
        /\ spoiled' = spoiled \cup {k \in {"rejoined"} : a.to = wire.on}
        /\ UNCHANGED asked
    BY <1>1, <1>10, <2>0
  <2>2. /\ wire'.at = "leaving" /\ wire'.next = a.to /\ wire'.queue = wire.queue /\ wire'.on = wire.on
        /\ wire'.cursor = wire.cursor /\ wire'.upto = wire.upto /\ wire' \in WireType
    BY <2>0, <2>1, <1>3 DEF WireType
  <2>3. spoiled' \subseteq {"crossed", "robbed", "rejoined", "unrestored"} /\ archived' \subseteq Shown BY <1>2, <2>1 DEF TermTypes
  <2>4. TermTypes' BY <1>1, <1>2, <1>4, <2>1, <2>2, <2>3 DEF TermTypes
  <2>5. WireFits(wire', Evs(logged', wire'.on), Len(logged')) BY <2>2 DEF WireFits
  <2>6. ASSUME spoiled' = {} PROVE ScreenFits(wire', screen', actions', Evs(logged', wire'.on), OpenOf(asked', wire'.on))
    <3>1. spoiled = {} /\ "rejoined" \notin spoiled' BY <2>1, <2>6
    <3>2. a.to # wire.on BY <2>1, <3>1
    <3>3. ScreenFits(wire, screen, actions, Evs(logged, wire.on), open) BY <3>1, <1>2
    <3>4. Switching(actions) /\ Blank(screen) /\ LastSwitch(actions, screen.on)
      BY <3>3, <1>4, <1>10 DEF ScreenFits, Crosses
    <3>5. Crosses(wire', actions') BY <2>2 DEF Crosses
    <3> QED BY <3>2, <3>4, <3>5, <2>2, <1>1, <1>4 DEF ScreenFits
  <2> QED BY <2>4, <2>5, <2>6 DEF TermInv, TermFits
<1>11. CASE a.k = "prompt"
  <2>1. ~Switch(a) BY <1>11 DEF Switch
  <2>2. wire' = [wire EXCEPT !.busy = TRUE] /\ UNCHANGED <<asked, archived, spoiled>> BY <1>1, <1>11, <2>1
  <2>3. /\ wire'.at = wire.at /\ wire'.next = wire.next /\ wire'.queue = wire.queue /\ wire'.on = wire.on
        /\ wire'.cursor = wire.cursor /\ wire'.upto = wire.upto /\ wire' \in WireType
    BY <2>2, <1>3 DEF WireType
  <2>4. TermTypes' BY <1>1, <1>2, <1>4, <2>2, <2>3 DEF TermTypes
  <2>5. \A p : AnsweredIn(actions, p) => AnsweredIn(actions', p) BY <1>1, <1>4, <1>6, <1>11
  <2> QED BY <2>1, <2>2, <2>3, <2>4, <2>5, <1>1, <1>4, QuietFits
<1> QED BY <1>5, <1>8, <1>9, <1>10, <1>11 DEF Switch

LEMMA StrayPerformsFits == ASSUME TermInv, StrayPerforms PROVE TermInv'
<1> DEFINE a == Head(actions)
           t == Tail(actions)
<1>1. /\ actions # << >> /\ actions' = t
      /\ spoiled' = spoiled \cup {k \in {"robbed"} : Switch(a) \/ (a.k = "answer" /\ wire.at # "dialing")}
      /\ UNCHANGED <<logged, asked, wire, stray, screen, archived, broken, typed>>
  BY DEF StrayPerforms, Takes
<1>2. TermTypes BY InvGives
<1>3. actions \in Seq(ActType) BY <1>2 DEF TermTypes
<1>4. /\ t \in Seq(ActType) /\ a \in ActType
      /\ Switching(actions) <=> Switch(a) \/ Switching(t)
      /\ \A s : LastSwitch(actions, s) /\ Switching(t) => LastSwitch(t, s)
      /\ \A p : AnsweredIn(actions, p) => a = Act("answer", p) \/ AnsweredIn(t, p)
  BY <1>1, <1>3, ActsTaken
<1>5. \A p : a.k # "answer" => a # Act("answer", p) BY DEF Act
<1> HIDE DEF a, t
<1>6. TermTypes' BY <1>1, <1>2, <1>4 DEF TermTypes
<1>7. ASSUME spoiled' = {}
      PROVE  /\ spoiled = {} /\ (Switching(actions') <=> Switching(actions))
             /\ \A p : wire.at \in {"subscribed", "fetched", "live"} /\ AnsweredIn(actions, p) => AnsweredIn(actions', p)
  <2>1. spoiled = {} /\ "robbed" \notin spoiled' BY <1>1, <1>7
  <2>2. ~Switch(a) /\ (a.k = "answer" => wire.at = "dialing") BY <1>1, <2>1
  <2> QED BY <2>1, <2>2, <1>1, <1>4, <1>5
<1>8. spoiled' = {} =>
        /\ spoiled = {} /\ (Switching(actions') <=> Switching(actions))
        /\ \A s : Switching(actions') /\ LastSwitch(actions, s) => LastSwitch(actions', s)
        /\ \A p \in OpenOf(asked', wire.on) :
             /\ p \in OpenOf(asked, wire.on)
             /\ wire.at \in {"subscribed", "fetched", "live"} /\ AnsweredIn(actions, p) => AnsweredIn(actions', p)
  BY <1>1, <1>4, <1>7
<1> QED BY <1>1, <1>6, <1>8, QuietFits

LEMMA RestoreFailsFits == ASSUME TermInv, RestoreFails PROVE TermInv'
<1> DEFINE a == Head(actions)
           t == Tail(actions)
<1>1. /\ actions # << >> /\ actions' = t /\ spoiled' = spoiled \cup {"unrestored"}
      /\ UNCHANGED <<logged, asked, wire, stray, screen, archived, broken, typed>>
  BY DEF RestoreFails, Takes
<1>2. TermTypes BY InvGives
<1>3. actions \in Seq(ActType) BY <1>2 DEF TermTypes
<1>4. t \in Seq(ActType) BY <1>1, <1>3, ActsTaken
<1> HIDE DEF a, t
<1>5. TermTypes' BY <1>1, <1>2, <1>4 DEF TermTypes
<1>6. spoiled' # {} BY <1>1
<1> QED BY <1>1, <1>5, <1>6, QuietFits

LEMMA CallReturnsFits == ASSUME TermInv, CallReturns PROVE TermInv'
<1>1. /\ wire' = [wire EXCEPT !.busy = FALSE]
      /\ UNCHANGED <<logged, asked, stray, screen, actions, archived, broken, typed, spoiled>>
  BY DEF CallReturns
<1>2. TermTypes /\ wire \in WireType
  <2>1. TermTypes BY InvGives
  <2> QED BY <2>1 DEF TermTypes
<1>3. /\ wire'.at = wire.at /\ wire'.next = wire.next /\ wire'.queue = wire.queue /\ wire'.on = wire.on
      /\ wire'.cursor = wire.cursor /\ wire'.upto = wire.upto /\ wire' \in WireType
  BY <1>1, <1>2 DEF WireType
<1>4. TermTypes' BY <1>1, <1>2, <1>3 DEF TermTypes
<1> QED BY <1>1, <1>3, <1>4, QuietFits

LEMMA StrayEndsFits == ASSUME TermInv, StrayEnds PROVE TermInv'
<1>1. /\ stray > 0 /\ stray' = stray - 1
      /\ UNCHANGED <<logged, asked, wire, screen, actions, archived, broken, typed, spoiled>>
  BY DEF StrayEnds
<1>2. TermTypes BY InvGives
<1>3. stray' \in Nat BY <1>1, <1>2 DEF TermTypes
<1>4. TermTypes' BY <1>1, <1>2, <1>3 DEF TermTypes
<1> QED BY <1>1, <1>4, QuietFits

LEMMA AnsweredElsewhereFits == ASSUME TermInv, NEW p \in AskedPrompts, AnsweredElsewhere(p) PROVE TermInv'
<1>1. /\ asked' = [asked EXCEPT ![p] = "closed"]
      /\ UNCHANGED <<logged, wire, stray, screen, actions, archived, broken, typed, spoiled>>
  BY DEF AnsweredElsewhere
<1>2. TermTypes /\ asked \in [AskedPrompts -> {"new", "open", "closed"}]
  <2>1. TermTypes BY InvGives
  <2> QED BY <2>1 DEF TermTypes
<1>3. TermTypes' BY <1>1, <1>2 DEF TermTypes
<1>4. ASSUME NEW x \in OpenOf(asked', wire.on) PROVE x \in OpenOf(asked, wire.on)
  <2>1. x \in AskedPrompts /\ asked'[x] = "open" /\ PromptOf[x] = wire.on BY DEF OpenOf
  <2> QED BY <2>1, <1>1, <1>2 DEF OpenOf
<1> QED BY <1>1, <1>3, <1>4, QuietFits

LEMMA SubmitsFits == ASSUME TermInv, Submits PROVE TermInv'
<1>1. TermTypes /\ actions \in Seq(ActType) /\ screen.on \in Shown
  <2>1. TermTypes BY InvGives
  <2> QED BY <2>1, WireIs
<1>2. PICK a \in ActType : actions' = Append(actions, a) /\ a.k \in {"prompt", "archive"}
  <2>1. \/ actions' = Append(actions, Act("prompt", screen.on))
        \/ \E s \in Shown \ archived : actions' = Append(actions, Act("archive", s))
    BY DEF Submits, Emits
  <2>2. \A s \in Shown : Act("prompt", s) \in ActType /\ Act("archive", s) \in ActType BY DEF Act, ActType
  <2>3. \A s : Act("prompt", s).k = "prompt" /\ Act("archive", s).k = "archive" BY DEF Act
  <2> QED BY <2>1, <2>2, <2>3, <1>1
<1>3. UNCHANGED <<logged, asked, wire, stray, screen, archived, broken, spoiled>> BY DEF Submits
<1>4. ~Switch(a) BY <1>2 DEF Switch
<1>5. /\ actions' \in Seq(ActType) /\ (Switching(actions') <=> Switching(actions))
      /\ \A s : LastSwitch(actions, s) => LastSwitch(actions', s)
      /\ \A p : AnsweredIn(actions, p) => AnsweredIn(actions', p)
  BY <1>1, <1>2, <1>4, ActsGrow
<1>6. TermTypes' BY <1>1, <1>3, <1>5 DEF TermTypes
<1> QED BY <1>3, <1>5, <1>6, QuietFits

LEMMA AnswersFits == ASSUME TermInv, AnswersPrompt PROVE TermInv'
<1> DEFINE p == Head(screen.prompts)
           t == Tail(screen.prompts)
           a == Act("answer", p)
           evs == Evs(logged, wire.on)
           open == OpenOf(asked, wire.on)
<1>1. /\ screen.prompts # << >> /\ actions' = Append(actions, a) /\ screen' = [screen EXCEPT !.prompts = t]
      /\ UNCHANGED <<logged, asked, wire, stray, archived, broken, spoiled>>
  BY DEF AnswersPrompt, Emits
<1>2. /\ TermTypes /\ WireFits(wire, evs, Len(logged))
      /\ spoiled = {} => ScreenFits(wire, screen, actions, evs, open)
  BY InvGives
<1>3. actions \in Seq(ActType) /\ screen \in ScreenType /\ screen.prompts \in Seq(AskedPrompts)
  BY <1>2, WireIs DEF TermTypes
<1>4. /\ p \in AskedPrompts /\ t \in Seq(AskedPrompts)
      /\ \A i \in DOMAIN screen.prompts : screen.prompts[i] = p \/ \E j \in DOMAIN t : t[j] = screen.prompts[i]
  <2>1. /\ Len(screen.prompts) \in Nat \ {0} /\ DOMAIN screen.prompts = 1 .. Len(screen.prompts)
        /\ DOMAIN t = 1 .. Len(screen.prompts) - 1 /\ p = screen.prompts[1]
        /\ \A i \in 1 .. Len(screen.prompts) - 1 : t[i] = screen.prompts[i + 1]
    BY <1>1, <1>3
  <2>2. p \in AskedPrompts /\ t \in Seq(AskedPrompts) BY <1>1, <1>3
  <2>3. ASSUME NEW i \in DOMAIN screen.prompts, i # 1 PROVE i - 1 \in DOMAIN t /\ t[i - 1] = screen.prompts[i]
    BY <2>1, <2>3
  <2> QED BY <2>1, <2>2, <2>3
<1>5. a \in ActType /\ ~Switch(a) BY <1>4 DEF Act, ActType, Switch
<1> HIDE DEF t, evs, open
<1>6. /\ actions' \in Seq(ActType) /\ (Switching(actions') <=> Switching(actions))
      /\ \A x : AnsweredIn(actions, x) \/ x = p => AnsweredIn(actions', x)
  <2>1. \A x : x = p => Act("answer", x) = a OBVIOUS
  <2> HIDE DEF a
  <2> QED BY <2>1, <1>1, <1>3, <1>5, ActsGrow
<1>7. /\ screen' \in ScreenType /\ screen'.prompts = t /\ screen'.on = screen.on /\ screen'.last = screen.last
      /\ screen'.transcript = screen.transcript
  BY <1>1, <1>3, <1>4 DEF ScreenType
<1>8. TermTypes' BY <1>1, <1>2, <1>6, <1>7 DEF TermTypes
<1>9. evs = Evs(logged', wire'.on) /\ open = OpenOf(asked', wire'.on) /\ wire' = wire /\ logged' = logged /\ spoiled' = spoiled
  BY <1>1 DEF evs, open
<1>10. ASSUME spoiled' = {} PROVE ScreenFits(wire, screen', actions', evs, open)
  <2>1. ScreenFits(wire, screen, actions, evs, open) BY <1>1, <1>2, <1>10
  <2>2. ~Crosses(wire, actions) BY <2>1, <1>1 DEF ScreenFits, Blank
  <2>3. ~Crosses(wire, actions') /\ ~Switching(actions') /\ wire.at # "leaving" BY <2>2, <1>6 DEF Crosses
  <2>4. Shows(screen, wire, evs) /\ Waits(screen, wire, actions, open) BY <2>1, <2>2 DEF ScreenFits
  <2>5. Shows(screen', wire, evs) BY <2>4, <1>7 DEF Shows
  <2>6. \A x : HeldBy(screen, x) => x = p \/ HeldBy(screen', x)
    <3> HIDE DEF p
    <3> QED BY <1>4, <1>7 DEF HeldBy
  <2>7. Waits(screen', wire, actions', open)
    <3> HIDE DEF p
    <3> QED BY <2>4, <2>6, <1>6 DEF Waits
  <2> QED BY <2>3, <2>5, <2>7 DEF ScreenFits
<1> QED BY <1>2, <1>8, <1>9, <1>10 DEF TermInv, TermFits

LEMMA PicksFits == ASSUME TermInv, NEW s \in Shown, Picks(s) PROVE TermInv'
<1> DEFINE a == Act(IF s \in archived THEN "restore" ELSE "attach", s)
<1>1. /\ actions' = Append(actions, a) /\ screen' = NewModel(s)
      /\ UNCHANGED <<logged, asked, wire, stray, archived, broken, spoiled>>
  BY DEF Picks, Emits
<1>2. /\ TermTypes /\ WireFits(wire, Evs(logged, wire.on), Len(logged))
      /\ spoiled = {} => ScreenFits(wire, screen, actions, Evs(logged, wire.on), OpenOf(asked, wire.on))
  BY InvGives
<1>3. actions \in Seq(ActType) /\ Len(logged) \in Nat BY <1>2, WireIs
<1>4. a \in ActType /\ Switch(a) /\ a.to = s BY DEF Act, ActType, Switch
<1> HIDE DEF a
<1>5. actions' \in Seq(ActType) /\ Switching(actions') /\ LastSwitch(actions', s) BY <1>1, <1>3, <1>4, ActsGrow
<1>6. << >> \in Seq(Nat) /\ << >> \in Seq(AskedPrompts) OBVIOUS
<1>7. screen' \in ScreenType /\ screen'.on = s /\ screen'.last = 0 /\ screen'.transcript = << >> /\ screen'.prompts = << >>
  BY <1>1, <1>6 DEF NewModel, ScreenType
<1>8. TermTypes' BY <1>1, <1>2, <1>3, <1>5, <1>7 DEF TermTypes
<1>9. ASSUME spoiled' = {} PROVE ScreenFits(wire', screen', actions', Evs(logged', wire'.on), OpenOf(asked', wire'.on))
  <2>1. wire.at = "leaving" => wire.next # wire.on BY <1>1, <1>2, <1>9 DEF ScreenFits
  <2>2. Blank(screen') /\ Crosses(wire', actions') BY <1>5, <1>7 DEF Blank, Crosses
  <2> QED BY <2>1, <2>2, <1>1, <1>5, <1>7 DEF ScreenFits
<1>10. WireFits(wire', Evs(logged', wire'.on), Len(logged')) BY <1>1, <1>2
<1> QED BY <1>8, <1>9, <1>10 DEF TermInv, TermFits

LEMMA TermStutters == ASSUME TermInv, UNCHANGED terminalVars PROVE TermInv'
<1>1. UNCHANGED <<logged, asked, wire, stray, screen, actions, archived, broken, typed, spoiled>> BY DEF terminalVars
<1>2. TermTypes BY InvGives
<1>3. TermTypes' BY <1>1, <1>2 DEF TermTypes
<1> QED BY <1>1, <1>3, QuietFits

LEMMA TermSteps == ASSUME TermInv, [TerminalNext]_terminalVars PROVE TermInv'
<1>1. ASSUME NEW s \in Shown, SessionLogs(s) PROVE TermInv' BY <1>1, LogsFits
<1>2. ASSUME NEW s \in Shown, Picks(s) PROVE TermInv' BY <1>2, PicksFits
<1>3. ASSUME NEW p \in AskedPrompts, DaemonAsks(p) PROVE TermInv' BY <1>3, AsksFits
<1>4. ASSUME NEW p \in AskedPrompts, AnsweredElsewhere(p) PROVE TermInv' BY <1>4, AnsweredElsewhereFits
<1>5. CASE Subscribes BY <1>5, SubscribesFits
<1>6. CASE Fetches BY <1>6, FetchesFits
<1>7. CASE CatchUp BY <1>7, CatchUpFits
<1>8. CASE Streams BY <1>8, StreamsFits
<1>9. CASE Breaks BY <1>9, BreaksFits
<1>10. CASE AttachReturns BY <1>10, AttachReturnsFits
<1>11. CASE Performs BY <1>11, PerformsFits
<1>12. CASE StrayPerforms BY <1>12, StrayPerformsFits
<1>13. CASE CallReturns BY <1>13, CallReturnsFits
<1>14. CASE StrayEnds BY <1>14, StrayEndsFits
<1>15. CASE AnswersPrompt BY <1>15, AnswersFits
<1>16. CASE Submits BY <1>16, SubmitsFits
<1>17. CASE UNCHANGED terminalVars BY <1>17, TermStutters
<1>18. CASE RestoreFails BY <1>18, RestoreFailsFits
<1> QED BY <1>1, <1>2, <1>3, <1>4, <1>5, <1>6, <1>7, <1>8, <1>9, <1>10, <1>11, <1>12, <1>13, <1>14, <1>15, <1>16, <1>17, <1>18
       DEF TerminalNext

LEMMA TermInit == TerminalInit => TermInv
<1> SUFFICES ASSUME TerminalInit PROVE TermInv OBVIOUS
<1>1. TermTypes BY TermInitTypes
<1>2. PICK s \in Shown :
        /\ wire = [at |-> "dialing", on |-> s, cursor |-> 0, upto |-> 0, next |-> s, queue |-> << >>, busy |-> FALSE]
        /\ screen = [on |-> s, last |-> 0, transcript |-> << >>, prompts |-> << >>]
  BY DEF TerminalInit, NewModel
<1>3. wire.at = "dialing" /\ wire.on = s /\ wire.next = s /\ wire.cursor = 0 /\ screen.on = s /\ screen.last = 0
      /\ screen.transcript = << >>
  BY <1>2
<1>4. logged = << >> /\ actions = << >> BY DEF TerminalInit
<1>5. Evs(logged, wire.on) = {} BY <1>4 DEF Evs
<1>6. WireFits(wire, Evs(logged, wire.on), Len(logged)) BY <1>3 DEF WireFits
<1>7. ~Switching(actions) BY <1>4 DEF Switching
<1>8. UpTo(Evs(logged, wire.on), screen.last) = {} BY <1>5 DEF UpTo
<1>9. Shows(screen, wire, Evs(logged, wire.on))
  <2>1. InOrder(UpTo(Evs(logged, wire.on), screen.last)) = << >> BY <1>8, InOrderNone
  <2>2. wire.cursor <= screen.last BY <1>3
  <2> QED BY <1>3, <2>1, <2>2 DEF Shows
<1>10. ScreenFits(wire, screen, actions, Evs(logged, wire.on), OpenOf(asked, wire.on))
  BY <1>3, <1>7, <1>9 DEF ScreenFits, Crosses, Waits
<1> QED BY <1>1, <1>6, <1>10 DEF TermInv, TermFits

LEMMA TermInvGives == TermInv => ScreenIsWhole
<1> SUFFICES ASSUME TermInv, wire.at = "live", wire.queue = << >>, actions = << >>, spoiled = {}
             PROVE  /\ screen.on = wire.on /\ screen.transcript = InOrder(EventsOf(screen.on))
                    /\ StillOpen(screen.on) \subseteq Range(screen.prompts)
  BY DEF ScreenIsWhole, Settled
<1> DEFINE evs == Evs(logged, wire.on)
<1>1. /\ TermTypes /\ WireFits(wire, evs, Len(logged))
      /\ ScreenFits(wire, screen, actions, evs, OpenOf(asked, wire.on))
      /\ EventsOf(wire.on) = evs /\ StillOpen(wire.on) = OpenOf(asked, wire.on)
  BY InvGives
<1>2. ~Crosses(wire, actions) BY DEF Crosses, Switching
<1>3. Shows(screen, wire, evs) /\ Waits(screen, wire, actions, OpenOf(asked, wire.on)) BY <1>1, <1>2 DEF ScreenFits
<1>4. evs \in SUBSET Nat /\ wire.cursor \in Nat /\ screen.last \in Nat
  <2>1. logged \in Seq(Shown) BY <1>1 DEF TermTypes
  <2> QED BY <2>1, <1>1, EvsAre, WireIs
<1> HIDE DEF evs
<1>5. \A e \in evs : ~(e > wire.cursor)
  <2>1. Complete(wire.queue, wire.cursor, evs) BY <1>1 DEF WireFits
  <2> QED BY <2>1 DEF Complete, Comes, InQueue
<1>6. UpTo(evs, screen.last) = evs
  <2>1. wire.cursor <= screen.last BY <1>3 DEF Shows
  <2>2. ASSUME NEW e \in evs PROVE e <= screen.last BY <2>1, <1>4, <1>5
  <2> QED BY <2>2 DEF UpTo
<1>7. screen.on = wire.on /\ screen.transcript = InOrder(evs) BY <1>3, <1>6 DEF Shows
<1>8. ASSUME NEW p \in OpenOf(asked, wire.on) PROVE p \in Range(screen.prompts)
  <2>1. HeldBy(screen, p) \/ QueuedIn(wire.queue, p) \/ AnsweredIn(actions, p) BY <1>3 DEF Waits
  <2>2. ~QueuedIn(wire.queue, p) /\ ~AnsweredIn(actions, p) BY DEF QueuedIn, AnsweredIn
  <2> QED BY <2>1, <2>2 DEF HeldBy, Range
<1> QED BY <1>1, <1>7, <1>8

(* The types of the terminal client, whatever is shown, asked, broken and  *)
(* typed.                                                                  *)
THEOREM TerminalTypeCorrect == TerminalSpec => []TerminalTypeOK
<1>1. TermInv => TerminalTypeOK BY TermTypesGive DEF TermInv
<1> QED BY <1>1, TermInit, TermSteps, PTL DEF TerminalSpec

(* Whatever is logged, asked, broken off, picked and typed: once all is    *)
(* delivered, the screen shows the chosen session, every event of it once  *)
(* and in order, and every open request of it.                             *)
THEOREM ScreenIsAlwaysWhole == TerminalSpec => []ScreenIsWhole
<1> QED BY TermInvGives, TermInit, TermSteps, PTL DEF TerminalSpec
=============================================================================
