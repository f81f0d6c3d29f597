------------------------------- MODULE Watcher -------------------------------
(***************************************************************************)
(* The GitHub watcher: clients/github.  Poll by poll it moves its jobs     *)
(* along, looks at a pull request and an issue, and starts what is due: a  *)
(* review of a head that has been quiet, a comments job for what the owner *)
(* wrote, a run for an issue.                                              *)
(*                                                                         *)
(* One open, labeled pull request of the owner's and one labeled issue.    *)
(* Comments are numbered as they are written; the marks of the three kinds *)
(* of comment are alike and never compared, so one kind is enough.         *)
(*                                                                         *)
(* The watcher saves after every effect.  When an effect is `lost` it has  *)
(* happened, and the watcher does not know: it died before the save, or    *)
(* the answer of GitHub or of the daemon never came.                       *)
(***************************************************************************)
EXTENDS Naturals, Sequences, FiniteSets

CONSTANTS
  MaxJobs,                        \* max_jobs of the watcher's config
  \* bounds of the model
  MaxHeads, MaxComments, MaxLost, MaxEdits, MaxSessions, MaxIssueRuns

ASSUME WatcherAssumption ==
  /\ {MaxJobs, MaxComments, MaxLost, MaxEdits, MaxSessions, MaxIssueRuns} \subseteq Nat
  /\ MaxHeads \in Nat \ {0}

VARIABLES
  w,       \* the watcher's state, as it is saved
  poll,    \* where the poll is: the head it read, what is left to do of it, what it found due
  hub,     \* GitHub: the head of the branch, the owner's comments, reviews and answers posted
  wsess,   \* the daemon's sessions for the jobs
  issue,   \* the issue: its edits, and the runs made for it
  lostNo   \* effects the watcher does not know of

watcherVars == <<w, poll, hub, wsess, issue, lostNo>>

NoJob == [kind |-> "none"]
Kinds == {"review", "comments"}
Max2(a, b) == IF a >= b THEN a ELSE b

WatcherInit ==
  /\ w = [seen |-> 0, reviewed |-> 0, failed |-> 0, handled |-> 0, failedThrough |-> 0,
          jobs |-> [k \in Kinds |-> NoJob], asked |-> 0, home |-> 0]
  /\ poll = [step |-> "advance", head |-> 1, left |-> Kinds, moved |-> FALSE, review |-> 0, due |-> {}]
  /\ hub = [head |-> 1, comments |-> 0, reviews |-> [h \in 1..MaxHeads |-> 0],
            answers |-> [c \in 1..MaxComments |-> 0]]
  /\ wsess = <<>>
  /\ issue = [edits |-> 1, homes |-> <<>>, reruns |-> 0]
  /\ lostNo = 0

(* The effect has happened: its record is saved, or lost.                  *)
Records(new) ==
  \/ w' = new /\ lostNo' = lostNo
  \/ lostNo < MaxLost /\ lostNo' = lostNo + 1 /\ w' = w

Running == {k \in Kinds : w.jobs[k] # NoJob}
Job(k) == w.jobs[k]
Put(job) == [w EXCEPT !.jobs[job.kind] = job]

-----------------------------------------------------------------------------
(* The world. *)

Push == /\ hub.head < MaxHeads
        /\ hub' = [hub EXCEPT !.head = @ + 1]
        /\ UNCHANGED <<w, poll, wsess, issue, lostNo>>

Comment == /\ hub.comments < MaxComments
           /\ hub' = [hub EXCEPT !.comments = @ + 1]
           /\ UNCHANGED <<w, poll, wsess, issue, lostNo>>

EditIssue == /\ issue.edits <= MaxEdits
             /\ issue' = [issue EXCEPT !.edits = @ + 1]
             /\ UNCHANGED <<w, poll, hub, wsess, lostNo>>

(* A run of the issue is picked up by the runner, and done or failed.      *)
IssueRuns(h) ==
  /\ issue.homes[h] = "requested"
  /\ \E end \in {"done", "failed"} : issue' = [issue EXCEPT !.homes[h] = end]
  /\ UNCHANGED <<w, poll, hub, wsess, lostNo>>

(* A session's loop ends its turn, perhaps with commits and with its own   *)
(* replies to some of its comments; or it ends in error, blocked or        *)
(* paused; or someone stops it.                                            *)
SessionEnds(s) ==
  /\ wsess[s].state = "running"
  /\ \/ \E commits \in BOOLEAN, replies \in SUBSET wsess[s].due :
          wsess' = [wsess EXCEPT ![s].state = "answered", ![s].commits = commits, ![s].replies = replies]
     \/ wsess' = [wsess EXCEPT ![s].state = "error"]
     \/ wsess' = [wsess EXCEPT ![s].state = "completed"]
  /\ UNCHANGED <<w, poll, hub, issue, lostNo>>

-----------------------------------------------------------------------------
(* Moving a job along: advance, begin, postReview, postComments. *)

(* The poll goes on to its next job; a job is moved along once in a poll,  *)
(* though every effect of it is a step here.                               *)
Advancing(k) == poll.step = "advance" /\ k \in poll.left /\ Job(k) # NoJob
Leaves(k) == poll' = [poll EXCEPT !.left = @ \ {k}]

CreateFor(k) ==
  /\ Advancing(k) /\ Job(k).session = 0 /\ Len(wsess) < MaxSessions
  /\ wsess' = Append(wsess, [kind |-> k, state |-> "idle", commits |-> FALSE, due |-> Job(k).due,
                             replies |-> {}])
  /\ Records(Put([Job(k) EXCEPT !.session = Len(wsess) + 1]))
  /\ UNCHANGED <<poll, hub, issue>>

(* The prompt has one client_id: sent again it appends nothing.            *)
PromptFor(k) ==
  /\ Advancing(k) /\ Job(k).session # 0 /\ ~Job(k).prompted
  /\ wsess' = [wsess EXCEPT ![Job(k).session].state = IF @ = "idle" THEN "running" ELSE @]
  /\ Records(Put([Job(k) EXCEPT !.prompted = TRUE]))
  /\ Leaves(k)
  /\ UNCHANGED <<hub, issue>>

Ready(k) == Advancing(k) /\ Job(k).prompted
StateOf(k) == wsess[Job(k).session].state

StillRunning(k) ==
  /\ Ready(k) /\ StateOf(k) = "running"
  /\ Leaves(k)
  /\ UNCHANGED <<w, hub, wsess, issue, lostNo>>

(* The watcher ends the session itself, and says so first.                 *)
StopFor(k) ==
  /\ Ready(k) /\ StateOf(k) = "answered"
  /\ w' = Put([Job(k) EXCEPT !.stopped = TRUE])
  /\ wsess' = [wsess EXCEPT ![Job(k).session].state = "completed"]
  /\ UNCHANGED <<poll, hub, issue, lostNo>>

FailedJob(k) ==
  IF k = "review" THEN [w EXCEPT !.failed = Job(k).head, !.jobs[k] = NoJob]
  ELSE [w EXCEPT !.failedThrough = Max2(@, Job(k).through), !.jobs[k] = NoJob]

EndedOtherwise(k) ==
  /\ Ready(k) /\ \/ StateOf(k) = "error"
                 \/ StateOf(k) = "completed" /\ ~Job(k).stopped
  /\ w' = FailedJob(k) /\ Leaves(k)
  /\ UNCHANGED <<hub, wsess, issue, lostNo>>

Posting(k) == Ready(k) /\ StateOf(k) = "completed" /\ Job(k).stopped

PostReview ==
  /\ Posting("review")
  /\ hub' = [hub EXCEPT !.reviews[Job("review").head] = @ + 1]
  /\ Records([w EXCEPT !.reviewed = Job("review").head, !.jobs["review"] = NoJob])
  /\ Leaves("review")
  /\ UNCHANGED <<wsess, issue>>

(* The commits go up unless the branch has moved, which fails the job.     *)
PushCommits ==
  LET job == Job("comments")
      s   == wsess[job.session]
      put == [job EXCEPT !.pushed = TRUE]
  IN  /\ Posting("comments") /\ ~job.pushed
      /\ \/ ~s.commits /\ w' = Put(put) /\ UNCHANGED <<poll, hub, wsess, lostNo>>
         \/ /\ s.commits /\ hub.head = job.head /\ hub.head < MaxHeads
            /\ hub' = [hub EXCEPT !.head = @ + 1]
            /\ wsess' = [wsess EXCEPT ![job.session].commits = FALSE]  \* up to date: a push again does nothing
            /\ Records(Put(put))
            /\ poll' = [poll EXCEPT !.moved = TRUE]
         \/ /\ s.commits /\ hub.head # job.head
            /\ w' = FailedJob("comments") /\ Leaves("comments") /\ UNCHANGED <<hub, wsess, lostNo>>
      /\ UNCHANGED issue

(* A comment with a reply of its own is answered under it; the others in   *)
(* one comment on the pull request, the last to be posted.                 *)
Replies == wsess[Job("comments").session].replies
Rest    == Job("comments").due \ Replies

PostReply(c) ==
  /\ Posting("comments") /\ Job("comments").pushed
  /\ c \in Replies \ Job("comments").posted
  /\ hub' = [hub EXCEPT !.answers[c] = @ + 1]
  /\ Records(Put([Job("comments") EXCEPT !.posted = @ \cup {c}]))
  /\ UNCHANGED <<poll, wsess, issue>>

PostRest ==
  /\ Posting("comments") /\ Job("comments").pushed
  /\ Replies \subseteq Job("comments").posted /\ ~(Rest \subseteq Job("comments").posted)
  /\ hub' = [hub EXCEPT !.answers = [c \in DOMAIN @ |-> IF c \in Rest THEN @[c] + 1 ELSE @[c]]]
  /\ Records(Put([Job("comments") EXCEPT !.posted = @ \cup Rest]))
  /\ UNCHANGED <<poll, wsess, issue>>

(* GitHub refuses a post: the next poll posts it again.                    *)
PostFails(k) ==
  /\ Posting(k)
  /\ Leaves(k)
  /\ UNCHANGED <<w, hub, wsess, issue, lostNo>>

CommentsDone ==
  /\ Posting("comments") /\ Job("comments").pushed /\ Job("comments").due \subseteq Job("comments").posted
  /\ w' = [w EXCEPT !.handled = Max2(@, Job("comments").through), !.failedThrough = 0,
                    !.jobs["comments"] = NoJob]
  /\ Leaves("comments")
  /\ UNCHANGED <<hub, wsess, issue, lostNo>>

-----------------------------------------------------------------------------
(* Looking at what is due: Observe, ReviewJobs, CommentsDue. *)

(* A head is due once it has been there for a quiet time, unless it was    *)
(* reviewed, its review failed, or a job is at work on the pull request.   *)
ReviewDue(quiet) ==
  /\ quiet /\ w.seen = poll.head
  /\ Running = {} /\ ~poll.moved
  /\ w.reviewed # poll.head /\ w.failed # poll.head

(* Mutant: a head is reviewed again though its review is posted.           *)
ReviewDueAgain(quiet) ==
  /\ quiet /\ w.seen = poll.head
  /\ Running = {} /\ ~poll.moved
  /\ w.failed # poll.head

(* The comments past the handled mark; after a failed job, once one of     *)
(* them is past what that job had.                                         *)
CommentsDue(quiet) ==
  LET due == {c \in 1..hub.comments : c > w.handled}
  IN  IF quiet /\ Job("comments") = NoJob /\ (\E c \in due : c > w.failedThrough) THEN due ELSE {}

PollGitHub ==
  /\ poll.step = "advance" /\ \A k \in poll.left : Job(k) = NoJob
  /\ \E quietHead, quietComments \in BOOLEAN :
       poll' = [poll EXCEPT !.step = "start",
                            !.review = IF ReviewDue(quietHead) THEN poll.head ELSE 0,
                            !.due = CommentsDue(quietComments)]
  /\ w' = [w EXCEPT !.seen = poll.head]
  /\ UNCHANGED <<hub, wsess, issue, lostNo>>

NewJob(k, head, due) ==
  [kind |-> k, head |-> head, due |-> due, through |-> IF due = {} THEN 0 ELSE CHOOSE c \in due : \A d \in due : d <= c,
   session |-> 0, prompted |-> FALSE, stopped |-> FALSE, pushed |-> FALSE, posted |-> {}]

(* A person is waiting on a reply, so comments come before reviews.  The   *)
(* job is saved before its session is made, which the next poll sees to,   *)
(* or this one (begin, as CreateFor and PromptFor).                        *)
StartComments ==
  /\ poll.step = "start" /\ poll.due # {} /\ Cardinality(Running) < MaxJobs
  /\ w' = Put(NewJob("comments", poll.head, poll.due))
  /\ poll' = [poll EXCEPT !.due = {}]
  /\ UNCHANGED <<hub, wsess, issue, lostNo>>

StartReview ==
  /\ poll.step = "start" /\ poll.due = {} /\ poll.review # 0 /\ Cardinality(Running) < MaxJobs
  /\ w' = Put(NewJob("review", poll.review, {}))
  /\ poll' = [poll EXCEPT !.review = 0]
  /\ UNCHANGED <<hub, wsess, issue, lostNo>>

(* The next poll reads the pull request anew.                              *)
NextPoll ==
  /\ poll.step = "start"
  /\ (poll.due = {} /\ poll.review = 0) \/ Cardinality(Running) >= MaxJobs
  /\ poll' = [step |-> "advance", head |-> hub.head, left |-> Kinds, moved |-> FALSE, review |-> 0, due |-> {}]
  /\ UNCHANGED <<w, hub, wsess, issue, lostNo>>

-----------------------------------------------------------------------------
(* The issue gets a run; a failed run is asked for again once the issue    *)
(* has changed.  rho's own comments do not change it.                      *)
HandIssue ==
  /\ w.home = 0 /\ Len(issue.homes) < MaxIssueRuns
  /\ issue' = [issue EXCEPT !.homes = Append(@, "requested")]
  /\ Records([w EXCEPT !.home = Len(issue.homes) + 1, !.asked = issue.edits])
  /\ UNCHANGED <<poll, hub, wsess>>

(* Mutant: a failed run is asked for again whatever became of the issue.   *)
RerunAlways ==
  /\ w.home # 0 /\ issue.homes[w.home] = "failed" /\ issue.reruns < MaxEdits + MaxLost + 1
  /\ issue' = [issue EXCEPT !.homes[w.home] = "requested", !.reruns = @ + 1]
  /\ Records([w EXCEPT !.asked = issue.edits])
  /\ UNCHANGED <<poll, hub, wsess>>

RerunIssue ==
  /\ w.home # 0 /\ issue.homes[w.home] = "failed" /\ w.asked # issue.edits
  /\ issue' = [issue EXCEPT !.homes[w.home] = "requested", !.reruns = @ + 1]
  /\ Records([w EXCEPT !.asked = issue.edits])
  /\ UNCHANGED <<poll, hub, wsess>>

-----------------------------------------------------------------------------
WatcherNext ==
  \/ Push \/ Comment \/ EditIssue \/ \E h \in DOMAIN issue.homes : IssueRuns(h)
  \/ \E s \in DOMAIN wsess : SessionEnds(s)
  \/ \E k \in Kinds : CreateFor(k) \/ PromptFor(k) \/ StillRunning(k) \/ StopFor(k)
                        \/ EndedOtherwise(k) \/ PostFails(k)
  \/ PostReview \/ PushCommits \/ \E c \in 1..MaxComments : PostReply(c)
  \/ PostRest \/ CommentsDone
  \/ PollGitHub \/ StartComments \/ StartReview \/ NextPoll
  \/ HandIssue \/ RerunIssue

WatcherSpec == WatcherInit /\ [][WatcherNext]_watcherVars

-----------------------------------------------------------------------------
WatcherTypeOK ==
  /\ {w.seen, w.reviewed, w.failed, hub.head} \subseteq 0..MaxHeads
  /\ {w.handled, w.failedThrough, hub.comments} \subseteq 0..MaxComments
  /\ \A k \in Running : Job(k).kind = k /\ Job(k).session \in 0..Len(wsess)
  /\ poll.step \in {"advance", "start"} /\ poll.left \subseteq Kinds /\ poll.due \subseteq 1..MaxComments
  /\ lostNo \in 0..MaxLost

(* What the watcher says on GitHub it says once, but for an effect it lost *)
(* track of: one review of a head, one answer to a comment, one run for an *)
(* issue and one more for each change of it.  And it says it: a comment    *)
(* under the handled mark has been answered.                               *)
SaidOnce ==
  /\ \A h \in 1..MaxHeads : hub.reviews[h] <= 1 + lostNo
  /\ \A c \in 1..MaxComments : hub.answers[c] <= 1 + lostNo
  /\ Len(issue.homes) <= 1 + lostNo
  /\ issue.reruns + 1 <= issue.edits + lostNo
  /\ \A c \in 1..w.handled : hub.answers[c] >= 1
=============================================================================
