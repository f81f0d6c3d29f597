------------------------------- MODULE RunCrash -------------------------------
(***************************************************************************)
(* What the runner does and what it has saved: clients/runs/runner.go with *)
(* a crash between any two of its effects.  RunWorkflow takes doing a      *)
(* step, recording it and saving as one; here a handler changes the world  *)
(* (a session, the worktree, GitHub) and the run in memory, and the save   *)
(* comes after.  A crash forgets `mem` and keeps everything else.          *)
(*                                                                         *)
(* The run is a goal's, from its first task on.  Of its steps those are    *)
(* here whose effects could be repeated or lost: work and fix, which a     *)
(* session does; check, revise and final-review; pr, and merge, which      *)
(* follows it as if the checks on GitHub had passed.  The other steps are  *)
(* of these kinds.                                                         *)
(***************************************************************************)
EXTENDS Naturals, Sequences, FiniteSets

CONSTANTS
  RunTasks,                     \* the tasks of the plan
  RunMaxFixes, RunMaxRevisions, \* MaxFixes and MaxRevisions
  RunSessionTries, RunTries,    \* sessionTries and otherTries
  ForgetsCommit,                \* whether a session may leave its request uncommitted
  MaxRunCrashes,                \* bound on the crashes
  MaxReviews                    \* bound on the reviews that ask for more

ASSUME RunCrashAssumption ==
  /\ {RunTasks, RunSessionTries, RunTries} \subseteq Nat \ {0}
  /\ {RunMaxFixes, RunMaxRevisions, MaxRunCrashes, MaxReviews} \subseteq Nat
  /\ ForgetsCommit \in BOOLEAN

VARIABLES
  mem, disk,  \* the run in memory, and as it was last saved
  at,         \* where in its handler the runner is
  sess,       \* the daemon's sessions of the run: log, state, and whether they wrote
  files,      \* the worktree: the tasks, those ticked, and the revision request
  github,     \* pull requests opened for the branch, and whether it is merged
  past        \* crashes, tries begun, and reviews that found blockers

runCrashVars == <<mem, disk, at, sess, files, github, past>>

SessionStep == {"work", "fix"}
EndedStep == {"done", "failed"}
Absent == "absent"

FreshRun ==
  [step |-> "work", attempt |-> 0, waiting |-> TRUE, session |-> 0, prompted |-> FALSE, nudged |-> 0,
   stopped |-> FALSE, task |-> 0, fixes |-> 0, revisions |-> 0, reviewed |-> FALSE]

RunCrashInit ==
  /\ mem = FreshRun /\ disk = FreshRun /\ at = "tick"
  /\ sess = <<>>
  /\ files = [tasks |-> RunTasks, ticked |-> {}, request |-> Absent]
  /\ github = [opened |-> 0, merged |-> FALSE]
  /\ past = [crashes |-> 0, tries |-> 1, reviews |-> 0]

-----------------------------------------------------------------------------
EnterStep(r, s, fresh) ==
  [r EXCEPT !.step = s, !.attempt = IF fresh THEN 0 ELSE @, !.waiting = s \in SessionStep,
            !.session = 0, !.prompted = FALSE, !.nudged = 0, !.stopped = FALSE]

StepFailed(r) ==
  LET tries == IF r.step \in SessionStep THEN RunSessionTries ELSE RunTries
  IN  IF r.attempt + 1 >= tries THEN EnterStep(r, "failed", TRUE)
      ELSE EnterStep([r EXCEPT !.attempt = @ + 1], r.step, FALSE)

AfterRunCheck(r, passed) ==
  IF passed THEN EnterStep(r, IF r.reviewed THEN "pr" ELSE "final-review", TRUE)
  ELSE IF r.fixes >= RunMaxFixes THEN EnterStep(r, "failed", TRUE)
  ELSE EnterStep([r EXCEPT !.fixes = @ + 1], "fix", TRUE)

AfterRunFix(r, request) ==
  IF request = Absent THEN EnterStep(r, "check", TRUE)
  ELSE IF r.revisions >= RunMaxRevisions THEN EnterStep(r, "failed", TRUE)
  ELSE EnterStep(r, "revise", TRUE)

(* The handler has done its work; what is left of it is to save the run.   *)
Moves(r) ==
  /\ mem' = r /\ at' = "save"
  /\ past' = IF r.step \in SessionStep /\ r.waiting THEN [past EXCEPT !.tries = @ + 1] ELSE past

SaveRunState ==
  /\ at = "save"
  /\ disk' = mem /\ at' = "tick"
  /\ UNCHANGED <<mem, sess, files, github, past>>

-----------------------------------------------------------------------------
(* Starting the step's session: create, save, prompt, save. *)

NewSession == [log |-> <<>>, state |-> "idle", wrote |-> FALSE]

OpenSession ==
  /\ at = "tick" /\ mem.step \in SessionStep /\ mem.waiting
  /\ sess' = Append(sess, NewSession)
  /\ mem' = [mem EXCEPT !.session = Len(sess) + 1, !.waiting = FALSE]
  /\ at' = "created"
  /\ UNCHANGED <<disk, files, github, past>>

(* Mutant: the session is prompted before its id is saved.                 *)
PromptUnsaved ==
  /\ at = "created"
  /\ at' = "prompt"
  /\ UNCHANGED <<mem, disk, sess, files, github, past>>

SaveSessionId ==
  /\ at = "created"
  /\ disk' = mem /\ at' = "prompt"
  /\ UNCHANGED <<mem, sess, files, github, past>>

NextTask == CHOOSE i \in 1..files.tasks \ files.ticked : \A j \in 1..files.tasks \ files.ticked : i <= j

(* The daemon takes a message once, by its client_id, and a message that   *)
(* it has already starts nothing.                                          *)
Told(s, message) ==
  IF message \in {s.log[i] : i \in DOMAIN s.log} THEN s
  ELSE [s EXCEPT !.log = Append(@, message), !.state = "running"]

(* The first prompt is about the first task not ticked; asked again after  *)
(* a crash it is the same prompt, for only the runner ticks.               *)
SendFirst ==
  /\ at = "prompt"
  /\ sess' = [sess EXCEPT ![mem.session] = Told(@, "prompt")]
  /\ mem' = [mem EXCEPT !.prompted = TRUE, !.task = IF mem.step = "work" THEN NextTask ELSE @]
  /\ at' = "save"
  /\ UNCHANGED <<disk, files, github, past>>

-----------------------------------------------------------------------------
(* Looking at the session: observe and produced. *)

Session == sess[mem.session]
Observing == at = "tick" /\ mem.step \in SessionStep /\ ~mem.waiting

AnsweredAfter(log, n) == \E i \in DOMAIN log : i > n /\ log[i] = "answer"
Missing == mem.step = "work" /\ ~Session.wrote

(* A restart came between creating the session and prompting it.           *)
PromptLate ==
  /\ Observing /\ ~mem.prompted
  /\ at' = "prompt"
  /\ UNCHANGED <<mem, disk, sess, files, github, past>>

(* It ended its turn with nothing written: it is told so, once.            *)
Nudge ==
  /\ Observing /\ mem.prompted /\ Session.state = "idle" /\ AnsweredAfter(Session.log, mem.nudged)
  /\ ~mem.stopped /\ mem.nudged = 0 /\ Missing
  /\ sess' = [sess EXCEPT ![mem.session] = Told(@, "nudge")]
  /\ mem' = [mem EXCEPT !.nudged = Len(Session.log)]
  /\ at' = "save"
  /\ UNCHANGED <<disk, files, github, past>>

(* It is done with: that it is the runner who stops it is saved first.     *)
MarkStopped ==
  /\ Observing /\ mem.prompted /\ Session.state = "idle" /\ AnsweredAfter(Session.log, mem.nudged)
  /\ mem.stopped \/ mem.nudged # 0 \/ ~Missing
  /\ mem' = [mem EXCEPT !.stopped = TRUE] /\ disk' = mem'
  /\ at' = "stop"
  /\ UNCHANGED <<sess, files, github, past>>

StopSession ==
  /\ at = "stop"
  /\ sess' = [sess EXCEPT ![mem.session].state = "completed"]
  /\ at' = "judge"
  /\ UNCHANGED <<mem, disk, files, github, past>>

(* It was stopped already: by the runner, before a crash, or by someone.   *)
FoundStopped ==
  /\ Observing /\ mem.prompted /\ Session.state = "completed"
  /\ IF mem.stopped THEN at' = "judge" /\ UNCHANGED <<mem, past, files>>
     ELSE Moves(StepFailed(mem)) /\ files' = [files EXCEPT !.request = Absent]
  /\ UNCHANGED <<disk, sess, github>>

(* What it left is what counts.  A session that wrote nothing is thrown    *)
(* away; a task done is ticked, in a commit; a fix may ask for a revision. *)
Judge ==
  /\ at = "judge"
  /\ \/ /\ mem.step = "work" /\ ~Session.wrote
        /\ Moves(StepFailed(mem)) /\ UNCHANGED files
     \/ /\ mem.step = "work" /\ Session.wrote
        /\ files' = [files EXCEPT !.ticked = @ \cup {mem.task}]
        /\ Moves(EnterStep(mem, IF files'.ticked = 1..files.tasks THEN "check" ELSE "work", TRUE))
     \/ /\ mem.step = "fix"
        /\ Moves(AfterRunFix(mem, files.request)) /\ UNCHANGED files
  /\ UNCHANGED <<disk, sess, github>>

-----------------------------------------------------------------------------
(* The steps the runner does itself. *)

(* Git, GitHub or Claude fails the step.                                   *)
OwnStepFails ==
  /\ at = "tick" /\ mem.step \in {"check", "revise", "final-review", "pr", "merge"}
  /\ Moves(StepFailed(mem))
  /\ UNCHANGED <<disk, sess, files, github>>

RunCheck ==
  /\ at = "tick" /\ mem.step = "check"
  /\ \E passed \in BOOLEAN : Moves(AfterRunCheck(mem, passed))
  /\ UNCHANGED <<disk, sess, files, github>>

(* Claude has answered, and the request is removed in a commit.  git rm    *)
(* takes only a file that is committed, and its error is no try of the     *)
(* step: the run stays where it is, to the next poll.                      *)
Revise ==
  /\ at = "tick" /\ mem.step = "revise" /\ files.request = "committed"
  /\ files' = [files EXCEPT !.request = Absent]
  /\ Moves(EnterStep([mem EXCEPT !.revisions = @ + 1], "check", TRUE))
  /\ UNCHANGED <<disk, sess, github>>

(* The blockers become tasks, in a commit, or the work may go up.          *)
FinalReview ==
  /\ at = "tick" /\ mem.step = "final-review"
  /\ \/ /\ past.reviews < MaxReviews
        /\ files' = [files EXCEPT !.tasks = @ + 1]
        /\ LET r == EnterStep([mem EXCEPT !.reviewed = TRUE], "work", TRUE)
           IN  /\ mem' = r /\ at' = "save"
               /\ past' = [past EXCEPT !.tries = @ + 1, !.reviews = @ + 1]
     \/ /\ Moves(EnterStep([mem EXCEPT !.reviewed = TRUE], "pr", TRUE)) /\ UNCHANGED files
  /\ UNCHANGED <<disk, sess, github>>

(* Mutant: the branch's open pull request is not looked for.               *)
OpenAnother ==
  /\ at = "tick" /\ mem.step = "pr"
  /\ github' = [github EXCEPT !.opened = @ + 1]
  /\ Moves(EnterStep(mem, "merge", TRUE))
  /\ UNCHANGED <<disk, sess, files>>

(* The branch's open pull request is taken over, or one is opened.         *)
OpenRunPR ==
  /\ at = "tick" /\ mem.step = "pr"
  /\ github' = [github EXCEPT !.opened = IF @ = 0 THEN 1 ELSE @]
  /\ Moves(EnterStep(mem, "merge", TRUE))
  /\ UNCHANGED <<disk, sess, files>>

(* gh may or may not take it as an error that the branch is merged.        *)
MergePR ==
  /\ at = "tick" /\ mem.step = "merge"
  /\ github' = [github EXCEPT !.merged = TRUE]
  /\ \/ Moves(EnterStep(mem, "done", TRUE))
     \/ github.merged /\ Moves(StepFailed(mem))
  /\ UNCHANGED <<disk, sess, files>>

-----------------------------------------------------------------------------
(* A session's turn ends; a work session may have committed something, and *)
(* a fix may have written its request.                                     *)
Turn(s) ==
  /\ sess[s].state = "running"
  /\ \E wrote \in BOOLEAN :
       sess' = [sess EXCEPT ![s] = [log |-> Append(@.log, "answer"), state |-> "idle",
                                    wrote |-> @.wrote \/ wrote]]
  /\ files' \in {files} \cup
       (IF mem.step # "fix" THEN {}
        ELSE {[files EXCEPT !.request = q] :
                q \in {"committed"} \cup IF ForgetsCommit THEN {"untracked"} ELSE {}})
  /\ UNCHANGED <<mem, disk, at, github, past>>

(* Someone stops a session.                                                *)
StoppedByOther(s) ==
  /\ sess[s].state = "running"
  /\ sess' = [sess EXCEPT ![s].state = "completed"]
  /\ UNCHANGED <<mem, disk, at, files, github, past>>

RunnerCrash ==
  /\ past.crashes < MaxRunCrashes
  /\ mem # disk \/ at # "tick"
  /\ mem' = disk /\ at' = "tick"
  /\ past' = [past EXCEPT !.crashes = @ + 1]
  /\ UNCHANGED <<disk, sess, files, github>>

RunnerStep ==
  \/ SaveRunState \/ OpenSession \/ SaveSessionId \/ SendFirst \/ PromptLate \/ Nudge
  \/ MarkStopped \/ StopSession \/ FoundStopped \/ Judge
  \/ RunCheck \/ Revise \/ FinalReview \/ OpenRunPR \/ MergePR

RunCrashNext ==
  \/ RunnerStep \/ OwnStepFails \/ RunnerCrash
  \/ \E s \in DOMAIN sess : Turn(s) \/ StoppedByOther(s)

RunCrashSpec == RunCrashInit /\ [][RunCrashNext]_runCrashVars

(* The runner polls for as long as it lives and a turn comes to its end.   *)
RunCrashFair ==
  /\ RunCrashSpec
  /\ WF_runCrashVars(RunnerStep)
  /\ WF_runCrashVars(\E s \in DOMAIN sess : Turn(s))

-----------------------------------------------------------------------------
Prompted == {s \in DOMAIN sess : sess[s].log # <<>>}

RunCrashTypeOK ==
  /\ {mem, disk} \subseteq
       [step : SessionStep \cup EndedStep \cup {"check", "revise", "final-review", "pr", "merge"},
        attempt : Nat, waiting : BOOLEAN, session : 0..Len(sess), prompted : BOOLEAN, nudged : Nat,
        stopped : BOOLEAN, fixes : 0..RunMaxFixes, revisions : 0..RunMaxRevisions,
        task : Nat, reviewed : BOOLEAN]
  /\ at \in {"tick", "save", "created", "prompt", "stop", "judge"}
  /\ files.request \in {Absent, "committed", "untracked"}

(* What a crash may not do: no try of a step has two sessions at work (one *)
(* made and lost was never prompted), a branch has one pull request, and a *)
(* run that is done has its branch merged.                                 *)
NothingIsDoneTwice ==
  /\ Cardinality(Prompted) <= past.tries
  /\ Cardinality({s \in DOMAIN sess : sess[s].state = "running"}) <= 1
  /\ github.opened <= 1
  /\ mem.step = "done" => github.merged

(* A run ends: done, or failed when its tries are over.                    *)
RunConcludes == <>(mem.step \in EndedStep)
=============================================================================
