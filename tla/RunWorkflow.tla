---------------------------- MODULE RunWorkflow ----------------------------
(***************************************************************************)
(* One task run of the runner client: clients/runs/transition.go, the      *)
(* whole workflow as a pure function of a run and of what came of its      *)
(* step, and the parts of runner.go that decide what came of it.           *)
(*                                                                         *)
(* `run` is the Run record of state.go, less the texts that only prompts   *)
(* carry.  A step a session does waits for a slot, is begun and ends; a    *)
(* step without one is performed.  Doing a step, recording it, taking the  *)
(* transition and saving are one action here: a crash among them is not    *)
(* modelled.                                                               *)
(*                                                                         *)
(* The sessions, Claude, the checks on GitHub and the owner are the        *)
(* environment: what they produce is any choice the runner accepts or      *)
(* throws away.  The caps are constants.                                   *)
(***************************************************************************)
EXTENDS Naturals

CONSTANTS
  MaxFixes, MaxRevisions, MaxReplans, MaxRefusals, MaxCIFixes,
  SessionTries, OtherTries, CITries,
  MaxTasks      \* bound on the tasks a plan has, blockers included

ASSUME CapsAssumption ==
  /\ MaxFixes \in Nat /\ MaxReplans \in Nat /\ MaxRefusals \in Nat /\ MaxCIFixes \in Nat
  /\ MaxRevisions \in Nat \ {0}  \* a resume at revise makes one whatever the cap
ASSUME TriesAssumption ==
  SessionTries \in Nat \ {0} /\ OtherTries \in Nat \ {0} /\ CITries \in Nat \ {0}
ASSUME TasksAssumption == MaxTasks \in Nat \ {0}

VARIABLES
  run,     \* the run, as the runner saves it
  tree,    \* the worktree: what of the run's files is there (`here`) and in its last commit
           \* (`head`), the requests in the branch as it was last pushed (`pushed`), and
           \* whether other files lie there that no commit has (`loose`)
  (* records of what has been, for the properties *)
  green,   \* whether verify.sh has passed on the commits as they are, alone ("alone") or
           \* with files beside them that no commit had ("beside")
  gates    \* Claude's gates passed since the run was last planned

vars == <<run, tree, green, gates>>
ghosts == <<green, gates>>

SessionSteps == {"brief", "plan", "tasks", "verify", "work", "fix", "ci-fix", "reflect"}
ClaudeSteps  == {"plan-review", "verify-review", "revise", "final-review", "replan-review"}
OwnSteps     == {"setup", "check", "pr", "ci", "push", "merge"}
OverSteps    == {"done", "failed"}
Steps        == SessionSteps \cup ClaudeSteps \cup OwnSteps \cup OverSteps

(* The steps that carry the plan out, whose session may say it cannot work. *)
Claims == {"work", "fix", "ci-fix"}

None == "none"
Requests  == {"replan", "revision"}   \* replan-request.md and verify-revision.md
Files     == [asks : SUBSET Requests, left : 0..MaxTasks]   \* left: unchecked in tasks.md
Trees     == [here : Files, head : Files, pushed : SUBSET Requests, loose : BOOLEAN]
CIResults == {"pass", "fail", "merged", "closed"}

NewRun(brief, goal) ==
  [step |-> "setup", failedAt |-> None, attempt |-> 0, fixes |-> 0, ciFixes |-> 0,
   revisions |-> 0, replans |-> 0, refusals |-> 0, replanFrom |-> None,
   finalReviewed |-> FALSE, waiting |-> FALSE, session |-> FALSE, finding |-> FALSE,
   parked |-> FALSE, skip |-> FALSE, pr |-> FALSE, worked |-> FALSE,
   brief |-> brief, goal |-> goal]

Init ==
  /\ \E brief, goal \in BOOLEAN : run = NewRun(brief, goal)
  /\ LET none == [asks |-> {}, left |-> 0]
     IN  tree = [here |-> none, head |-> none, pushed |-> {}, loose |-> FALSE]
  /\ green = "no" /\ gates = {}

-----------------------------------------------------------------------------
(* What came of a step: Outcome. *)
Did ==
  [ok |-> TRUE, wait |-> FALSE, checkPassed |-> FALSE, revision |-> FALSE, tasksLeft |-> 0,
   blockers |-> FALSE, ci |-> None, replanRequest |-> FALSE, replan |-> FALSE]
DidNot == [Did EXCEPT !.ok = FALSE]
Waits  == [Did EXCEPT !.ok = FALSE, !.wait = TRUE]

(* A run put at a step.  Its last session is finished with, and a session  *)
(* step waits for a slot.                                                  *)
Enter(r, s, fresh) ==
  [r EXCEPT !.step = s, !.attempt = IF fresh THEN 0 ELSE @, !.session = FALSE,
            !.finding = FALSE, !.waiting = s \in SessionSteps]

(* Mutant: the reflection's end does not look whether the run failed. *)
FinishDone(r) ==
  IF r.step # "reflect" /\ r.worked THEN Enter(r, "reflect", TRUE) ELSE Enter(r, "done", TRUE)

(* A run ends, after a reflection if a session worked on it. *)
Finish(r) ==
  IF r.step # "reflect" /\ r.worked THEN Enter(r, "reflect", TRUE)
  ELSE IF r.failedAt # None THEN Enter(r, "failed", TRUE) ELSE Enter(r, "done", TRUE)

Fail(r, at) == Finish([r EXCEPT !.failedAt = at])

(* Mutant: the old plan is kept, and only its tasks are made again. *)
ReplanTasks(r) ==
  IF r.replans + 1 > MaxReplans
    THEN Fail([r EXCEPT !.replans = @ + 1], "plan")
    ELSE Enter([r EXCEPT !.replans = @ + 1, !.finalReviewed = FALSE, !.fixes = 0, !.revisions = 0],
               "tasks", TRUE)

(* Back to plan, with the counts kept against the old check started again. *)
Replan(r) ==
  IF r.replans + 1 > MaxReplans
    THEN Fail([r EXCEPT !.replans = @ + 1], "plan")
    ELSE Enter([r EXCEPT !.replans = @ + 1, !.finalReviewed = FALSE, !.fixes = 0, !.revisions = 0],
               "plan", TRUE)

Tries(s) == IF s \in SessionSteps THEN SessionTries ELSE IF s = "ci" THEN CITries ELSE OtherTries

(* The step did not work: once more, or the run fails at it. *)
Retry(r) ==
  LET q == [r EXCEPT !.attempt = @ + 1]
  IN  IF q.attempt >= Tries(r.step) THEN Fail(q, r.step) ELSE Enter(q, r.step, FALSE)

-----------------------------------------------------------------------------
(* Where each step that worked leads. *)

AfterTasks(r, o) == Enter(r, IF o.tasksLeft > 0 THEN "work" ELSE "check", TRUE)

(* Mutants of AfterCheck: a cap off by one, and fixes that are not counted. *)
AfterCheckLate(r, o) ==
  IF o.checkPassed
    THEN Enter(r, IF r.pr THEN "push" ELSE IF r.finalReviewed THEN "pr" ELSE "final-review", TRUE)
    ELSE IF r.fixes > MaxFixes THEN Fail(r, "fix") ELSE Enter([r EXCEPT !.fixes = @ + 1], "fix", TRUE)

AfterCheckUncounted(r, o) ==
  IF o.checkPassed
    THEN Enter(r, IF r.pr THEN "push" ELSE IF r.finalReviewed THEN "pr" ELSE "final-review", TRUE)
    ELSE IF r.fixes >= MaxFixes THEN Fail(r, "fix") ELSE Enter(r, "fix", TRUE)

AfterCheck(r, o) ==
  IF o.checkPassed
    THEN Enter(r, IF r.pr THEN "push" ELSE IF r.finalReviewed THEN "pr" ELSE "final-review", TRUE)
    ELSE IF r.fixes >= MaxFixes
           THEN Fail(r, "fix")
           ELSE Enter([r EXCEPT !.fixes = @ + 1], "fix", TRUE)

(* Mutant: once a PR is open, a fix goes up to it unchecked. *)
AfterFixUnchecked(r, o) ==
  IF o.revision
    THEN IF r.revisions >= MaxRevisions THEN Fail(r, "revise") ELSE Enter(r, "revise", TRUE)
    ELSE Enter(r, IF r.pr THEN "push" ELSE "check", TRUE)

AfterFix(r, o) ==
  IF o.revision
    THEN IF r.revisions >= MaxRevisions THEN Fail(r, "revise") ELSE Enter(r, "revise", TRUE)
    ELSE Enter(r, "check", TRUE)

AfterReplanReview(r, o) ==
  IF o.replan THEN Replan(r)
  ELSE LET q == [r EXCEPT !.refusals = @ + 1]
       IN  IF q.refusals > MaxRefusals THEN Fail(q, r.replanFrom) ELSE Enter(q, r.replanFrom, TRUE)

AfterFinalReview(r, o) ==
  Enter([r EXCEPT !.finalReviewed = TRUE], IF o.blockers THEN "work" ELSE "pr", TRUE)

AfterCI(r, o) ==
  CASE o.ci = "pass"   -> IF r.goal THEN Enter(r, "merge", TRUE) ELSE Finish(r)
    [] o.ci = "merged" -> Finish(r)
    [] o.ci = "closed" -> Fail(r, "ci")
    [] o.ci = "fail"   -> IF r.ciFixes >= MaxCIFixes
                            THEN Fail(r, "ci-fix")
                            ELSE Enter([r EXCEPT !.ciFixes = @ + 1], "ci-fix", TRUE)
    [] OTHER           -> r

(* The steps that lead one way. *)
Straight ==
  [s \in {"brief", "plan", "plan-review", "verify", "verify-review", "pr", "push"} |->
     CASE s = "brief"         -> "plan"
       [] s = "plan"          -> "plan-review"
       [] s = "plan-review"   -> "verify"
       [] s = "verify"        -> "verify-review"
       [] s = "verify-review" -> "tasks"
       [] OTHER               -> "ci"]

Onward(r, o) ==
  CASE r.step = "setup"              -> Enter(r, IF r.brief THEN "plan" ELSE "brief", TRUE)
    [] r.step \in DOMAIN Straight    -> Enter(r, Straight[r.step], TRUE)
    [] r.step \in {"tasks", "work"}  -> AfterTasks(r, o)
    [] r.step = "check"              -> AfterCheck(r, o)
    [] r.step \in {"fix", "ci-fix"}  -> AfterFix(r, o)
    [] r.step = "revise"             -> Enter([r EXCEPT !.revisions = @ + 1], "check", TRUE)
    [] r.step = "replan-review"      -> AfterReplanReview(r, o)
    [] r.step = "final-review"       -> AfterFinalReview(r, o)
    [] r.step = "merge"              -> Finish(r)
    [] r.step = "ci"                 -> AfterCI(r, o)

(* Mutant: a skip is not spent by the gate it was given at. *)
PassedSkipping(r, o) ==
  IF r.step \in Claims /\ o.replan THEN Replan(r)
  ELSE IF r.step \in Claims /\ o.replanRequest
         THEN Enter([r EXCEPT !.replanFrom = r.step], "replan-review", TRUE)
         ELSE Onward(r, o)

(* The step worked.  A skip goes no further than its gate; a session that  *)
(* carries the plan out may send the run back to it.                       *)
Passed(r, o) ==
  LET q == [r EXCEPT !.skip = FALSE]
  IN  IF r.step \in Claims /\ o.replan THEN Replan(q)
      ELSE IF r.step \in Claims /\ o.replanRequest
             THEN Enter([q EXCEPT !.replanFrom = r.step], "replan-review", TRUE)
             ELSE Onward(q, o)

(* Mutant: a reflection is tried and failed as any other step is. *)
TransitionReflects(r, o) ==
  LET q == [r EXCEPT !.parked = FALSE]
  IN  IF r.step \in OverSteps THEN r
      ELSE IF o.wait THEN [r EXCEPT !.parked = TRUE]
      ELSE IF ~o.ok THEN Retry(q)
      ELSE IF r.step = "reflect" THEN Finish(q)
      ELSE Passed(q, o)

(* Whatever comes of the reflection, the run ends. *)
Transition(r, o) ==
  LET q == [r EXCEPT !.parked = FALSE]
  IN  IF r.step \in OverSteps THEN r
      ELSE IF o.wait THEN [r EXCEPT !.parked = TRUE]
      ELSE IF r.step = "reflect" THEN Finish(q)
      ELSE IF ~o.ok THEN Retry(q)
      ELSE Passed(q, o)

(* Mutant: where the run failed is cleared before it is looked at. *)
ResumeForgets(r) ==
  LET q == [r EXCEPT !.replans = 0, !.refusals = 0, !.failedAt = None]
  IN  Enter(q, q.failedAt, TRUE)

(* A failed run put back at the step it failed at, with that step's count  *)
(* started again.                                                          *)
Resume(r) ==
  LET q == [r EXCEPT !.replans = 0, !.refusals = 0, !.failedAt = None]
  IN  CASE r.failedAt = "fix"    -> Enter([q EXCEPT !.fixes = 0], "check", TRUE)
        [] r.failedAt = "revise" -> Enter([q EXCEPT !.revisions = 0], "revise", TRUE)
        [] r.failedAt = "ci-fix" -> Enter([q EXCEPT !.ciFixes = 0], "ci", TRUE)
        [] OTHER                 -> Enter(q, r.failedAt, TRUE)

-----------------------------------------------------------------------------
(* The runner. *)

(* advance, for one step: record puts the step's session in the run's      *)
(* history, then the transition.                                           *)
Advance(r, o) == run' = Transition([r EXCEPT !.worked = @ \/ r.session], o)

(* A plan made again has every gate before it. *)
Passes(gate) == gates' = IF run'.replans > run.replans THEN {} ELSE gates \cup gate

(* A step without a session failed. *)
Fails == Advance(run, DidNot) /\ UNCHANGED <<tree, ghosts>>

(* resetHard, to the last commit there was when the session began: what it *)
(* committed goes, and all that no commit has.                             *)
Reset == tree' = [tree EXCEPT !.here = tree.head, !.loose = FALSE]

(* discard: the step's session failed. *)
Discards == Advance(run, DidNot) /\ Reset /\ UNCHANGED ghosts

At(s)   == run.step = s /\ ~run.waiting
Ends(s) == At(s) /\ run.session

(* A work session's prompt names the next task.  Without one begin fails,  *)
(* at this poll and at every other, and no try is counted.                 *)
NoTask == run.step = "work" /\ run.waiting /\ tree.here.left = 0

(* Start: a waiting step gets its session. *)
Begin ==
  /\ run.waiting /\ ~NoTask
  /\ run' = [run EXCEPT !.session = TRUE, !.waiting = FALSE]
  /\ UNCHANGED <<tree, ghosts>>

BeginFails == NoTask /\ UNCHANGED vars

(* The claude module's own question was answered that the plan cannot      *)
(* work: the session is stopped for it.                                    *)
Watch ==
  /\ run.step \in Claims /\ run.session /\ ~run.finding
  /\ run' = [run EXCEPT !.finding = TRUE]
  /\ UNCHANGED <<tree, ghosts>>

(* The session of a planning step leaves its file, committed if need be,   *)
(* and nothing else that is not committed, or the step failed.             *)
PlanningEnds ==
  \/ /\ \E s \in {"brief", "plan", "tasks", "verify"} : Ends(s)
     /\ Discards
  \/ /\ \E s \in {"brief", "plan", "verify"} : Ends(s)
     /\ Advance([run EXCEPT !.brief = @ \/ run.step = "brief"], Did)
     /\ Reset
     /\ green' = (IF run.step = "verify" THEN "no" ELSE green)
     /\ UNCHANGED gates
  \/ /\ Ends("tasks")
     /\ \E n \in 0..MaxTasks :
          /\ tree' = [tree EXCEPT !.head.left = n, !.here = [tree.head EXCEPT !.left = n], !.loose = FALSE]
          /\ Advance(run, [Did EXCEPT !.tasksLeft = n])
     /\ UNCHANGED ghosts

(* What a session that carries the plan out leaves: its requests and what  *)
(* it kept of those that were there, task boxes as it ticked or added      *)
(* them, and of all this what it committed.                                *)
Leaves ==
  /\ tree' \in Trees /\ tree'.pushed = tree.pushed
  /\ tree'.head.asks \subseteq tree.head.asks \cup tree'.here.asks
  /\ green' = "no"

(* replanned: Claude's verdict is what the step produced.  What the        *)
(* session committed stays, and the rest goes.                             *)
VerdictEnds ==
  /\ \E s \in Claims : Ends(s)
  /\ run.finding
  /\ Leaves /\ tree'.here = tree'.head /\ ~tree'.loose
  /\ Advance(run, [Did EXCEPT !.replan = TRUE])
  /\ Passes({})

(* produced, of a session that carries the plan out: a request to plan     *)
(* again comes before anything else, and is committed by the runner if     *)
(* the session has not.                                                    *)
AsksToReplan ==
  /\ "replan" \in tree'.here.asks /\ "replan" \in tree'.head.asks
  /\ Advance(run, [Did EXCEPT !.replanRequest = TRUE])

(* The box of the task is ticked and the tasks are counted again, for the  *)
(* session may have ticked and added any.                                  *)
WorkEnds ==
  /\ Ends("work") /\ ~run.finding
  /\ \/ Discards
     \/ /\ Leaves
        /\ \/ AsksToReplan
           \/ /\ "replan" \notin tree'.here.asks
              /\ Advance(run, [Did EXCEPT !.tasksLeft = tree'.here.left])
        /\ UNCHANGED gates

FixEnds ==
  /\ Ends("fix") \/ Ends("ci-fix")
  /\ ~run.finding
  /\ \/ Discards
     \/ /\ Leaves
        /\ \/ AsksToReplan
           \/ /\ "replan" \notin tree'.here.asks
              /\ Advance(run, [Did EXCEPT !.revision = "revision" \in tree'.here.asks])
        /\ UNCHANGED gates

(* What a reflection changed in the worktree goes. *)
ReflectEnds ==
  /\ Ends("reflect")
  /\ \E o \in {Did, DidNot} : Advance(run, o)
  /\ Reset
  /\ UNCHANGED ghosts

-----------------------------------------------------------------------------
(* perform: the steps without a session. *)

Setup ==
  /\ At("setup")
  /\ Fails \/ (Advance(run, Did) /\ UNCHANGED <<tree, ghosts>>)

(* A gate asks Claude, unless the owner has passed it: then it cannot fail. *)
GateFails == run.step \in ClaudeSteps /\ ~run.skip /\ Fails

PlanReview ==
  /\ At("plan-review")
  /\ Advance(run, Did)
  /\ Passes({"plan-review"})
  /\ UNCHANGED <<tree, green>>

(* Claude may replace verify.sh. *)
Rewrites == green' \in {green} \cup IF run.skip THEN {} ELSE {"no"}

VerifyReview ==
  /\ At("verify-review")
  /\ Advance(run, Did)
  /\ Passes({"verify-review"})
  /\ Rewrites
  /\ UNCHANGED tree

(* Remove is `git rm`: of a file the last commit has, and of no other. *)
Removable(request) == request \in tree.head.asks

Removed(request) == tree' = [tree EXCEPT !.here.asks = @ \ {request}, !.head.asks = @ \ {request}]

Revise ==
  /\ At("revise") /\ Removable("revision")
  /\ Advance(run, Did)
  /\ Removed("revision")
  /\ Rewrites
  /\ UNCHANGED gates

(* perform returns the error of `git rm`: no try is counted, and the next  *)
(* poll asks Claude again.                                                 *)
ReviseFails ==
  /\ At("revise") /\ ~Removable("revision")
  /\ Rewrites
  /\ UNCHANGED <<run, tree, gates>>

(* Claude agrees that the plan cannot work, or refuses; the owner who skips *)
(* the gate refuses.                                                        *)
ReplanReview ==
  /\ At("replan-review") /\ Removable("replan")
  /\ \E agrees \in BOOLEAN : /\ agrees => ~run.skip
                             /\ Advance(run, [Did EXCEPT !.replan = agrees])
  /\ Passes({})
  /\ Removed("replan")
  /\ UNCHANGED green

(* The blockers Claude finds become tasks. *)
FinalReview ==
  /\ At("final-review")
  /\ \/ UNCHANGED tree /\ Advance(run, Did)
     \/ /\ ~run.skip
        /\ \E n \in (tree.here.left + 1)..MaxTasks :
             tree' = [tree EXCEPT !.here.left = n, !.head.left = n]
        /\ Advance(run, [Did EXCEPT !.blockers = TRUE])
  /\ Passes({"final-review"})
  /\ UNCHANGED green

(* verify.sh runs in the worktree, on whatever is there. *)
Clean == tree.here = tree.head /\ ~tree.loose

Check ==
  /\ At("check")
  /\ \/ Fails
     \/ /\ \E passed \in BOOLEAN :
             /\ Advance(run, [Did EXCEPT !.checkPassed = passed])
             /\ green' = IF ~passed THEN "no" ELSE IF Clean THEN "alone" ELSE "beside"
        /\ UNCHANGED <<tree, gates>>

(* The branch is pushed: its commits, and nothing else of the worktree. *)
Pushes == tree' = [tree EXCEPT !.pushed = tree.head.asks]

(* The PR is opened, or found open already.  It may fail after the push. *)
PR ==
  /\ At("pr")
  /\ \/ Advance(run, DidNot) /\ (Pushes \/ UNCHANGED tree)
     \/ Advance([run EXCEPT !.pr = TRUE], Did) /\ Pushes
  /\ UNCHANGED ghosts

CI ==
  /\ At("ci")
  /\ \/ Fails
     \/ /\ \E ci \in CIResults : Advance(run, [Did EXCEPT !.ci = ci])
        /\ UNCHANGED <<tree, ghosts>>

(* Pushed; or the branch had moved, and the fix is dropped for what it has *)
(* moved to: what was pushed before, and the work of others.               *)
Push ==
  /\ At("push")
  /\ \/ Fails
     \/ Advance(run, Did) /\ Pushes /\ UNCHANGED ghosts
     \/ /\ Advance(run, Did)
        /\ \E n \in 0..MaxTasks : LET moved == [asks |-> tree.pushed, left |-> n]
                                 IN  tree' = [tree EXCEPT !.here = moved, !.head = moved, !.loose = FALSE]
        /\ green' = "no"
        /\ UNCHANGED gates

Merge ==
  /\ At("merge")
  /\ Fails \/ (Advance(run, Did) /\ UNCHANGED <<tree, ghosts>>)

(* Claude is not answering: the gate waits, at no cost. *)
Park ==
  /\ run.step \in ClaudeSteps /\ ~run.skip
  /\ run' = Transition(run, Waits)
  /\ UNCHANGED <<tree, ghosts>>

-----------------------------------------------------------------------------
(* The owner. *)

(* pickUpSkips: a skip counts at one of Claude's gates. *)
Skip ==
  /\ run.step \in ClaudeSteps
  /\ run' = [run EXCEPT !.skip = TRUE]
  /\ UNCHANGED <<tree, ghosts>>

(* pickUp, of a failed run.  The brief is taken again from the home. *)
PickUp ==
  /\ run.step = "failed"
  /\ \E brief \in {run.brief, TRUE} : run' = [Resume(run) EXCEPT !.brief = brief]
  /\ UNCHANGED <<tree, ghosts>>

(* A run that is done stays so. *)
Rest == run.step = "done" /\ UNCHANGED vars

Progress ==
  \/ Begin \/ PlanningEnds \/ VerdictEnds \/ WorkEnds \/ FixEnds \/ ReflectEnds
  \/ Setup \/ GateFails \/ PlanReview \/ VerifyReview \/ Revise \/ ReviseFails \/ ReplanReview \/ FinalReview
  \/ Check \/ PR \/ CI \/ Push \/ Merge

Next == Progress \/ BeginFails \/ Watch \/ Park \/ Skip \/ PickUp \/ Rest

Spec == Init /\ [][Next]_vars

(* The runner polls for ever.  A session ends, Claude and the checks       *)
(* answer in the end, and a slot comes free.  The owner need do nothing.   *)
LiveSpec == Spec /\ WF_vars(Progress)

-----------------------------------------------------------------------------
(* What is promised. *)

RunType ==
  [step : Steps, failedAt : (Steps \ OverSteps) \cup {None}, attempt : Nat, fixes : Nat,
   ciFixes : Nat, revisions : Nat, replans : Nat, refusals : Nat, replanFrom : Claims \cup {None},
   finalReviewed : BOOLEAN, waiting : BOOLEAN, session : BOOLEAN, finding : BOOLEAN,
   parked : BOOLEAN, skip : BOOLEAN, pr : BOOLEAN, worked : BOOLEAN,
   brief : BOOLEAN, goal : BOOLEAN]

TypeOK ==
  /\ run \in RunType
  /\ tree \in Trees
  /\ green \in {"no", "beside", "alone"}
  /\ gates \subseteq ClaudeSteps

(* No cap is passed, whatever way a run comes by a step: a step is tried   *)
(* fewer times than its limit, and only a run that has failed, or is about *)
(* to, has a count of re-plans or refusals one past its cap                *)
(* (transition.go:5-29).                                                   *)
CapsHold ==
  /\ run.attempt < Tries(run.step)
  /\ run.fixes <= MaxFixes /\ run.revisions <= MaxRevisions /\ run.ciFixes <= MaxCIFixes
  /\ run.replans <= MaxReplans + 1 /\ run.refusals <= MaxRefusals + 1
  /\ run.failedAt = None => run.replans <= MaxReplans /\ run.refusals <= MaxRefusals

(* Nothing is reviewed for a PR, opened as one or pushed to one before     *)
(* verify.sh has passed on its commits as they are, and not as they were   *)
(* before some fix, revision or new plan: on the commits alone, or, where  *)
(* a session left files it did not commit, with those beside them          *)
(* (ChecksWhatItPushes is about those).                                    *)
PublishedIsChecked == run.step \in {"final-review", "pr", "push"} => green # "no"

(* No step works to a plan or a check that has not been through Claude's   *)
(* gates since the run was last planned, on any way back from a re-plan or *)
(* a resume.                                                               *)
GatesPassed ==
  run.step \in {"tasks", "work", "check", "fix", "revise", "final-review", "pr", "ci", "ci-fix",
                "push", "merge", "replan-review"}
    => {"plan-review", "verify-review"} \subseteq gates

(* A run is done only with a PR and with nothing it failed at, and failed  *)
(* only with the step it can be resumed at.                                *)
EndsTruly ==
  /\ run.step = "done" => run.pr /\ run.failedAt = None
  /\ run.step = "failed" => run.failedAt # None

(* Why a run failed survives the reflection in between: only a resume      *)
(* takes it away (transition.go:247-249).                                  *)
ReasonStands ==
  [][run.failedAt # None => run'.failedAt = run.failedAt \/ run.step = "failed"]_vars

(* A skip never passes a gate the owner has not seen (runner.go:211-213):  *)
(* it is spent where it was given.                                         *)
SkipStays == [][run.skip /\ run'.skip => run'.step = run.step]_vars

(* Where every poll meets the same error, and no try is counted.           *)
Wedged == NoTask \/ (At("revise") /\ ~Removable("revision"))

(* A work session that did its job leaves, committed, fewer tasks than     *)
(* there were: one ticked without a commit is back after the next discard. *)
Advances ==
  Ends("work") /\ run'.step = "work" /\ run'.attempt = 0 /\ ~run'.session
    => tree'.head.left < tree.head.left

(* The caps bound every way round but one: a run that is asked for, or     *)
(* resumed, ends or is wedged, unless there is no end to work sessions     *)
(* that leave as many tasks as they found, which nothing counts            *)
(* (transition.go:5-29, 124).                                              *)
RunEnds ==
  <>[][Advances]_vars
    => (run.step \notin OverSteps ~> run.step \in OverSteps \/ Wedged)

-----------------------------------------------------------------------------
(* What the documents say and the code does not do. *)

(* A run never skips its reviews (docs/configuration.md): one that is done *)
(* has been through the final review since it was last planned, or the     *)
(* owner has passed that gate.                                             *)
DoneIsReviewed == run.step = "done" => "final-review" \in gates

(* What a session left uncommitted goes before the check, which would      *)
(* otherwise judge files the pull request never gets (runner.go:721): what *)
(* is pushed is what verify.sh passed on.                                  *)
ChecksWhatItPushes == run.step \in {"pr", "push"} => green = "alone"

(* There is one work session per unchecked task                            *)
(* (docs/specs/2026-09-30-orchestrated-runs-design.md:79): a run at work   *)
(* has a task.  Without one no prompt can be made, and it is neither done  *)
(* nor failed (runner.go:545).                                             *)
WorkHasATask == run.step = "work" => tree.here.left > 0
=============================================================================
