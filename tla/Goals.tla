-------------------------------- MODULE Goals --------------------------------
(***************************************************************************)
(* A goal worked as runs: clients/runs/goaltransition.go, the workflow as  *)
(* a pure function, and goalrunner.go, which does its steps, starts its    *)
(* runs and answers the owner's labels.                                    *)
(*                                                                         *)
(* The runner is one thread and saves the goal after every transition, so  *)
(* `goal` and `runs` are what is on disk; only while it starts a run is    *)
(* memory ahead of it, and `starting` says by how much.  A crash there     *)
(* forgets what is not saved.  A run is its end as the goal sees it (its   *)
(* own workflow is RunWorkflow).  Claude, git, GitHub and the owner are    *)
(* the environment.                                                        *)
(***************************************************************************)
EXTENDS Naturals, Sequences, FiniteSets

CONSTANTS
  GoalRounds,                \* goal_rounds of the runner's config
  MaxFailures,               \* maxFailures
  GoalTries, GoalCITries,    \* otherTries and ciTries
  \* bounds of the model
  MaxBriefs,                 \* briefs Claude gives at once
  MaxHomes,                  \* homes made for runs
  MaxResumes, MaxCIFails, MaxGoalCrashes, MaxRunResumes

ASSUME GoalCapsAssumption ==
  /\ {GoalRounds, MaxFailures, GoalTries, GoalCITries, MaxBriefs, MaxHomes} \subseteq Nat \ {0}
  /\ {MaxResumes, MaxCIFails, MaxGoalCrashes, MaxRunResumes} \subseteq Nat

VARIABLES
  goal,      \* the Goal record
  runs,      \* the goal's runs on disk, in the order their homes were made
  starting,  \* what starting a run has saved so far
  labels,    \* the owner's labels on the goal's home, not picked up yet
  seen       \* what has been: crashes, resumes, failed checks of the PR, runs failed in a
             \* row, and the round whose check the owner asked to skip

goalVars == <<goal, runs, starting, labels, seen>>

NoStep == "none"
GoalOver == {"done", "blocked"}
GoalSteps == {"setup", "breakdown", "runs", "check", "pr", "ci"}
BriefStates == {"pending", "running", "done", "failed", "dropped"}
RunStates == {"going", "merged", "done", "failed"}
Idle == "idle"

NewGoal ==
  [step |-> "setup", blockedAt |-> NoStep, round |-> 0, from |-> 0, failures |-> 0, attempt |-> 0,
   parked |-> FALSE, skip |-> FALSE, ciFailure |-> FALSE, briefs |-> <<>>, verdict |-> NoStep,
   verdictOf |-> 0]

GoalsInit ==
  /\ goal = NewGoal
  /\ runs = <<>> /\ starting = Idle /\ labels = {}
  /\ seen = [crashes |-> 0, resumes |-> 0, ciFails |-> 0, retried |-> 0, failed |-> 0, skipFor |-> 0]

-----------------------------------------------------------------------------
(* The workflow: GoalTransition and what it is built from. *)

(* The briefs of the round still to be worked on, and the one to work on.  *)
Open(g) == {i \in DOMAIN g.briefs : g.briefs[i].round = g.round
                                    /\ g.briefs[i].state \in {"pending", "running"}}
Current(g) == IF Open(g) = {} THEN 0 ELSE CHOOSE i \in Open(g) : \A j \in Open(g) : i <= j

AddRound(g, n) ==
  [g EXCEPT !.briefs = @ \o [i \in 1..n |-> [round |-> g.round, state |-> "pending", run |-> 0]]]

(* Mutant: a blocked goal does not say where.                              *)
BlockAnywhere(g, at) == [g EXCEPT !.step = "blocked", !.attempt = 0]

Block(g, at) == [g EXCEPT !.step = "blocked", !.blockedAt = at, !.attempt = 0]

(* The step did nothing yet; a gate that waits for Claude is parked.       *)
GoalWaits(g, parked) == [g EXCEPT !.parked = parked]

(* The step did not work: again at the next poll, or the goal is blocked.  *)
GoalFailed(g) ==
  LET q == [g EXCEPT !.parked = FALSE, !.attempt = @ + 1]
      tries == IF g.step = "ci" THEN GoalCITries ELSE GoalTries
  IN  IF q.attempt >= tries THEN Block(q, g.step) ELSE q

(* The step worked, so its tries and its skip are over.                    *)
Worked(g) == [g EXCEPT !.parked = FALSE, !.attempt = 0, !.skip = FALSE]

AfterBreakdown(g, n) ==
  [AddRound([Worked(g) EXCEPT !.round = 1, !.from = 1], n) EXCEPT !.step = "runs"]

AfterRunDone(g) ==
  LET q == [Worked(g) EXCEPT !.briefs[Current(g)].state = "done", !.failures = 0]
  IN  IF Current(q) = 0 THEN [q EXCEPT !.step = "check"] ELSE q

(* Mutant: the rest of the round is left waiting.                          *)
AfterRunFailedKeeping(g) ==
  LET q == [Worked(g) EXCEPT !.briefs[Current(g)].state = "failed", !.failures = @ + 1]
  IN  IF q.failures >= MaxFailures THEN Block(q, "runs") ELSE [q EXCEPT !.step = "check"]

(* The rest of the round was planned on this run working.                  *)
AfterRunFailed(g) ==
  LET failed == [Worked(g) EXCEPT !.briefs[Current(g)].state = "failed", !.failures = @ + 1]
      q == [failed EXCEPT !.briefs = [i \in DOMAIN @ |->
              IF @[i].round = g.round /\ @[i].state = "pending"
                THEN [@[i] EXCEPT !.state = "dropped"] ELSE @[i]]]
  IN  IF q.failures >= MaxFailures THEN Block(q, "runs") ELSE [q EXCEPT !.step = "check"]

(* Mutant: a round more than the allowance.                                *)
AfterCheckMore(g, met, skipped, n) ==
  LET q == [Worked(g) EXCEPT !.ciFailure = FALSE, !.verdictOf = g.round,
              !.verdict = IF skipped THEN "skipped" ELSE IF met THEN "met" ELSE "unmet"]
  IN  IF met THEN [q EXCEPT !.step = "pr"]
      ELSE IF q.round - q.from + 1 > GoalRounds THEN Block(q, "check")
      ELSE [AddRound([q EXCEPT !.round = @ + 1], n) EXCEPT !.step = "runs"]

AfterGoalCheck(g, met, skipped, n) ==
  LET q == [Worked(g) EXCEPT !.ciFailure = FALSE, !.verdictOf = g.round,
              !.verdict = IF skipped THEN "skipped" ELSE IF met THEN "met" ELSE "unmet"]
  IN  IF met THEN [q EXCEPT !.step = "pr"]
      ELSE IF q.round - q.from + 1 >= GoalRounds THEN Block(q, "check")
      ELSE [AddRound([q EXCEPT !.round = @ + 1], n) EXCEPT !.step = "runs"]

AfterGoalCI(g, result) ==
  LET q == Worked(g)
  IN  CASE result \in {"pass", "merged"} -> [q EXCEPT !.step = "done"]
        [] result = "closed"             -> Block(q, "ci")
        [] result = "fail"               -> [q EXCEPT !.step = "check", !.ciFailure = TRUE]

(* A goal blocked by its runs or its rounds goes to the check with a fresh *)
(* allowance; one blocked at ci opens its pull request again.              *)
ResumeGoal(g) ==
  LET q == [g EXCEPT !.blockedAt = NoStep, !.attempt = 0]
  IN  CASE g.blockedAt \in {"runs", "check"} ->
             [q EXCEPT !.failures = 0, !.from = g.round + 1, !.step = "check"]
        [] g.blockedAt = "ci" -> [q EXCEPT !.step = "pr"]
        [] OTHER              -> [q EXCEPT !.step = g.blockedAt]

(* A goal that changed is saved, and its home is relabeled when its step   *)
(* or its round did: every label of the prefix goes, the owner's too.      *)
Saved(g) ==
  /\ goal' = g
  /\ labels' = IF <<g.step, g.round>> # <<goal.step, goal.round>> THEN {} ELSE labels

-----------------------------------------------------------------------------
(* The owner. *)

Label(l) ==
  /\ l \notin labels
  /\ labels' = labels \cup {l}
  /\ seen' = IF l = "skip" /\ goal.step = "check" THEN [seen EXCEPT !.skipFor = goal.round] ELSE seen
  /\ UNCHANGED <<goal, runs, starting>>

(* The owner asks for a failed run again (/run on its home).               *)
RunAgain(r) ==
  /\ seen.retried < MaxRunResumes
  /\ runs[r] = "failed"
  /\ runs' = [runs EXCEPT ![r] = "going"]
  /\ seen' = [seen EXCEPT !.retried = @ + 1]
  /\ UNCHANGED <<goal, starting, labels>>

-----------------------------------------------------------------------------
(* The runner. *)

PickUpGoal ==
  /\ starting = Idle /\ "requested" \in labels
  /\ goal.step = "blocked" => seen.resumes < MaxResumes
  /\ goal' = IF goal.step = "blocked" THEN ResumeGoal(goal) ELSE goal
  /\ seen' = IF goal.step = "blocked" THEN [seen EXCEPT !.resumes = @ + 1, !.failed = 0] ELSE seen
  /\ labels' = {}
  /\ UNCHANGED <<runs, starting>>

(* Mutant: a skip is taken at any step.                                    *)
PickUpAnySkip ==
  /\ starting = Idle /\ "skip" \in labels /\ "requested" \notin labels
  /\ goal' = [goal EXCEPT !.skip = TRUE]
  /\ labels' = {}
  /\ UNCHANGED <<runs, starting, seen>>

(* Requests are picked up before skips, and take the skip's label along.   *)
PickUpGoalSkip ==
  /\ starting = Idle /\ "skip" \in labels /\ "requested" \notin labels
  /\ goal' = IF goal.step = "check" THEN [goal EXCEPT !.skip = TRUE] ELSE goal
  /\ labels' = {}
  /\ UNCHANGED <<runs, starting, seen>>

(* Git, gh or Claude fail the step, or Claude's answer is not in its form. *)
StepFails ==
  /\ starting = Idle /\ goal.step \in GoalSteps \ {"runs"}
  /\ Saved(GoalFailed(goal))
  /\ UNCHANGED <<runs, starting, seen>>

(* Claude is not answering at a gate that asks it.                         *)
Park ==
  /\ starting = Idle /\ goal.step \in {"breakdown", "check"} /\ ~goal.skip /\ ~goal.parked
  /\ Saved(GoalWaits(goal, TRUE))
  /\ UNCHANGED <<runs, starting, seen>>

Setup ==
  /\ starting = Idle /\ goal.step = "setup"
  /\ Saved([Worked(goal) EXCEPT !.step = "breakdown"])
  /\ UNCHANGED <<runs, starting, seen>>

Breakdown(n) ==
  /\ starting = Idle /\ goal.step = "breakdown"
  /\ Saved(AfterBreakdown(goal, n))
  /\ UNCHANGED <<runs, starting, seen>>

(* The next brief gets its home, then its run is saved, then the goal that *)
(* says which run it is.                                                   *)
CreateHome ==
  /\ starting = Idle /\ goal.step = "runs" /\ Len(runs) < MaxHomes
  /\ Current(goal) # 0 /\ goal.briefs[Current(goal)].run = 0
  /\ starting' = "homed"
  /\ UNCHANGED <<goal, runs, labels, seen>>

SaveRun ==
  /\ starting = "homed"
  /\ runs' = Append(runs, "going")
  /\ starting' = "runSaved"
  /\ UNCHANGED <<goal, labels, seen>>

SaveGoal ==
  /\ starting = "runSaved"
  /\ goal' = [goal EXCEPT !.briefs[Current(goal)].run = Len(runs),
                          !.briefs[Current(goal)].state = "running"]
  /\ starting' = Idle
  /\ UNCHANGED <<runs, labels, seen>>

(* Mutants: the goal is saved before its run is.                           *)
GoalBeforeRun ==
  /\ starting = "homed"
  /\ goal' = [goal EXCEPT !.briefs[Current(goal)].run = Len(runs) + 1,
                          !.briefs[Current(goal)].state = "running"]
  /\ starting' = "runSaved"
  /\ UNCHANGED <<runs, labels, seen>>

(* The current brief's run has ended, or the round has none left.          *)
GoalRun ==
  /\ starting = Idle /\ goal.step = "runs"
  /\ LET i == Current(goal)
         r == IF i = 0 THEN 0 ELSE goal.briefs[i].run
     IN  \/ /\ i = 0
            /\ Saved([Worked(goal) EXCEPT !.step = "check"])
            /\ seen' = seen
         \/ /\ r # 0 /\ r \in DOMAIN runs /\ runs[r] = "done"
            /\ Saved(AfterRunDone(goal))
            /\ seen' = [seen EXCEPT !.failed = 0]
         \/ /\ r # 0 /\ (r \in DOMAIN runs => runs[r] = "failed")
            /\ Saved(AfterRunFailed(goal))
            /\ seen' = [seen EXCEPT !.failed = @ + 1]
  /\ UNCHANGED <<runs, starting>>

(* The check reads the branch as it is on GitHub, and is the owner's when  *)
(* it is skipped, else Claude's.                                           *)
GoalCheck ==
  /\ starting = Idle /\ goal.step = "check"
  /\ \/ goal.skip /\ Saved(AfterGoalCheck(goal, TRUE, TRUE, 0))
     \/ ~goal.skip /\ Saved(AfterGoalCheck(goal, TRUE, FALSE, 0))
     \/ ~goal.skip /\ \E n \in 1..MaxBriefs : Saved(AfterGoalCheck(goal, FALSE, FALSE, n))
  /\ UNCHANGED <<runs, starting, seen>>

(* The one open pull request of the branch is edited, or one is opened.    *)
OpenPR ==
  /\ starting = Idle /\ goal.step = "pr"
  /\ Saved([Worked(goal) EXCEPT !.step = "ci"])
  /\ UNCHANGED <<runs, starting, seen>>

PollCI(result) ==
  /\ starting = Idle /\ goal.step = "ci"
  /\ result = "fail" => seen.ciFails < MaxCIFails
  /\ Saved(AfterGoalCI(goal, result))
  /\ seen' = IF result = "fail" THEN [seen EXCEPT !.ciFails = @ + 1] ELSE seen
  /\ UNCHANGED <<runs, starting>>

(* A run of the goal goes on: it merges into the goal branch, reflects and *)
(* is done; or it fails.  Only what is on disk is a run.                   *)
RunGoes(r) ==
  /\ starting = Idle
  /\ \/ runs[r] = "going" /\ runs' = [runs EXCEPT ![r] = "merged"]
     \/ runs[r] = "merged" /\ runs' = [runs EXCEPT ![r] = "done"]
     \/ runs[r] = "going" /\ runs' = [runs EXCEPT ![r] = "failed"]
  /\ UNCHANGED <<goal, starting, labels, seen>>

(* The runner dies while it starts a run and loads what was saved.         *)
GoalCrash ==
  /\ starting # Idle /\ seen.crashes < MaxGoalCrashes
  /\ starting' = Idle
  /\ seen' = [seen EXCEPT !.crashes = @ + 1]
  /\ UNCHANGED <<goal, runs, labels>>

GoalsNext ==
  \/ \E l \in {"requested", "skip"} : Label(l)
  \/ \E r \in DOMAIN runs : RunAgain(r) \/ RunGoes(r)
  \/ PickUpGoal \/ PickUpGoalSkip
  \/ StepFails \/ Park \/ Setup \/ \E n \in 1..MaxBriefs : Breakdown(n)
  \/ CreateHome \/ SaveRun \/ SaveGoal \/ GoalRun \/ GoalCheck \/ OpenPR
  \/ \E result \in {"pass", "merged", "closed", "fail"} : PollCI(result)
  \/ GoalCrash

GoalsSpec == GoalsInit /\ [][GoalsNext]_goalVars

-----------------------------------------------------------------------------
Goings == {r \in DOMAIN runs : runs[r] \in {"going", "merged"}}

(* Every part of the state has its type.                                   *)
GoalTypeOK ==
  /\ goal \in [step : GoalSteps \cup GoalOver, blockedAt : GoalSteps \cup {NoStep}, round : Nat,
               from : Nat, failures : 0..MaxFailures, attempt : Nat, parked : BOOLEAN, skip : BOOLEAN,
               ciFailure : BOOLEAN, briefs : Seq([round : Nat, state : BriefStates, run : 0..MaxHomes]),
               verdict : {NoStep, "met", "unmet", "skipped"}, verdictOf : Nat]
  /\ runs \in Seq(RunStates) /\ starting \in {Idle, "homed", "runSaved"}
  /\ labels \subseteq {"requested", "skip"}
  /\ goal.step = "blocked" <=> goal.blockedAt # NoStep

(* What a crash may leave: a brief that names a run names one whose state  *)
(* was saved, no two briefs share one, and the goal has left a round only  *)
(* with none of its briefs waiting or running.  At most one run of the     *)
(* goal goes at a time, but for one more for each crash that lost the name *)
(* of a run and each failed run the owner asked for again.                 *)
GoalIsWhole ==
  /\ \A i \in DOMAIN goal.briefs : goal.briefs[i].run # 0 => goal.briefs[i].run \in DOMAIN runs
  /\ \A i, j \in DOMAIN goal.briefs :
       i # j /\ goal.briefs[i].run # 0 => goal.briefs[i].run # goal.briefs[j].run
  /\ goal.step \in {"check", "pr", "ci", "done"} => Open(goal) = {}
  /\ Cardinality(Goings) <= 1 + seen.crashes + seen.retried

(* A goal stops for its owner when it should: never more rounds in one     *)
(* allowance than it has, never a run started after that many failed in a  *)
(* row, and no check passed unasked but the one the owner saw when he      *)
(* skipped it.                                                             *)
GoalStopsInTime ==
  /\ goal.round # 0 => goal.round + 1 <= goal.from + GoalRounds
  /\ starting # Idle => seen.failed < MaxFailures
  /\ goal.verdict = "skipped" => goal.verdictOf = seen.skipFor
=============================================================================
