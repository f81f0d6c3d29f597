------------------------- MODULE RunWorkflow_proofs -------------------------
(***************************************************************************)
(* Proofs about RunWorkflow, for every value of the caps.                  *)
(*                                                                         *)
(* One inductive invariant carries them all.  A run that fails goes        *)
(* through a reflection and may be resumed where it failed, so what has to *)
(* hold of a run at a step has to hold of a failed run that would resume   *)
(* there: Fits says what that is, of the step and of failedAt alike.       *)
(***************************************************************************)
EXTENDS RunWorkflow, TLAPS

Live == Steps \ (OverSteps \cup {"reflect"})

GatedSteps ==
  {"tasks", "work", "check", "fix", "revise", "final-review", "pr", "ci", "ci-fix", "push", "merge",
   "replan-review"}

(* What a run needs to be at step s, or to be resumed there: g how the     *)
(* check has passed, gs the gates passed.                                  *)
Fits(r, s, g, gs) ==
  /\ s \in {"ci", "ci-fix", "push", "merge"} => r.pr
  /\ s = "replan-review" => r.replanFrom # None
  /\ s \in {"final-review", "pr", "push"} => g # "no"
  /\ s \in {"verify", "verify-review"} => "plan-review" \in gs
  /\ s \in GatedSteps => {"plan-review", "verify-review"} \subseteq gs

(* The counts, but for those of a run that has just failed by them. *)
Counts(r) ==
  /\ r.fixes <= MaxFixes /\ r.revisions <= MaxRevisions /\ r.ciFixes <= MaxCIFixes
  /\ r.replans <= MaxReplans + 1 /\ r.refusals <= MaxRefusals + 1
  /\ r.replanFrom = "ci-fix" => r.pr

Below(r) == r.replans <= MaxReplans /\ r.refusals <= MaxRefusals

RunInv(r, g, gs) ==
  /\ r.step \in Live => r.failedAt = None /\ Fits(r, r.step, g, gs)
  /\ r.failedAt # None => r.failedAt \in Live /\ Fits(r, r.failedAt, g, gs)
  /\ r.step = "failed" => r.failedAt # None
  /\ r.step \in {"reflect", "done"} /\ r.failedAt = None => r.pr
  /\ r.step = "done" => r.failedAt = None
  /\ Counts(r)
  /\ r.failedAt = None => Below(r)
  /\ r.attempt < Tries(r.step)
  /\ r.step = "revise" => r.revisions < MaxRevisions
  /\ r.skip => r.step \in ClaudeSteps

WorkflowInv == TypeOK /\ RunInv(run, green, gates)

(* q is r but for what a step that worked does to every run. *)
Like(q, r) ==
  /\ q \in RunType
  /\ q.step = r.step /\ q.failedAt = r.failedAt /\ q.attempt = r.attempt
  /\ q.fixes = r.fixes /\ q.ciFixes = r.ciFixes /\ q.revisions = r.revisions
  /\ q.replans = r.replans /\ q.refusals = r.refusals /\ q.replanFrom = r.replanFrom
  /\ q.pr = r.pr

-----------------------------------------------------------------------------
(* The operators of the workflow. *)

(* A run put at a step: what that changes, and what it leaves. *)
LEMMA Entered ==
  ASSUME NEW r \in RunType, NEW s \in Steps, NEW fresh \in BOOLEAN
  PROVE  LET e == Enter(r, s, fresh) IN
         /\ e \in RunType /\ e.step = s /\ e.attempt = (IF fresh THEN 0 ELSE r.attempt)
         /\ e.failedAt = r.failedAt /\ e.fixes = r.fixes /\ e.ciFixes = r.ciFixes
         /\ e.revisions = r.revisions /\ e.replans = r.replans /\ e.refusals = r.refusals
         /\ e.replanFrom = r.replanFrom /\ e.pr = r.pr /\ e.skip = r.skip
  <1> DEFINE w == s \in SessionSteps
             n == IF fresh THEN 0 ELSE r.attempt
  <1>1. w \in BOOLEAN
    OBVIOUS
  <1>2. n \in Nat
    BY DEF RunType
  <1>3. Enter(r, s, fresh) = [r EXCEPT !.step = s, !.attempt = n, !.session = FALSE,
                                       !.finding = FALSE, !.waiting = w]
    BY DEF Enter
  <1> HIDE DEF w, n
  <1>4. Enter(r, s, fresh) \in RunType
    BY <1>1, <1>2, <1>3 DEF RunType
  <1> QED
    BY <1>4 DEF Enter, RunType

(* A step has at least one try. *)
LEMMA HasTries == \A s : Tries(s) \in Nat /\ 0 < Tries(s)
  BY TriesAssumption DEF Tries

(* A run that has not failed goes on to a step it fits. *)
LEMMA GoesOn ==
  ASSUME NEW r \in RunType, NEW s \in Live, NEW g, NEW gs,
         r.failedAt = None, Counts(r), Below(r), ~r.skip, Fits(r, s, g, gs),
         s = "revise" => r.revisions < MaxRevisions
  PROVE  /\ Enter(r, s, TRUE) \in RunType
         /\ RunInv(Enter(r, s, TRUE), g, gs)
  <1> DEFINE e == Enter(r, s, TRUE)
  <1>0. s \in Steps /\ s \notin {"reflect", "done", "failed"}
    BY DEF Live, OverSteps
  <1>1. /\ e \in RunType /\ e.step = s /\ e.attempt = 0
        /\ e.failedAt = r.failedAt /\ e.fixes = r.fixes /\ e.ciFixes = r.ciFixes
        /\ e.revisions = r.revisions /\ e.replans = r.replans /\ e.refusals = r.refusals
        /\ e.replanFrom = r.replanFrom /\ e.pr = r.pr /\ e.skip = r.skip
    BY <1>0, Entered
  <1> HIDE DEF e
  <1>2. Fits(e, s, g, gs) /\ Counts(e) /\ Below(e)
    BY <1>1 DEF Fits, Counts, Below
  <1>3. RunInv(e, g, gs)
    BY <1>0, <1>1, <1>2, HasTries DEF RunInv
  <1> QED
    BY <1>1, <1>3 DEF e

(* A run ends: with a PR, or where it failed. *)
LEMMA EndsSomewhere ==
  ASSUME NEW r \in RunType, NEW g, NEW gs,
         Counts(r), ~r.skip, r.failedAt = None => Below(r) /\ r.pr,
         r.failedAt # None => r.failedAt \in Live /\ Fits(r, r.failedAt, g, gs)
  PROVE  /\ Finish(r) \in RunType
         /\ RunInv(Finish(r), g, gs)
         /\ Finish(r).failedAt = r.failedAt /\ Finish(r).replans = r.replans
  <1> DEFINE s == IF r.step # "reflect" /\ r.worked THEN "reflect"
                  ELSE IF r.failedAt # None THEN "failed" ELSE "done"
  <1> DEFINE e == Enter(r, s, TRUE)
  <1>0. /\ s \in Steps /\ s \in {"reflect", "failed", "done"} /\ s \notin Live
        /\ s = "failed" => r.failedAt # None
        /\ s = "done" => r.failedAt = None
        /\ Finish(r) = e
    BY DEF Steps, SessionSteps, OverSteps, Live, Finish
  <1> HIDE DEF s
  <1>1. /\ e \in RunType /\ e.step = s /\ e.attempt = 0
        /\ e.failedAt = r.failedAt /\ e.fixes = r.fixes /\ e.ciFixes = r.ciFixes
        /\ e.revisions = r.revisions /\ e.replans = r.replans /\ e.refusals = r.refusals
        /\ e.replanFrom = r.replanFrom /\ e.pr = r.pr /\ e.skip = r.skip
    BY <1>0, Entered
  <1> HIDE DEF e
  <1>2. /\ Counts(e)
        /\ e.failedAt = None => Below(e) /\ e.pr
        /\ e.failedAt # None => e.failedAt \in Live /\ Fits(e, e.failedAt, g, gs)
    BY <1>1 DEF Fits, Counts, Below
  <1>3. RunInv(e, g, gs)
    BY <1>0, <1>1, <1>2, HasTries DEF RunInv
  <1> QED
    BY <1>0, <1>1, <1>3

(* A run fails at a step it fits. *)
LEMMA FailsAt ==
  ASSUME NEW r \in RunType, NEW at \in Live, NEW g, NEW gs,
         Counts(r), ~r.skip, Fits(r, at, g, gs)
  PROVE  /\ Fail(r, at) \in RunType
         /\ RunInv(Fail(r, at), g, gs)
         /\ Fail(r, at).failedAt = at /\ Fail(r, at).replans = r.replans
  <1> DEFINE q == [r EXCEPT !.failedAt = at]
  <1>1. at \in Steps \ OverSteps /\ at # None
    BY DEF Live, None, Steps, SessionSteps, ClaudeSteps, OwnSteps, OverSteps
  <1>2. q \in RunType
    BY <1>1 DEF RunType
  <1>3. /\ q.failedAt = at /\ q.fixes = r.fixes /\ q.ciFixes = r.ciFixes /\ q.skip = r.skip
        /\ q.revisions = r.revisions /\ q.replans = r.replans /\ q.refusals = r.refusals
        /\ q.replanFrom = r.replanFrom /\ q.pr = r.pr
    BY DEF RunType
  <1> HIDE DEF q
  <1>4. Counts(q) /\ Fits(q, at, g, gs)
    BY <1>3 DEF Counts, Fits
  <1>5. /\ Finish(q) \in RunType /\ RunInv(Finish(q), g, gs)
        /\ Finish(q).failedAt = q.failedAt /\ Finish(q).replans = q.replans
    BY <1>1, <1>2, <1>3, <1>4, EndsSomewhere
  <1> QED
    BY <1>3, <1>5 DEF Fail, q

(* A run is planned again, or has been too often: whatever the gates it    *)
(* has passed, for a plan needs none.                                      *)
LEMMA Replans ==
  ASSUME NEW r \in RunType, NEW g, NEW gs,
         r.failedAt = None, Counts(r), Below(r), ~r.skip
  PROVE  /\ Replan(r) \in RunType
         /\ RunInv(Replan(r), g, gs)
  <1>0. "plan" \in Live
    BY DEF Live, Steps, SessionSteps, OverSteps
  <1>1. CASE r.replans + 1 > MaxReplans
    <2> DEFINE q == [r EXCEPT !.replans = @ + 1]
    <2>1. q \in RunType
      BY DEF RunType
    <2>2. /\ q.failedAt = r.failedAt /\ q.fixes = r.fixes /\ q.ciFixes = r.ciFixes
          /\ q.skip = r.skip /\ q.revisions = r.revisions /\ q.replans = r.replans + 1
          /\ q.refusals = r.refusals /\ q.replanFrom = r.replanFrom /\ q.pr = r.pr
      BY DEF RunType
    <2> HIDE DEF q
    <2>3. Counts(q) /\ Fits(q, "plan", g, gs)
      BY <2>2, CapsAssumption DEF Counts, Below, Fits, GatedSteps, RunType
    <2>4. Fail(q, "plan") \in RunType /\ RunInv(Fail(q, "plan"), g, gs)
      BY <1>0, <2>1, <2>2, <2>3, FailsAt
    <2> QED
      BY <1>1, <2>4 DEF Replan, q
  <1>2. CASE ~(r.replans + 1 > MaxReplans)
    <2> DEFINE n == r.replans + 1
               q == [r EXCEPT !.replans = n, !.finalReviewed = FALSE, !.fixes = 0,
                              !.revisions = 0]
    <2>0. n \in Nat
      BY DEF RunType
    <2> HIDE DEF n
    <2>1. q \in RunType
      BY <2>0 DEF RunType
    <2>2. /\ q.failedAt = r.failedAt /\ q.fixes = 0 /\ q.ciFixes = r.ciFixes
          /\ q.skip = r.skip /\ q.revisions = 0 /\ q.replans = r.replans + 1
          /\ q.refusals = r.refusals /\ q.replanFrom = r.replanFrom /\ q.pr = r.pr
      BY DEF RunType, n
    <2> HIDE DEF q
    <2>3. Counts(q) /\ Below(q) /\ Fits(q, "plan", g, gs)
      BY <1>2, <2>2, CapsAssumption DEF Counts, Below, Fits, GatedSteps, RunType
    <2>4. Enter(q, "plan", TRUE) \in RunType /\ RunInv(Enter(q, "plan", TRUE), g, gs)
      BY <1>0, <2>1, <2>2, <2>3, GoesOn
    <2> QED
      BY <1>2, <2>4 DEF Replan, q, n
  <1> QED
    BY <1>1, <1>2

(* A run at a live step, as the operators find it. *)
LEMMA FromHere ==
  ASSUME NEW r \in RunType, NEW q, NEW g, NEW gs,
         RunInv(r, g, gs), r.step \in Live, Like(q, r)
  PROVE  /\ q \in RunType /\ q.failedAt = None /\ Counts(q) /\ Below(q)
         /\ Fits(q, r.step, g, gs)
         /\ q.step = r.step /\ q.attempt = r.attempt
         /\ r.step = "revise" => q.revisions < MaxRevisions
  BY DEF RunInv, Like, Counts, Below, Fits

(* A step is tried again, or the run fails at it. *)
LEMMA Retries ==
  ASSUME NEW r \in RunType, NEW q, NEW g, NEW gs,
         RunInv(r, g, gs), r.step \in Live, Like(q, r), ~q.skip
  PROVE  /\ Retry(q) \in RunType
         /\ RunInv(Retry(q), g, gs)
  <1> DEFINE p == [q EXCEPT !.attempt = @ + 1]
  <1>1. /\ q \in RunType /\ q.failedAt = None /\ Counts(q) /\ Below(q)
        /\ Fits(q, r.step, g, gs) /\ q.step = r.step
        /\ r.step = "revise" => q.revisions < MaxRevisions
    BY FromHere
  <1>2. p \in RunType
    BY <1>1 DEF RunType
  <1>3. /\ p.failedAt = q.failedAt /\ p.fixes = q.fixes /\ p.ciFixes = q.ciFixes
        /\ p.skip = q.skip /\ p.revisions = q.revisions /\ p.replans = q.replans
        /\ p.refusals = q.refusals /\ p.replanFrom = q.replanFrom /\ p.pr = q.pr
        /\ p.attempt = q.attempt + 1 /\ p.step = q.step
    BY <1>1 DEF RunType
  <1>4. Retry(q) = IF p.attempt >= Tries(q.step) THEN Fail(p, q.step) ELSE Enter(p, q.step, FALSE)
    BY DEF Retry
  <1> HIDE DEF p
  <1>5. Counts(p) /\ Below(p) /\ Fits(p, r.step, g, gs)
    BY <1>1, <1>3 DEF Counts, Below, Fits
  <1>6. CASE p.attempt >= Tries(q.step)
    BY <1>1, <1>2, <1>3, <1>4, <1>5, <1>6, FailsAt
  <1>7. CASE ~(p.attempt >= Tries(q.step))
    <2> DEFINE e == Enter(p, r.step, FALSE)
    <2>1. r.step \in Steps /\ r.step \notin {"reflect", "failed", "done"}
      BY DEF Live, OverSteps
    <2>2. /\ e \in RunType /\ e.step = r.step /\ e.attempt = p.attempt
          /\ e.failedAt = p.failedAt /\ e.fixes = p.fixes /\ e.ciFixes = p.ciFixes
          /\ e.revisions = p.revisions /\ e.replans = p.replans /\ e.refusals = p.refusals
          /\ e.replanFrom = p.replanFrom /\ e.pr = p.pr /\ e.skip = p.skip
      BY <1>2, <2>1, Entered
    <2>3. Retry(q) = e
      BY <1>1, <1>4, <1>7
    <2> HIDE DEF e
    <2>4. Counts(e) /\ Below(e) /\ Fits(e, r.step, g, gs)
      BY <1>5, <2>2 DEF Counts, Below, Fits
    <2>5. e.attempt < Tries(e.step)
      BY <1>1, <1>2, <1>7, <2>2, HasTries DEF RunType
    <2>6. RunInv(e, g, gs)
      BY <1>1, <1>3, <2>1, <2>2, <2>4, <2>5 DEF RunInv
    <2> QED
      BY <2>2, <2>3, <2>6
  <1> QED
    BY <1>6, <1>7

-----------------------------------------------------------------------------
(* One turn of advance. *)

(* A step that worked. *)
LEMMA Worked ==
  ASSUME NEW r \in RunType, NEW o, r.step \in Live, o.ok, ~o.wait, Advance(r, o)
  PROVE  \E q : /\ Like(q, r) /\ ~q.skip
                /\ r.step \in Claims /\ o.replan => run' = Replan(q)
                /\ r.step \in Claims /\ ~o.replan /\ o.replanRequest
                     => run' = Enter([q EXCEPT !.replanFrom = r.step], "replan-review", TRUE)
                /\ r.step \notin Claims \/ (~o.replan /\ ~o.replanRequest) => run' = Onward(q, o)
  <1> DEFINE w == [r EXCEPT !.worked = @ \/ r.session]
             p == [w EXCEPT !.parked = FALSE]
             q == [p EXCEPT !.skip = FALSE]
  <1>1. w \in RunType /\ w.step = r.step
    <2> DEFINE b == r.worked \/ r.session
    <2>1. b \in BOOLEAN
      OBVIOUS
    <2>2. w = [r EXCEPT !.worked = b]
      BY DEF RunType
    <2> HIDE DEF b, w
    <2> QED
      BY <2>1, <2>2 DEF RunType
  <1>2. Like(w, r)
    BY <1>1 DEF Like, RunType
  <1>3. r.step \notin OverSteps /\ r.step # "reflect"
    BY DEF Live
  <1>4. run' = Passed(p, o)
    BY <1>1, <1>3 DEF Advance, Transition
  <1> HIDE DEF w
  <1>5. Like(q, r) /\ ~q.skip /\ p.step = r.step
    BY <1>1, <1>2 DEF Like, RunType
  <1>6. /\ r.step \in Claims /\ o.replan => Passed(p, o) = Replan(q)
        /\ r.step \in Claims /\ ~o.replan /\ o.replanRequest
             => Passed(p, o) = Enter([q EXCEPT !.replanFrom = r.step], "replan-review", TRUE)
        /\ r.step \notin Claims \/ (~o.replan /\ ~o.replanRequest) => Passed(p, o) = Onward(q, o)
    BY <1>5, Zenon DEF Passed
  <1> QED
    BY <1>4, <1>5, <1>6

(* A step that did not work, and a reflection whatever came of it. *)
LEMMA NotWorked ==
  ASSUME NEW r \in RunType, NEW o, ~o.wait, Advance(r, o)
  PROVE  /\ r.step \in Live /\ ~o.ok => \E q : Like(q, r) /\ q.skip = r.skip /\ run' = Retry(q)
         /\ r.step = "reflect" => \E q : Like(q, r) /\ q.skip = r.skip /\ run' = Finish(q)
  <1> DEFINE w == [r EXCEPT !.worked = @ \/ r.session]
             q == [w EXCEPT !.parked = FALSE]
  <1>1. w \in RunType /\ w.step = r.step
    <2> DEFINE b == r.worked \/ r.session
    <2>1. b \in BOOLEAN
      OBVIOUS
    <2>2. w = [r EXCEPT !.worked = b]
      BY DEF RunType
    <2> HIDE DEF b, w
    <2> QED
      BY <2>1, <2>2 DEF RunType
  <1>2. Like(w, r) /\ w.skip = r.skip
    BY <1>1 DEF Like, RunType
  <1>3. r.step \in Live => r.step \notin OverSteps /\ r.step # "reflect"
    BY DEF Live
  <1>4. "reflect" \notin OverSteps
    BY DEF OverSteps
  <1>5. r.step \in Live /\ ~o.ok => run' = Retry(q)
    BY <1>1, <1>3 DEF Advance, Transition
  <1>6. r.step = "reflect" => run' = Finish(q)
    BY <1>1, <1>4 DEF Advance, Transition
  <1> HIDE DEF w
  <1>7. Like(q, r) /\ q.skip = r.skip
    BY <1>1, <1>2 DEF Like, RunType
  <1> QED
    BY <1>5, <1>6, <1>7

-----------------------------------------------------------------------------
(* The actions. *)

(* The types of what is beside the run. *)
Beside == tree \in Trees /\ green \in {"no", "beside", "alone"} /\ gates \subseteq ClaudeSteps

LEMMA InitKeeps == Init => WorkflowInv
  <1> SUFFICES ASSUME Init PROVE WorkflowInv
    OBVIOUS
  <1> PICK brief \in BOOLEAN, goal \in BOOLEAN : run = NewRun(brief, goal)
    BY DEF Init
  <1>1. "setup" \in Live /\ None \notin Live /\ "setup" \in Steps
    BY DEF Live, None, Steps, SessionSteps, ClaudeSteps, OwnSteps, OverSteps
  <1>2. run \in RunType
    BY <1>1 DEF NewRun, RunType, None
  <1>3. /\ run.step = "setup" /\ run.failedAt = None /\ run.attempt = 0 /\ run.fixes = 0
        /\ run.ciFixes = 0 /\ run.revisions = 0 /\ run.replans = 0 /\ run.refusals = 0
        /\ run.replanFrom = None /\ run.skip = FALSE
    BY DEF NewRun
  <1>4. Fits(run, "setup", green, gates) /\ Counts(run) /\ Below(run)
    BY <1>3, CapsAssumption DEF Fits, Counts, Below, GatedSteps, None
  <1>5. RunInv(run, green, gates)
    BY <1>1, <1>3, <1>4, HasTries DEF RunInv
  <1>6. Beside
    <2>1. tree \in Trees
      BY TasksAssumption DEF Init, Trees, Files
    <2>2. green \in {"no", "beside", "alone"} /\ gates \subseteq ClaudeSteps
      BY Zenon DEF Init
    <2> QED
      BY <2>1, <2>2 DEF Beside
  <1> QED
    BY <1>2, <1>5, <1>6 DEF WorkflowInv, TypeOK, Beside

(* The invariant, in parts. *)
LEMMA Whole == run' \in RunType /\ RunInv(run', green', gates') /\ Beside' => WorkflowInv'
  BY DEF WorkflowInv, TypeOK, Beside

(* A live step that is not one of Claude's has no skip. *)
LEMMA NoSkip == WorkflowInv /\ run.step \notin ClaudeSteps => ~run.skip
  BY DEF WorkflowInv, RunInv

LEMMA FailsKeeps ==
  ASSUME WorkflowInv, run.step \in Live, ~run.skip, Fails
  PROVE  WorkflowInv'
  <1>1. run \in RunType /\ RunInv(run, green, gates)
    BY DEF WorkflowInv, TypeOK
  <1>2. Advance(run, DidNot) /\ ~DidNot.ok /\ ~DidNot.wait
    BY DEF Fails, DidNot, Did
  <1>3. PICK q : Like(q, run) /\ q.skip = run.skip /\ run' = Retry(q)
    BY <1>1, <1>2, NotWorked
  <1>4. Retry(q) \in RunType /\ RunInv(Retry(q), green, gates)
    BY <1>1, <1>3, Retries
  <1> QED
    BY <1>3, <1>4 DEF Fails, ghosts, WorkflowInv, TypeOK

(* What the steps do to the worktree leaves it one.                        *)
LEMMA TreesKept ==
  ASSUME tree \in Trees
  PROVE  /\ Reset => tree' \in Trees
         /\ Pushes => tree' \in Trees
         /\ Leaves => tree' \in Trees
         /\ \A request : Removed(request) => tree' \in Trees
  <1>1. Reset => tree' \in Trees
    BY DEF Reset, Trees
  <1>2. Pushes => tree' \in Trees
    BY DEF Pushes, Trees, Files
  <1>3. Leaves => tree' \in Trees
    BY DEF Leaves
  <1>4. \A request : Removed(request) => tree' \in Trees
    <2> SUFFICES ASSUME NEW request, Removed(request) PROVE tree' \in Trees
      OBVIOUS
    <2> DEFINE h == [tree.here EXCEPT !.asks = @ \ {request}]
               c == [tree.head EXCEPT !.asks = @ \ {request}]
    <2>1. h \in Files /\ c \in Files
      BY DEF Trees, Files
    <2>2. tree' = [tree EXCEPT !.here = h, !.head = c]
      BY DEF Removed, Trees, Files
    <2> HIDE DEF h, c
    <2> QED
      BY <2>1, <2>2 DEF Trees
  <1> QED
    BY <1>1, <1>2, <1>3, <1>4

LEMMA DiscardsKeeps ==
  ASSUME WorkflowInv, run.step \in Live, ~run.skip, Discards
  PROVE  WorkflowInv'
  <1>1. run \in RunType /\ RunInv(run, green, gates)
    BY DEF WorkflowInv, TypeOK
  <1>2. Advance(run, DidNot) /\ ~DidNot.ok /\ ~DidNot.wait
    BY DEF Discards, DidNot, Did
  <1>3. PICK q : Like(q, run) /\ q.skip = run.skip /\ run' = Retry(q)
    BY <1>1, <1>2, NotWorked
  <1>4. Retry(q) \in RunType /\ RunInv(Retry(q), green, gates)
    BY <1>1, <1>3, Retries
  <1>5. tree' \in Trees
    BY TreesKept DEF Discards, WorkflowInv, TypeOK
  <1> QED
    BY <1>3, <1>4, <1>5 DEF Discards, ghosts, WorkflowInv, TypeOK

LEMMA BeginKeeps == ASSUME WorkflowInv, Begin PROVE WorkflowInv'
  <1>1. run' \in RunType
    BY DEF WorkflowInv, TypeOK, Begin, RunType
  <1>2. /\ Like(run', run) /\ run'.skip = run.skip
    BY <1>1 DEF WorkflowInv, TypeOK, Begin, RunType, Like
  <1>3. RunInv(run', green, gates)
    BY <1>2 DEF WorkflowInv, RunInv, Like, Fits, Counts, Below
  <1> QED
    BY <1>1, <1>3 DEF Begin, ghosts, WorkflowInv, TypeOK

LEMMA BeginFailsKeeps == ASSUME WorkflowInv, BeginFails PROVE WorkflowInv'
  BY DEF BeginFails, vars, WorkflowInv, TypeOK

LEMMA WatchKeeps == ASSUME WorkflowInv, Watch PROVE WorkflowInv'
  <1>1. run' \in RunType
    BY DEF WorkflowInv, TypeOK, Watch, RunType
  <1>2. /\ Like(run', run) /\ run'.skip = run.skip
    BY <1>1 DEF WorkflowInv, TypeOK, Watch, RunType, Like
  <1>3. RunInv(run', green, gates)
    BY <1>2 DEF WorkflowInv, RunInv, Like, Fits, Counts, Below
  <1> QED
    BY <1>1, <1>3 DEF Watch, ghosts, WorkflowInv, TypeOK

LEMMA SkipKeeps == ASSUME WorkflowInv, Skip PROVE WorkflowInv'
  <1>1. run' \in RunType
    BY DEF WorkflowInv, TypeOK, Skip, RunType
  <1>2. Like(run', run) /\ run.step \in ClaudeSteps
    BY <1>1 DEF WorkflowInv, TypeOK, Skip, RunType, Like
  <1>3. RunInv(run', green, gates)
    BY <1>2 DEF WorkflowInv, RunInv, Like, Fits, Counts, Below
  <1> QED
    BY <1>1, <1>3 DEF Skip, ghosts, WorkflowInv, TypeOK

LEMMA ParkKeeps == ASSUME WorkflowInv, Park PROVE WorkflowInv'
  <1>1. run' = [run EXCEPT !.parked = TRUE]
    BY DEF Park, Transition, Waits, Did, ClaudeSteps, OverSteps
  <1>2. run' \in RunType
    BY <1>1 DEF WorkflowInv, TypeOK, RunType
  <1>3. Like(run', run) /\ run'.skip = run.skip
    BY <1>1, <1>2 DEF WorkflowInv, TypeOK, RunType, Like
  <1>4. RunInv(run', green, gates)
    BY <1>3 DEF WorkflowInv, RunInv, Like, Fits, Counts, Below
  <1> QED
    BY <1>2, <1>4 DEF Park, ghosts, WorkflowInv, TypeOK

LEMMA GateFailsKeeps == ASSUME WorkflowInv, GateFails PROVE WorkflowInv'
  BY FailsKeeps DEF GateFails, Live, Steps, ClaudeSteps, OverSteps

LEMMA ReflectEndsKeeps == ASSUME WorkflowInv, ReflectEnds PROVE WorkflowInv'
  <1>1. run \in RunType /\ RunInv(run, green, gates) /\ run.step = "reflect"
    BY DEF WorkflowInv, TypeOK, ReflectEnds, Ends, At
  <1>2. PICK o : ~o.wait /\ Advance(run, o)
    BY DEF ReflectEnds, Did, DidNot
  <1>3. PICK q : Like(q, run) /\ q.skip = run.skip /\ run' = Finish(q)
    BY <1>1, <1>2, NotWorked
  <1>4. /\ q \in RunType /\ Counts(q) /\ ~q.skip
        /\ q.failedAt = None => Below(q) /\ q.pr
        /\ q.failedAt # None => q.failedAt \in Live /\ Fits(q, q.failedAt, green, gates)
    BY <1>1, <1>3 DEF RunInv, Like, Counts, Below, Fits, ClaudeSteps
  <1>5. Finish(q) \in RunType /\ RunInv(Finish(q), green, gates)
    BY <1>4, EndsSomewhere
  <1>6. tree' \in Trees
    BY TreesKept DEF ReflectEnds, WorkflowInv, TypeOK
  <1> QED
    BY <1>3, <1>5, <1>6 DEF ReflectEnds, ghosts, WorkflowInv, TypeOK

(* A step that worked leads on to a step the run fits, or fails where it   *)
(* fits.                                                                   *)
LEMMA Lands ==
  ASSUME NEW r \in RunType, NEW q, NEW s \in Live, RunInv(r, green, gates), r.step \in Live,
         Like(q, r), ~q.skip, run' = Enter(q, s, TRUE), Beside',
         Fits(q, s, green', gates'), s = "revise" => q.revisions < MaxRevisions
  PROVE  WorkflowInv'
  <1>1. q \in RunType /\ q.failedAt = None /\ Counts(q) /\ Below(q)
    BY FromHere
  <1>2. Enter(q, s, TRUE) \in RunType /\ RunInv(Enter(q, s, TRUE), green', gates')
    BY <1>1, GoesOn
  <1> QED
    BY <1>2, Whole

LEMMA Falls ==
  ASSUME NEW r \in RunType, NEW q, NEW at \in Live, RunInv(r, green, gates), r.step \in Live,
         Like(q, r), ~q.skip, run' = Fail(q, at), Beside', Fits(q, at, green', gates')
  PROVE  WorkflowInv'
  <1>1. q \in RunType /\ q.failedAt = None /\ Counts(q) /\ Below(q)
    BY FromHere
  <1>2. Fail(q, at) \in RunType /\ RunInv(Fail(q, at), green', gates')
    BY <1>1, FailsAt
  <1> QED
    BY <1>2, Whole

(* It ends well, with a PR. *)
LEMMA EndsWell ==
  ASSUME NEW r \in RunType, NEW q, RunInv(r, green, gates), r.step \in Live,
         Like(q, r), ~q.skip, run' = Finish(q), Beside', q.pr
  PROVE  WorkflowInv'
  <1>1. q \in RunType /\ q.failedAt = None /\ Counts(q) /\ Below(q)
    BY FromHere
  <1>2. Finish(q) \in RunType /\ RunInv(Finish(q), green', gates')
    BY <1>1, EndsSomewhere
  <1> QED
    BY <1>2, Whole

(* Entering a step leaves the count of re-plans. *)
LEMMA NotReplanned ==
  ASSUME NEW q \in RunType, NEW s \in Live, run' = Enter(q, s, TRUE), q.replans = run.replans,
         run \in RunType, NEW gate, Passes(gate)
  PROVE  gates' = gates \cup gate
  <1>1. run'.replans = run.replans
    BY Entered DEF Live
  <1>2. run.replans \in Nat
    BY DEF RunType
  <1>3. ~(run.replans > run.replans)
    BY <1>2
  <1> QED
    BY <1>1, <1>3, Zenon DEF Passes

(* The steps a run can be working at. *)
LEMMA LiveSteps ==
  Live = {"brief", "plan", "tasks", "verify", "work", "fix", "ci-fix", "plan-review",
          "verify-review", "revise", "final-review", "replan-review", "setup", "check", "pr", "ci",
          "push", "merge"}
  BY DEF Live, Steps, SessionSteps, ClaudeSteps, OwnSteps, OverSteps

LEMMA PlanReviewKeeps == ASSUME WorkflowInv, PlanReview PROVE WorkflowInv'
  <1>1. /\ run \in RunType /\ RunInv(run, green, gates) /\ Beside
        /\ run.step = "plan-review" /\ Advance(run, Did) /\ Passes({"plan-review"})
        /\ tree' = tree /\ green' = green
    BY DEF WorkflowInv, TypeOK, Beside, PlanReview, At
  <1>2. run.step \in Live /\ "verify" \in Live /\ run.step \notin Claims /\ Did.ok /\ ~Did.wait
    BY <1>1, LiveSteps DEF Claims, Did
  <1>3. PICK q : Like(q, run) /\ ~q.skip /\ run' = Onward(q, Did)
    BY <1>1, <1>2, Worked
  <1>4. q.step = "plan-review" /\ q \in RunType /\ q.replans = run.replans
    BY <1>1, <1>3 DEF Like
  <1>5. run' = Enter(q, "verify", TRUE)
    BY <1>3, <1>4 DEF Onward, Straight
  <1>6. gates' = gates \cup {"plan-review"}
    BY <1>1, <1>2, <1>4, <1>5, NotReplanned
  <1>7. Beside'
    BY <1>1, <1>6 DEF Beside, ClaudeSteps
  <1>8. Fits(q, "verify", green', gates')
    BY <1>6 DEF Fits, GatedSteps
  <1> QED
    BY <1>1, <1>2, <1>3, <1>5, <1>7, <1>8, Lands

(* A step of the runner or of a session that failed: it had no skip.       *)
LEMMA FailsUnskipped ==
  ASSUME WorkflowInv, Fails, run.step \in Live, run.step \notin ClaudeSteps
  PROVE  WorkflowInv'
  BY FailsKeeps, NoSkip

LEMMA DiscardsUnskipped ==
  ASSUME WorkflowInv, Discards, run.step \in Live, run.step \notin ClaudeSteps
  PROVE  WorkflowInv'
  BY DiscardsKeeps, NoSkip

(* Claude may take the check's result away, and no more.                   *)
LEMMA Rewritten ==
  ASSUME green \in {"no", "beside", "alone"}, Rewrites
  PROVE  green' \in {"no", "beside", "alone"}
  BY Zenon DEF Rewrites

LEMMA SetupKeeps == ASSUME WorkflowInv, Setup PROVE WorkflowInv'
  <1>1. /\ run \in RunType /\ RunInv(run, green, gates) /\ Beside /\ run.step = "setup"
    BY DEF WorkflowInv, TypeOK, Beside, Setup, At
  <1>2. /\ run.step \in Live /\ run.step \notin ClaudeSteps /\ run.step \notin Claims
        /\ Did.ok /\ ~Did.wait
    BY <1>1, LiveSteps DEF ClaudeSteps, Claims, Did
  <1>3. CASE Fails
    BY <1>2, <1>3, FailsUnskipped
  <1>4. CASE Advance(run, Did) /\ UNCHANGED <<tree, ghosts>>
    <2>1. PICK q : Like(q, run) /\ ~q.skip /\ run' = Onward(q, Did)
      BY <1>1, <1>2, <1>4, Worked
    <2> DEFINE s == IF q.brief THEN "plan" ELSE "brief"
    <2>2. run' = Enter(q, s, TRUE)
      BY <1>1, <2>1 DEF Like, Onward, Straight
    <2>3. s \in {"plan", "brief"}
      OBVIOUS
    <2> HIDE DEF s
    <2>4. s \in Live /\ Fits(q, s, green', gates') /\ s # "revise"
      BY <2>3, LiveSteps DEF Fits, GatedSteps
    <2>5. Beside'
      BY <1>1, <1>4 DEF Beside, ghosts
    <2> QED
      BY <1>1, <1>2, <2>1, <2>2, <2>4, <2>5, Lands
  <1> QED
    BY <1>3, <1>4 DEF Setup

LEMMA VerifyReviewKeeps == ASSUME WorkflowInv, VerifyReview PROVE WorkflowInv'
  <1>1. /\ run \in RunType /\ RunInv(run, green, gates) /\ Beside
        /\ run.step = "verify-review" /\ Advance(run, Did) /\ Passes({"verify-review"})
        /\ tree' = tree
    BY DEF WorkflowInv, TypeOK, Beside, VerifyReview, At
  <1>2. run.step \in Live /\ "tasks" \in Live /\ run.step \notin Claims /\ Did.ok /\ ~Did.wait
    BY <1>1, LiveSteps DEF Claims, Did
  <1>3. PICK q : Like(q, run) /\ ~q.skip /\ run' = Onward(q, Did)
    BY <1>1, <1>2, Worked
  <1>4. q.step = "verify-review" /\ q \in RunType /\ q.replans = run.replans
    BY <1>1, <1>3 DEF Like
  <1>5. run' = Enter(q, "tasks", TRUE)
    BY <1>3, <1>4 DEF Onward, Straight
  <1>6. gates' = gates \cup {"verify-review"}
    BY <1>1, <1>2, <1>4, <1>5, NotReplanned
  <1>7. green' \in {"no", "beside", "alone"}
    BY <1>1, Rewritten DEF VerifyReview, Beside
  <1>8. Beside'
    BY <1>1, <1>6, <1>7 DEF Beside, ClaudeSteps
  <1>9. Fits(q, "tasks", green', gates')
    BY <1>1, <1>2, <1>6 DEF RunInv, Fits
  <1> QED
    BY <1>1, <1>2, <1>3, <1>5, <1>8, <1>9, Lands

(* A planning session failed, or left its file. *)
LEMMA PlanningEndsKeeps == ASSUME WorkflowInv, PlanningEnds PROVE WorkflowInv'
  <1>1. /\ run \in RunType /\ RunInv(run, green, gates) /\ Beside
        /\ run.step \in {"brief", "plan", "tasks", "verify"}
    BY DEF WorkflowInv, TypeOK, Beside, PlanningEnds, Ends, At
  <1>2. /\ run.step \in Live /\ run.step \notin ClaudeSteps /\ run.step \notin Claims
        /\ Did.ok /\ ~Did.wait
    BY <1>1, LiveSteps DEF ClaudeSteps, Claims, Did
  <1>3. CASE Discards
    BY <1>2, <1>3, DiscardsUnskipped
  <1>4. CASE /\ run.step \in {"brief", "plan", "verify"}
             /\ Advance([run EXCEPT !.brief = @ \/ run.step = "brief"], Did)
             /\ Reset
             /\ green' = (IF run.step = "verify" THEN "no" ELSE green)
             /\ UNCHANGED gates
    <2> DEFINE b == run.brief \/ run.step = "brief"
               r == [run EXCEPT !.brief = b]
    <2>0. b \in BOOLEAN
      OBVIOUS
    <2>1. Advance(r, Did)
      BY <1>4
    <2> HIDE DEF b
    <2>2. r \in RunType /\ r.step = run.step /\ Like(r, run) /\ r.skip = run.skip
      BY <1>1, <2>0 DEF RunType, Like
    <2> HIDE DEF r
    <2>3. RunInv(r, green, gates)
      BY <1>1, <2>2 DEF RunInv, Like, Fits, Counts, Below
    <2>4. PICK q : Like(q, r) /\ ~q.skip /\ run' = Onward(q, Did)
      BY <1>2, <2>1, <2>2, Worked
    <2> DEFINE s == Straight[run.step]
    <2>5. run' = Enter(q, s, TRUE)
      <3>1. q.step = run.step
        BY <2>2, <2>4 DEF Like
      <3>2. CASE run.step = "brief"
        BY <2>4, <3>1, <3>2 DEF Onward, Straight
      <3>3. CASE run.step = "plan"
        BY <2>4, <3>1, <3>3 DEF Onward, Straight
      <3>4. CASE run.step = "verify"
        BY <2>4, <3>1, <3>4 DEF Onward, Straight
      <3> QED
        BY <1>4, <3>2, <3>3, <3>4
    <2>6. /\ s \in {"plan", "plan-review", "verify-review"} /\ s \in Live /\ s # "revise"
          /\ s = "verify-review" => run.step = "verify"
      BY <1>4, LiveSteps DEF Straight
    <2> HIDE DEF s
    <2>7. Beside'
      <3>1. green' \in {"no", "beside", "alone"}
        BY <1>1, <1>4 DEF Beside
      <3> QED
        BY <1>1, <1>4, <3>1, TreesKept DEF Beside
    <2>8. gates' = gates /\ (run.step = "verify" => "plan-review" \in gates)
      BY <1>1, <1>2, <1>4 DEF RunInv, Fits
    <2>9. Fits(q, s, green', gates')
      BY <2>6, <2>8 DEF Fits, GatedSteps
    <2> QED
      BY <1>2, <2>2, <2>3, <2>4, <2>5, <2>6, <2>7, <2>9, Lands
  <1>5. CASE /\ run.step = "tasks"
             /\ \E n \in 0..MaxTasks :
                  /\ tree' = [tree EXCEPT !.head.left = n, !.here = [tree.head EXCEPT !.left = n], !.loose = FALSE]
                  /\ Advance(run, [Did EXCEPT !.tasksLeft = n])
             /\ UNCHANGED ghosts
    <2>0. PICK n \in 0..MaxTasks :
            /\ tree' = [tree EXCEPT !.head.left = n, !.here = [tree.head EXCEPT !.left = n], !.loose = FALSE]
            /\ Advance(run, [Did EXCEPT !.tasksLeft = n])
      BY <1>5
    <2> DEFINE o == [Did EXCEPT !.tasksLeft = n]
               s == IF n > 0 THEN "work" ELSE "check"
    <2>1. o.ok /\ ~o.wait /\ o.tasksLeft = n /\ Advance(run, o)
      BY <2>0 DEF Did
    <2> HIDE DEF o
    <2>2. PICK q : Like(q, run) /\ ~q.skip /\ run' = Onward(q, o)
      BY <1>1, <1>2, <2>1, Worked
    <2>3. run' = Enter(q, s, TRUE)
      BY <1>5, <2>1, <2>2 DEF Like, Onward, Straight, AfterTasks
    <2>4. s \in {"work", "check"} /\ s \in Live /\ s # "revise"
      BY LiveSteps
    <2> HIDE DEF s
    <2>5. Beside'
      <3> DEFINE f == [tree.head EXCEPT !.left = n]
      <3>1. f \in Files /\ tree' = [tree EXCEPT !.head = f, !.here = f, !.loose = FALSE]
        BY <1>1, <2>0 DEF Beside, Trees, Files
      <3> HIDE DEF f
      <3>2. tree' \in Trees
        BY <1>1, <3>1 DEF Beside, Trees
      <3> QED
        BY <1>1, <1>5, <3>2 DEF Beside, ghosts
    <2>6. Fits(q, s, green', gates')
      BY <1>1, <1>2, <1>5, <2>4 DEF RunInv, Fits, GatedSteps, ghosts
    <2> QED
      BY <1>1, <1>2, <2>2, <2>3, <2>4, <2>5, <2>6, Lands
  <1> QED
    BY <1>3, <1>4, <1>5 DEF PlanningEnds, Ends, At

(* The steps of the runner's own that lead to the checks, and their end.   *)
LEMMA PRKeeps == ASSUME WorkflowInv, PR PROVE WorkflowInv'
  <1>1. /\ run \in RunType /\ RunInv(run, green, gates) /\ Beside /\ run.step = "pr"
    BY DEF WorkflowInv, TypeOK, Beside, PR, At
  <1>2. /\ run.step \in Live /\ run.step \notin ClaudeSteps /\ run.step \notin Claims
        /\ Did.ok /\ ~Did.wait /\ "ci" \in Live
    BY <1>1, LiveSteps DEF ClaudeSteps, Claims, Did
  <1>3. CASE Advance(run, DidNot) /\ (Pushes \/ UNCHANGED tree)
    <2>1. ~DidNot.ok /\ ~DidNot.wait /\ ~run.skip
      BY <1>2, NoSkip DEF DidNot, Did
    <2>2. PICK q : Like(q, run) /\ q.skip = run.skip /\ run' = Retry(q)
      BY <1>1, <1>2, <1>3, <2>1, NotWorked
    <2>3. Retry(q) \in RunType /\ RunInv(Retry(q), green, gates)
      BY <1>1, <1>2, <2>1, <2>2, Retries
    <2>4. Beside' /\ green' = green /\ gates' = gates
      BY <1>1, <1>3, TreesKept DEF PR, Beside, ghosts
    <2> QED
      BY <2>2, <2>3, <2>4, Whole
  <1>4. CASE Advance([run EXCEPT !.pr = TRUE], Did) /\ Pushes
    <2> DEFINE r == [run EXCEPT !.pr = TRUE]
    <2>1. /\ r \in RunType /\ r.step = run.step /\ r.pr /\ r.skip = run.skip
          /\ r.failedAt = run.failedAt /\ r.attempt = run.attempt /\ r.fixes = run.fixes
          /\ r.ciFixes = run.ciFixes /\ r.revisions = run.revisions /\ r.replans = run.replans
          /\ r.refusals = run.refusals /\ r.replanFrom = run.replanFrom
      BY <1>1 DEF RunType
    <2> HIDE DEF r
    <2>2. RunInv(r, green, gates)
      BY <1>1, <2>1 DEF RunInv, Fits, Counts, Below
    <2>3. PICK q : Like(q, r) /\ ~q.skip /\ run' = Onward(q, Did)
      BY <1>2, <1>4, <2>1, Worked DEF r
    <2>4. run' = Enter(q, "ci", TRUE) /\ q.pr
      BY <1>1, <2>1, <2>3 DEF Like, Onward, Straight
    <2>5. Beside' /\ gates' = gates
      BY <1>1, <1>4, TreesKept DEF PR, Beside, ghosts
    <2>6. Fits(q, "ci", green', gates')
      BY <1>1, <1>2, <2>4, <2>5 DEF RunInv, Fits, GatedSteps
    <2> QED
      BY <1>2, <2>1, <2>2, <2>3, <2>4, <2>5, <2>6, Lands
  <1> QED
    BY <1>3, <1>4 DEF PR

LEMMA PushKeeps == ASSUME WorkflowInv, Push PROVE WorkflowInv'
  <1>1. /\ run \in RunType /\ RunInv(run, green, gates) /\ Beside /\ run.step = "push"
    BY DEF WorkflowInv, TypeOK, Beside, Push, At
  <1>2. /\ run.step \in Live /\ run.step \notin ClaudeSteps /\ run.step \notin Claims
        /\ Did.ok /\ ~Did.wait /\ "ci" \in Live
    BY <1>1, LiveSteps DEF ClaudeSteps, Claims, Did
  <1>3. CASE Fails
    BY <1>2, <1>3, FailsUnskipped
  <1>4. CASE /\ Advance(run, Did) /\ gates' = gates
             /\ Beside'
    <2>1. PICK q : Like(q, run) /\ ~q.skip /\ run' = Onward(q, Did)
      BY <1>1, <1>2, <1>4, Worked
    <2>2. run' = Enter(q, "ci", TRUE) /\ q.pr = run.pr
      BY <1>1, <2>1 DEF Like, Onward, Straight
    <2>3. Fits(q, "ci", green', gates')
      BY <1>1, <1>2, <1>4, <2>2 DEF RunInv, Fits, GatedSteps
    <2> QED
      BY <1>1, <1>2, <1>4, <2>1, <2>2, <2>3, Lands
  <1>5. Fails \/ (Advance(run, Did) /\ gates' = gates /\ Beside')
    <2>1. CASE Advance(run, Did) /\ Pushes /\ UNCHANGED ghosts
      BY <1>1, <2>1, TreesKept DEF Beside, ghosts
    <2>2. CASE /\ Advance(run, Did)
               /\ \E n \in 0..MaxTasks :
                    LET moved == [asks |-> tree.pushed, left |-> n]
                    IN  tree' = [tree EXCEPT !.here = moved, !.head = moved, !.loose = FALSE]
               /\ green' = "no"
               /\ UNCHANGED gates
      <3>1. PICK n \in 0..MaxTasks :
              LET moved == [asks |-> tree.pushed, left |-> n]
              IN  tree' = [tree EXCEPT !.here = moved, !.head = moved, !.loose = FALSE]
        BY <2>2
      <3> DEFINE f == [asks |-> tree.pushed, left |-> n]
      <3>2. f \in Files /\ tree' = [tree EXCEPT !.here = f, !.head = f, !.loose = FALSE]
        BY <1>1, <3>1 DEF Beside, Trees, Files
      <3> HIDE DEF f
      <3>3. tree' \in Trees
        BY <1>1, <3>2 DEF Beside, Trees
      <3> QED
        BY <1>1, <2>2, <3>3 DEF Beside
    <2> QED
      BY <2>1, <2>2 DEF Push
  <1> QED
    BY <1>3, <1>4, <1>5

LEMMA MergeKeeps == ASSUME WorkflowInv, Merge PROVE WorkflowInv'
  <1>1. /\ run \in RunType /\ RunInv(run, green, gates) /\ Beside /\ run.step = "merge"
    BY DEF WorkflowInv, TypeOK, Beside, Merge, At
  <1>2. /\ run.step \in Live /\ run.step \notin ClaudeSteps /\ run.step \notin Claims
        /\ Did.ok /\ ~Did.wait
    BY <1>1, LiveSteps DEF ClaudeSteps, Claims, Did
  <1>3. CASE Fails
    BY <1>2, <1>3, FailsUnskipped
  <1>4. CASE Advance(run, Did) /\ UNCHANGED <<tree, ghosts>>
    <2>1. PICK q : Like(q, run) /\ ~q.skip /\ run' = Onward(q, Did)
      BY <1>1, <1>2, <1>4, Worked
    <2>2. run' = Finish(q) /\ q.pr = run.pr
      BY <1>1, <2>1 DEF Like, Onward, Straight
    <2>3. Beside' /\ q.pr
      BY <1>1, <1>2, <1>4, <2>2 DEF RunInv, Fits, Beside, ghosts
    <2> QED
      BY <1>1, <1>2, <2>1, <2>2, <2>3, EndsWell
  <1> QED
    BY <1>3, <1>4 DEF Merge

-----------------------------------------------------------------------------
(* The steps that carry the plan out, and what looks at them.              *)

(* The run goes to Claude with a session's claim.                          *)
LEMMA ClaimKeeps ==
  ASSUME NEW q, run \in RunType, RunInv(run, green, gates), run.step \in Claims,
         Like(q, run), ~q.skip, Beside', gates' = gates,
         run' = Enter([q EXCEPT !.replanFrom = run.step], "replan-review", TRUE)
  PROVE  WorkflowInv'
  <1>1. run.step \in Live /\ "replan-review" \in Live /\ run.step # None
    BY LiveSteps DEF Claims, None
  <1>2. /\ q \in RunType /\ q.failedAt = None /\ Counts(q) /\ Below(q)
        /\ Fits(q, run.step, green, gates)
    BY <1>1, FromHere
  <1> DEFINE p == [q EXCEPT !.replanFrom = run.step]
  <1>3. p \in RunType
    BY <1>2 DEF RunType
  <1>4. /\ p.failedAt = q.failedAt /\ p.fixes = q.fixes /\ p.ciFixes = q.ciFixes
        /\ p.skip = q.skip /\ p.revisions = q.revisions /\ p.replans = q.replans
        /\ p.refusals = q.refusals /\ p.replanFrom = run.step /\ p.pr = q.pr
    BY <1>2 DEF RunType
  <1> HIDE DEF p
  <1>5. Counts(p) /\ Below(p)
    BY <1>2, <1>4 DEF Counts, Below, Fits
  <1>6. Fits(p, "replan-review", green', gates')
    BY <1>1, <1>2, <1>4 DEF Fits, GatedSteps, Claims
  <1>7. /\ Enter(p, "replan-review", TRUE) \in RunType
        /\ RunInv(Enter(p, "replan-review", TRUE), green', gates')
    BY <1>1, <1>2, <1>3, <1>4, <1>5, <1>6, GoesOn
  <1> QED
    BY <1>7, Whole DEF p

LEMMA VerdictEndsKeeps == ASSUME WorkflowInv, VerdictEnds PROVE WorkflowInv'
  <1>1. /\ run \in RunType /\ RunInv(run, green, gates) /\ Beside /\ run.step \in Claims
    BY DEF WorkflowInv, TypeOK, Beside, VerdictEnds, Ends, At
  <1> DEFINE o == [Did EXCEPT !.replan = TRUE]
  <1>2. run.step \in Live /\ o.ok /\ ~o.wait /\ o.replan /\ Advance(run, o)
    BY <1>1, LiveSteps DEF Claims, Did, VerdictEnds
  <1> HIDE DEF o
  <1>3. PICK q : Like(q, run) /\ ~q.skip /\ run' = Replan(q)
    BY <1>1, <1>2, Worked
  <1>4. q \in RunType /\ q.failedAt = None /\ Counts(q) /\ Below(q)
    BY <1>1, <1>2, <1>3, FromHere
  <1>5. Replan(q) \in RunType /\ RunInv(Replan(q), green', gates')
    BY <1>3, <1>4, Replans
  <1>6. Leaves
    BY DEF VerdictEnds
  <1>7. gates' \subseteq ClaudeSteps
    BY <1>1 DEF VerdictEnds, Passes, Beside
  <1>8. Beside'
    BY <1>1, <1>6, <1>7, TreesKept DEF Beside, Leaves
  <1> QED
    BY <1>3, <1>5, <1>8, Whole

(* It asks to plan again, and Claude judges that.                          *)
LEMMA AsksKeeps ==
  ASSUME run \in RunType, RunInv(run, green, gates), run.step \in Claims, Beside', gates' = gates,
         AsksToReplan
  PROVE  WorkflowInv'
  <1> DEFINE o == [Did EXCEPT !.replanRequest = TRUE]
  <1>1. o.ok /\ ~o.wait /\ ~o.replan /\ o.replanRequest /\ Advance(run, o)
    BY DEF Did, AsksToReplan
  <1> HIDE DEF o
  <1>2. run.step \in Live
    BY LiveSteps DEF Claims
  <1>3. PICK q : /\ Like(q, run) /\ ~q.skip
                 /\ run' = Enter([q EXCEPT !.replanFrom = run.step], "replan-review", TRUE)
    BY <1>1, <1>2, Worked
  <1> QED
    BY <1>3, ClaimKeeps

LEMMA WorkEndsKeeps == ASSUME WorkflowInv, WorkEnds PROVE WorkflowInv'
  <1>1. /\ run \in RunType /\ RunInv(run, green, gates) /\ Beside /\ run.step = "work"
    BY DEF WorkflowInv, TypeOK, Beside, WorkEnds, Ends, At
  <1>2. run.step \in Live /\ run.step \notin ClaudeSteps /\ run.step \in Claims
    BY <1>1, LiveSteps DEF ClaudeSteps, Claims
  <1>3. CASE Discards
    BY <1>2, <1>3, DiscardsUnskipped
  <1>4. ASSUME Leaves, gates' = gates PROVE Beside'
    BY <1>1, <1>4, TreesKept DEF Beside, Leaves
  <1>5. CASE Leaves /\ gates' = gates /\ AsksToReplan
    BY <1>1, <1>2, <1>4, <1>5, AsksKeeps
  <1>6. CASE Leaves /\ gates' = gates /\ Advance(run, [Did EXCEPT !.tasksLeft = tree'.here.left])
    <2> DEFINE n == tree'.here.left
               o == [Did EXCEPT !.tasksLeft = n]
               s == IF n > 0 THEN "work" ELSE "check"
    <2>1. o.ok /\ ~o.wait /\ ~o.replan /\ ~o.replanRequest /\ o.tasksLeft = n /\ Advance(run, o)
      BY <1>6 DEF Did
    <2> HIDE DEF n, o
    <2>2. PICK q : Like(q, run) /\ ~q.skip /\ run' = Onward(q, o)
      BY <1>1, <1>2, <2>1, Worked
    <2>3. run' = Enter(q, s, TRUE)
      BY <1>1, <2>1, <2>2 DEF Like, Onward, Straight, AfterTasks
    <2>4. s \in {"work", "check"} /\ s \in Live /\ s # "revise"
      BY LiveSteps
    <2> HIDE DEF s
    <2>5. Fits(q, s, green', gates')
      BY <1>1, <1>2, <1>6, <2>4 DEF RunInv, Fits, GatedSteps
    <2> QED
      BY <1>1, <1>2, <1>4, <1>6, <2>2, <2>3, <2>4, <2>5, Lands
  <1> QED
    BY <1>3, <1>5, <1>6 DEF WorkEnds

LEMMA FixEndsKeeps == ASSUME WorkflowInv, FixEnds PROVE WorkflowInv'
  <1>1. /\ run \in RunType /\ RunInv(run, green, gates) /\ Beside
        /\ run.step \in {"fix", "ci-fix"}
    BY DEF WorkflowInv, TypeOK, Beside, FixEnds, Ends, At
  <1>2. /\ run.step \in Live /\ run.step \notin ClaudeSteps /\ run.step \in Claims
        /\ "check" \in Live /\ "revise" \in Live
    BY <1>1, LiveSteps DEF ClaudeSteps, Claims
  <1>3. CASE Discards
    BY <1>2, <1>3, DiscardsUnskipped
  <1>4. ASSUME Leaves, gates' = gates PROVE Beside'
    BY <1>1, <1>4, TreesKept DEF Beside, Leaves
  <1>5. CASE Leaves /\ gates' = gates /\ AsksToReplan
    BY <1>1, <1>2, <1>4, <1>5, AsksKeeps
  <1>6. CASE /\ Leaves /\ gates' = gates
             /\ Advance(run, [Did EXCEPT !.revision = "revision" \in tree'.here.asks])
    <2> DEFINE v == "revision" \in tree'.here.asks
               o == [Did EXCEPT !.revision = v]
    <2>1. o.ok /\ ~o.wait /\ ~o.replan /\ ~o.replanRequest /\ o.revision = v /\ Advance(run, o)
      BY <1>6 DEF Did
    <2>2. v \in BOOLEAN
      OBVIOUS
    <2> HIDE DEF v, o
    <2>3. Beside' /\ gates' = gates
      BY <1>4, <1>6
    <2>4. PICK q : Like(q, run) /\ ~q.skip /\ run' = Onward(q, o)
      BY <1>1, <1>2, <2>1, Worked
    <2>5. run' = AfterFix(q, o)
      BY <1>1, <2>4 DEF Like, Onward, Straight
    <2>6. /\ Fits(q, "check", green', gates')
          /\ Fits(q, "revise", green', gates')
          /\ q.revisions \in Nat /\ MaxRevisions \in Nat
      BY <1>1, <1>2, <2>3, <2>4, CapsAssumption DEF RunInv, Fits, GatedSteps, Like, RunType
    <2>7. CASE o.revision /\ q.revisions >= MaxRevisions
      <3>1. run' = Fail(q, "revise")
        BY <2>5, <2>7 DEF AfterFix
      <3> QED
        BY <1>1, <1>2, <2>3, <2>4, <2>6, <3>1, Falls
    <2>8. CASE o.revision /\ ~(q.revisions >= MaxRevisions)
      <3>1. run' = Enter(q, "revise", TRUE)
        BY <2>5, <2>8, Zenon DEF AfterFix
      <3>2. q.revisions < MaxRevisions
        BY <2>6, <2>8
      <3> QED
        BY <1>1, <1>2, <2>3, <2>4, <2>6, <3>1, <3>2, Lands
    <2>9. CASE ~o.revision
      <3>1. run' = Enter(q, "check", TRUE)
        BY <2>5, <2>9 DEF AfterFix
      <3> QED
        BY <1>1, <1>2, <2>3, <2>4, <2>6, <3>1, Lands
    <2> QED
      BY <2>7, <2>8, <2>9
  <1> QED
    BY <1>3, <1>5, <1>6 DEF FixEnds

(* Claude replaces the check, or leaves it.                                *)
LEMMA ReviseKeeps == ASSUME WorkflowInv, Revise PROVE WorkflowInv'
  <1>1. /\ run \in RunType /\ RunInv(run, green, gates) /\ Beside
        /\ run.step = "revise" /\ Advance(run, Did)
        /\ gates' = gates
    BY DEF WorkflowInv, TypeOK, Beside, Revise, At
  <1>2. run.step \in Live /\ "check" \in Live /\ run.step \notin Claims /\ Did.ok /\ ~Did.wait
    BY <1>1, LiveSteps DEF Claims, Did
  <1>3. PICK q : Like(q, run) /\ ~q.skip /\ run' = Onward(q, Did)
    BY <1>1, <1>2, Worked
  <1>4. /\ q \in RunType /\ q.failedAt = None /\ Counts(q) /\ Below(q)
        /\ Fits(q, "revise", green, gates) /\ q.revisions < MaxRevisions
    BY <1>1, <1>2, <1>3, FromHere
  <1> DEFINE p == [q EXCEPT !.revisions = @ + 1]
  <1>5. run' = Enter(p, "check", TRUE)
    BY <1>1, <1>3 DEF Like, Onward, Straight
  <1>6. p \in RunType
    BY <1>4 DEF RunType
  <1>7. /\ p.failedAt = q.failedAt /\ p.fixes = q.fixes /\ p.ciFixes = q.ciFixes
        /\ p.skip = q.skip /\ p.revisions = q.revisions + 1 /\ p.replans = q.replans
        /\ p.refusals = q.refusals /\ p.replanFrom = q.replanFrom /\ p.pr = q.pr
        /\ q.revisions \in Nat
    BY <1>4 DEF RunType
  <1> HIDE DEF p
  <1>8. Counts(p) /\ Below(p)
    BY <1>4, <1>7, CapsAssumption DEF Counts, Below
  <1>9. Fits(p, "check", green', gates')
    BY <1>1, <1>4 DEF Fits, GatedSteps
  <1>10. /\ Enter(p, "check", TRUE) \in RunType
         /\ RunInv(Enter(p, "check", TRUE), green', gates')
    BY <1>2, <1>3, <1>4, <1>6, <1>7, <1>8, <1>9, GoesOn
  <1>11. green' \in {"no", "beside", "alone"}
    BY <1>1, Rewritten DEF Revise, Beside
  <1>12. tree' \in Trees
    BY <1>1, TreesKept DEF Revise, Beside
  <1>13. Beside'
    BY <1>1, <1>11, <1>12 DEF Beside
  <1> QED
    BY <1>5, <1>10, <1>13, Whole

LEMMA ReviseFailsKeeps == ASSUME WorkflowInv, ReviseFails PROVE WorkflowInv'
  <1>1. run' = run /\ tree' = tree /\ gates' = gates
    BY DEF ReviseFails
  <1>2. green' \in {"no", "beside", "alone"}
    BY Rewritten DEF ReviseFails, WorkflowInv, TypeOK
  <1>3. RunInv(run, green', gates)
    <2>1. run.step = "revise" /\ RunInv(run, green, gates)
      BY DEF WorkflowInv, ReviseFails, At
    <2>2. run.failedAt = None
      BY <2>1, LiveSteps DEF RunInv
    <2> QED
      BY <2>1, <2>2 DEF RunInv, Fits
  <1> QED
    BY <1>1, <1>2, <1>3 DEF WorkflowInv, TypeOK

LEMMA ReplanReviewKeeps == ASSUME WorkflowInv, ReplanReview PROVE WorkflowInv'
  <1>1. /\ run \in RunType /\ RunInv(run, green, gates) /\ Beside
        /\ run.step = "replan-review" /\ Passes({}) /\ green' = green
       
    BY DEF WorkflowInv, TypeOK, Beside, ReplanReview, At
  <1>2. run.step \in Live /\ run.step \notin Claims
    BY <1>1, LiveSteps DEF Claims
  <1>3. PICK agrees \in BOOLEAN : Advance(run, [Did EXCEPT !.replan = agrees])
    BY DEF ReplanReview
  <1> DEFINE o == [Did EXCEPT !.replan = agrees]
  <1>4. o.ok /\ ~o.wait /\ o.replan = agrees /\ Advance(run, o)
    BY <1>3 DEF Did
  <1> HIDE DEF o
  <1>5. PICK q : Like(q, run) /\ ~q.skip /\ run' = Onward(q, o)
    BY <1>1, <1>2, <1>4, Worked
  <1>6. /\ q \in RunType /\ q.failedAt = None /\ Counts(q) /\ Below(q)
        /\ Fits(q, "replan-review", green, gates) /\ q.replans = run.replans
    BY <1>1, <1>2, <1>5, FromHere DEF Like
  <1>7. run' = AfterReplanReview(q, o)
    BY <1>1, <1>5 DEF Like, Onward, Straight
  <1>8. tree' \in Trees
    BY <1>1, TreesKept DEF ReplanReview, Beside
  <1>9. gates' \subseteq ClaudeSteps
    BY <1>1 DEF Passes, Beside
  <1>10. Beside'
    BY <1>1, <1>8, <1>9 DEF Beside
  <1>11. CASE o.replan
    <2>1. run' = Replan(q)
      BY <1>7, <1>11 DEF AfterReplanReview
    <2>2. Replan(q) \in RunType /\ RunInv(Replan(q), green', gates')
      BY <1>5, <1>6, Replans
    <2> QED
      BY <1>10, <2>1, <2>2, Whole
  <1>12. CASE ~o.replan
    <2> DEFINE p == [q EXCEPT !.refusals = @ + 1]
               s == q.replanFrom
    <2>1. run' = IF p.refusals > MaxRefusals THEN Fail(p, s) ELSE Enter(p, s, TRUE)
      BY <1>7, <1>12 DEF AfterReplanReview
    <2>2. p \in RunType /\ s \in Claims /\ s \in Live /\ s # "revise"
      BY <1>6, LiveSteps DEF RunType, Fits, Claims
    <2>3. /\ p.failedAt = q.failedAt /\ p.fixes = q.fixes /\ p.ciFixes = q.ciFixes
          /\ p.skip = q.skip /\ p.revisions = q.revisions /\ p.replans = q.replans
          /\ p.refusals = q.refusals + 1 /\ p.replanFrom = q.replanFrom /\ p.pr = q.pr
          /\ q.refusals \in Nat
      BY <1>6 DEF RunType
    <2> HIDE DEF p
    <2>4. Counts(p) /\ p.replans <= MaxReplans
      BY <1>6, <2>3, CapsAssumption DEF Counts, Below
    <2>5. CASE p.refusals > MaxRefusals
      <3>1. run'.replans = run.replans
        <4>1. Fits(p, s, green, gates)
          BY <1>6, <2>2, <2>3 DEF Fits, GatedSteps, Claims, Counts
        <4>2. Fail(p, s).replans = p.replans
          BY <1>5, <2>2, <2>3, <2>4, <4>1, FailsAt
        <4> QED
          BY <1>6, <2>1, <2>3, <2>5, <4>2
      <3>2. gates' = gates
        <4>1. run.replans \in Nat
          BY <1>1 DEF RunType
        <4>2. ~(run.replans > run.replans)
          BY <4>1
        <4> QED
          BY <1>1, <3>1, <4>2, Zenon DEF Passes
      <3>3. Fits(p, s, green', gates')
        BY <1>1, <1>6, <2>2, <2>3, <3>2 DEF Fits, GatedSteps, Claims, Counts
      <3>4. Fail(p, s) \in RunType /\ RunInv(Fail(p, s), green', gates')
        BY <1>5, <2>2, <2>3, <2>4, <3>3, FailsAt
      <3> QED
        BY <1>10, <2>1, <2>5, <3>4, Whole
    <2>6. CASE ~(p.refusals > MaxRefusals)
      <3>1. run' = Enter(p, s, TRUE) /\ p.replans = run.replans
        BY <1>6, <2>1, <2>3, <2>6
      <3>2. gates' = gates
        <4>1. gates' = gates \cup {}
          BY <1>1, <2>2, <3>1, NotReplanned
        <4> QED
          BY <4>1
      <3>3. Fits(p, s, green', gates')
        BY <1>1, <1>6, <2>2, <2>3, <3>2 DEF Fits, GatedSteps, Claims, Counts
      <3>4. Below(p)
        BY <2>2, <2>4, <2>6, CapsAssumption DEF Below, RunType
      <3>5. Enter(p, s, TRUE) \in RunType /\ RunInv(Enter(p, s, TRUE), green', gates')
        BY <1>5, <1>6, <2>2, <2>3, <2>4, <3>3, <3>4, GoesOn
      <3> QED
        BY <1>10, <3>1, <3>5, Whole
    <2> QED
      BY <2>5, <2>6
  <1> QED
    BY <1>11, <1>12

LEMMA FinalReviewKeeps == ASSUME WorkflowInv, FinalReview PROVE WorkflowInv'
  <1>1. /\ run \in RunType /\ RunInv(run, green, gates) /\ Beside
        /\ run.step = "final-review" /\ Passes({"final-review"}) /\ green' = green
    BY DEF WorkflowInv, TypeOK, Beside, FinalReview, At
  <1>2. run.step \in Live /\ run.step \notin Claims /\ "work" \in Live /\ "pr" \in Live
    BY <1>1, LiveSteps DEF Claims
  <1> DEFINE found == [Did EXCEPT !.blockers = TRUE]
  <1>3. PICK o : o.ok /\ ~o.wait /\ Advance(run, o) /\ tree' \in Trees
    <2>1. CASE UNCHANGED tree /\ Advance(run, Did)
      BY <1>1, <2>1 DEF Did, Beside
    <2>2. CASE /\ \E n \in (tree.here.left + 1)..MaxTasks :
                    tree' = [tree EXCEPT !.here.left = n, !.head.left = n]
               /\ Advance(run, found)
      <3>1. found.ok /\ ~found.wait
        BY DEF Did
      <3>2. PICK n \in (tree.here.left + 1)..MaxTasks :
              tree' = [tree EXCEPT !.here.left = n, !.head.left = n]
        BY <2>2
      <3> DEFINE h == [tree.here EXCEPT !.left = n]
                 c == [tree.head EXCEPT !.left = n]
      <3>3. n \in 0..MaxTasks
        BY <1>1, TasksAssumption DEF Beside, Trees, Files
      <3>4. h \in Files /\ c \in Files /\ tree' = [tree EXCEPT !.here = h, !.head = c]
        BY <1>1, <3>2, <3>3 DEF Beside, Trees, Files
      <3> HIDE DEF h, c
      <3>5. tree' \in Trees
        BY <1>1, <3>4 DEF Beside, Trees
      <3> QED
        BY <2>2, <3>1, <3>5
    <2> QED
      BY <2>1, <2>2 DEF FinalReview
  <1>4. PICK q : Like(q, run) /\ ~q.skip /\ run' = Onward(q, o)
    BY <1>1, <1>2, <1>3, Worked
  <1> DEFINE p == [q EXCEPT !.finalReviewed = TRUE]
             s == IF o.blockers THEN "work" ELSE "pr"
  <1>5. run' = Enter(p, s, TRUE)
    BY <1>1, <1>4 DEF Like, Onward, Straight, AfterFinalReview
  <1>6. Like(p, run) /\ ~p.skip
    BY <1>4 DEF Like, RunType
  <1> HIDE DEF p
  <1>7. s \in {"work", "pr"} /\ s \in Live /\ s # "revise"
    BY <1>2
  <1> HIDE DEF s
  <1>8. gates' = gates \cup {"final-review"}
    BY <1>1, <1>5, <1>6, <1>7, NotReplanned DEF Like
  <1>9. Beside'
    BY <1>1, <1>3, <1>8 DEF Beside, ClaudeSteps
  <1>10. Fits(p, s, green', gates')
    BY <1>1, <1>2, <1>7, <1>8 DEF RunInv, Fits, GatedSteps
  <1> QED
    BY <1>1, <1>2, <1>5, <1>6, <1>7, <1>9, <1>10, Lands

LEMMA CheckKeeps == ASSUME WorkflowInv, Check PROVE WorkflowInv'
  <1>1. /\ run \in RunType /\ RunInv(run, green, gates) /\ Beside /\ run.step = "check"
    BY DEF WorkflowInv, TypeOK, Beside, Check, At
  <1>2. /\ run.step \in Live /\ run.step \notin ClaudeSteps /\ run.step \notin Claims
        /\ {"push", "pr", "final-review", "fix"} \subseteq Live
    BY <1>1, LiveSteps DEF ClaudeSteps, Claims
  <1>3. CASE Fails
    BY <1>2, <1>3, FailsUnskipped
  <1>4. CASE /\ \E passed \in BOOLEAN :
                  /\ Advance(run, [Did EXCEPT !.checkPassed = passed])
                  /\ green' = IF ~passed THEN "no" ELSE IF Clean THEN "alone" ELSE "beside"
             /\ UNCHANGED <<tree, gates>>
    <2>0. PICK g \in BOOLEAN :
            /\ Advance(run, [Did EXCEPT !.checkPassed = g])
            /\ green' = IF ~g THEN "no" ELSE IF Clean THEN "alone" ELSE "beside"
      BY <1>4
    <2> DEFINE o == [Did EXCEPT !.checkPassed = g]
    <2>1. Advance(run, o)
      BY <2>0
    <2>2. Beside'
      BY <1>1, <1>4, <2>0 DEF Beside
    <2>3. g => green' # "no"
      BY <2>0
    <2>4. o.ok /\ ~o.wait /\ o.checkPassed = g
      BY DEF Did
    <2> HIDE DEF o
    <2>5. PICK q : Like(q, run) /\ ~q.skip /\ run' = Onward(q, o)
      BY <1>1, <1>2, <2>1, <2>4, Worked
    <2>6. /\ q \in RunType /\ q.failedAt = None /\ Counts(q) /\ Below(q)
          /\ Fits(q, "check", green, gates)
      BY <1>1, <1>2, <2>5, FromHere
    <2>7. run' = AfterCheck(q, o)
      BY <1>1, <2>5 DEF Like, Onward, Straight
    <2>8. CASE g
      <3> DEFINE s == IF q.pr THEN "push" ELSE IF q.finalReviewed THEN "pr" ELSE "final-review"
      <3>1. run' = Enter(q, s, TRUE)
        BY <2>4, <2>7, <2>8 DEF AfterCheck
      <3>2. s \in {"push", "pr", "final-review"} /\ (s = "push" => q.pr)
        OBVIOUS
      <3> HIDE DEF s
      <3>3. Fits(q, s, green', gates')
        BY <1>4, <2>3, <2>6, <2>8, <3>2 DEF Fits, GatedSteps
      <3> QED
        BY <1>1, <1>2, <2>2, <2>5, <3>1, <3>2, <3>3, Lands
    <2>9. CASE ~g /\ q.fixes >= MaxFixes
      <3>1. run' = Fail(q, "fix")
        BY <2>4, <2>7, <2>9, Zenon DEF AfterCheck
      <3>2. Fits(q, "fix", green', gates')
        BY <1>4, <2>6 DEF Fits, GatedSteps
      <3> QED
        BY <1>1, <1>2, <2>2, <2>5, <3>1, <3>2, Falls
    <2>10. CASE ~g /\ ~(q.fixes >= MaxFixes)
      <3> DEFINE p == [q EXCEPT !.fixes = @ + 1]
      <3>1. run' = Enter(p, "fix", TRUE)
        BY <2>4, <2>7, <2>10, Zenon DEF AfterCheck
      <3>2. p \in RunType
        BY <2>6 DEF RunType
      <3>3. /\ p.failedAt = q.failedAt /\ p.fixes = q.fixes + 1 /\ p.ciFixes = q.ciFixes
            /\ p.skip = q.skip /\ p.revisions = q.revisions /\ p.replans = q.replans
            /\ p.refusals = q.refusals /\ p.replanFrom = q.replanFrom /\ p.pr = q.pr
            /\ q.fixes \in Nat
        BY <2>6 DEF RunType
      <3> HIDE DEF p
      <3>4. Counts(p) /\ Below(p)
        BY <2>6, <2>10, <3>3, CapsAssumption DEF Counts, Below
      <3>5. Fits(p, "fix", green', gates')
        BY <1>4, <2>6 DEF Fits, GatedSteps
      <3>6. /\ Enter(p, "fix", TRUE) \in RunType
            /\ RunInv(Enter(p, "fix", TRUE), green', gates')
        BY <1>2, <2>5, <2>6, <3>2, <3>3, <3>4, <3>5, GoesOn
      <3> QED
        BY <2>2, <3>1, <3>6, Whole
    <2> QED
      BY <2>8, <2>9, <2>10
  <1> QED
    BY <1>3, <1>4 DEF Check

LEMMA CIKeeps == ASSUME WorkflowInv, CI PROVE WorkflowInv'
  <1>1. /\ run \in RunType /\ RunInv(run, green, gates) /\ Beside /\ run.step = "ci"
    BY DEF WorkflowInv, TypeOK, Beside, CI, At
  <1>2. /\ run.step \in Live /\ run.step \notin ClaudeSteps /\ run.step \notin Claims
        /\ {"ci-fix", "merge", "ci"} \subseteq Live
    BY <1>1, LiveSteps DEF ClaudeSteps, Claims
  <1>3. CASE Fails
    BY <1>2, <1>3, FailsUnskipped
  <1>4. CASE /\ \E ci \in CIResults : Advance(run, [Did EXCEPT !.ci = ci])
             /\ UNCHANGED <<tree, ghosts>>
    <2>1. Beside' /\ green' = green /\ gates' = gates
      BY <1>1, <1>4 DEF Beside, ghosts
    <2>2. PICK ci \in CIResults : Advance(run, [Did EXCEPT !.ci = ci])
      BY <1>4
    <2> DEFINE o == [Did EXCEPT !.ci = ci]
    <2>3. o.ok /\ ~o.wait /\ o.ci = ci /\ Advance(run, o)
      BY <2>2 DEF Did
    <2> HIDE DEF o
    <2>4. PICK q : Like(q, run) /\ ~q.skip /\ run' = Onward(q, o)
      BY <1>1, <1>2, <2>3, Worked
    <2>5. /\ q \in RunType /\ q.failedAt = None /\ Counts(q) /\ Below(q)
          /\ Fits(q, "ci", green', gates') /\ q.pr
      BY <1>1, <1>2, <2>1, <2>4, FromHere DEF Fits
    <2>6. run' = AfterCI(q, o)
      BY <1>1, <2>4 DEF Like, Onward, Straight
    <2>7. \A s \in {"ci", "ci-fix", "merge"} : Fits(q, s, green', gates')
      BY <2>5 DEF Fits, GatedSteps
    <2>8. CASE ci = "merged" \/ (ci = "pass" /\ ~q.goal)
      <3>1. run' = Finish(q)
        BY <2>3, <2>6, <2>8 DEF AfterCI
      <3> QED
        BY <1>1, <1>2, <2>1, <2>4, <2>5, <3>1, EndsWell
    <2>9. CASE ci = "pass" /\ q.goal
      <3>1. run' = Enter(q, "merge", TRUE)
        BY <2>3, <2>6, <2>9 DEF AfterCI
      <3> QED
        BY <1>1, <1>2, <2>1, <2>4, <2>7, <3>1, Lands
    <2>10. CASE ci = "closed"
      <3>1. run' = Fail(q, "ci")
        BY <2>3, <2>6, <2>10 DEF AfterCI
      <3> QED
        BY <1>1, <1>2, <2>1, <2>4, <2>7, <3>1, Falls
    <2>11. CASE ci = "fail" /\ q.ciFixes >= MaxCIFixes
      <3>1. run' = Fail(q, "ci-fix")
        BY <2>3, <2>6, <2>11 DEF AfterCI
      <3> QED
        BY <1>1, <1>2, <2>1, <2>4, <2>7, <3>1, Falls
    <2>12. CASE ci = "fail" /\ ~(q.ciFixes >= MaxCIFixes)
      <3> DEFINE p == [q EXCEPT !.ciFixes = @ + 1]
      <3>1. run' = Enter(p, "ci-fix", TRUE)
        BY <2>3, <2>6, <2>12 DEF AfterCI
      <3>2. p \in RunType
        BY <2>5 DEF RunType
      <3>3. /\ p.failedAt = q.failedAt /\ p.fixes = q.fixes /\ p.ciFixes = q.ciFixes + 1
            /\ p.skip = q.skip /\ p.revisions = q.revisions /\ p.replans = q.replans
            /\ p.refusals = q.refusals /\ p.replanFrom = q.replanFrom /\ p.pr = q.pr
            /\ q.ciFixes \in Nat
        BY <2>5 DEF RunType
      <3> HIDE DEF p
      <3>4. Counts(p) /\ Below(p)
        BY <2>5, <2>12, <3>3, CapsAssumption DEF Counts, Below
      <3>5. Fits(p, "ci-fix", green', gates')
        BY <2>5, <2>7, <3>3 DEF Fits, GatedSteps
      <3>6. /\ Enter(p, "ci-fix", TRUE) \in RunType
            /\ RunInv(Enter(p, "ci-fix", TRUE), green', gates')
        BY <1>2, <2>4, <2>5, <3>2, <3>3, <3>4, <3>5, GoesOn
      <3> QED
        BY <2>1, <3>1, <3>6, Whole
    <2> QED
      BY <2>8, <2>9, <2>10, <2>11, <2>12 DEF CIResults
  <1> QED
    BY <1>3, <1>4 DEF CI

(* A failed run fits the step it failed at, and the counts that failed it  *)
(* start again.                                                            *)
LEMMA PickUpKeeps == ASSUME WorkflowInv, PickUp PROVE WorkflowInv'
  <1>1. /\ run \in RunType /\ RunInv(run, green, gates) /\ Beside /\ run.step = "failed"
        /\ green' = green /\ gates' = gates /\ Beside'
    BY DEF WorkflowInv, TypeOK, Beside, PickUp, ghosts
  <1>2. PICK brief \in {run.brief, TRUE} : run' = [Resume(run) EXCEPT !.brief = brief]
    BY DEF PickUp
  <1>3. brief \in BOOLEAN
    <2>1. run.brief \in BOOLEAN
      BY <1>1 DEF RunType
    <2> QED
      BY <2>1, Zenon
  <1> DEFINE at == run.failedAt
  <1>4. /\ at \in Live /\ Fits(run, at, green, gates) /\ Counts(run) /\ ~run.skip
        /\ {"check", "revise", "ci"} \subseteq Live
    BY <1>1, LiveSteps DEF RunInv, ClaudeSteps
  <1> DEFINE z == [run EXCEPT !.replans = 0, !.refusals = 0, !.failedAt = None]
             f == [z EXCEPT !.fixes = 0]
             v == [z EXCEPT !.revisions = 0]
             c == [z EXCEPT !.ciFixes = 0]
  <1> DEFINE Restarted(y) ==
               /\ y \in RunType /\ y.failedAt = None /\ y.skip = run.skip /\ y.replans = 0
               /\ y.refusals = 0 /\ y.replanFrom = run.replanFrom /\ y.pr = run.pr
               /\ y.fixes \in {0, run.fixes} /\ y.revisions \in {0, run.revisions}
               /\ y.ciFixes \in {0, run.ciFixes}
  <1>5. Restarted(z) /\ Restarted(f) /\ Restarted(v) /\ Restarted(c)
    <2>1. /\ z \in RunType /\ z.failedAt = None /\ z.skip = run.skip /\ z.replans = 0
          /\ z.refusals = 0 /\ z.replanFrom = run.replanFrom /\ z.pr = run.pr
          /\ z.fixes = run.fixes /\ z.revisions = run.revisions /\ z.ciFixes = run.ciFixes
      BY <1>1 DEF RunType
    <2> HIDE DEF z
    <2>2. Restarted(z)
      BY <2>1
    <2>3. Restarted(f)
      BY <2>1 DEF RunType
    <2>4. Restarted(v)
      BY <2>1 DEF RunType
    <2>5. Restarted(c)
      BY <2>1 DEF RunType
    <2> QED
      BY <2>2, <2>3, <2>4, <2>5
  <1>6. v.revisions = 0
    BY <1>1 DEF RunType
  <1>7. Resume(run) = CASE at = "fix"    -> Enter(f, "check", TRUE)
                        [] at = "revise" -> Enter(v, "revise", TRUE)
                        [] at = "ci-fix" -> Enter(c, "ci", TRUE)
                        [] OTHER         -> Enter(z, at, TRUE)
    BY DEF Resume
  <1> HIDE DEF z, f, v, c
  <1>8. \A y \in {z, f, v, c} : Counts(y) /\ Below(y)
    BY <1>4, <1>5, CapsAssumption DEF Counts, Below
  <1>9. \E y \in {z, f, v, c} : \E s \in Live :
          /\ Resume(run) = Enter(y, s, TRUE) /\ Fits(y, s, green', gates')
          /\ s = "revise" => y.revisions < MaxRevisions
    <2>1. CASE at = "fix"
      <3>1. Resume(run) = Enter(f, "check", TRUE)
        BY <1>7, <2>1
      <3>2. Fits(f, "check", green', gates')
        BY <1>1, <1>4, <2>1 DEF Fits, GatedSteps
      <3> QED
        BY <1>4, <3>1, <3>2
    <2>2. CASE at = "revise"
      <3>1. Resume(run) = Enter(v, "revise", TRUE)
        BY <1>7, <2>2
      <3>2. Fits(v, "revise", green', gates') /\ v.revisions < MaxRevisions
        BY <1>1, <1>4, <1>6, <2>2, CapsAssumption DEF Fits, GatedSteps
      <3> QED
        BY <1>4, <3>1, <3>2
    <2>3. CASE at = "ci-fix"
      <3>1. Resume(run) = Enter(c, "ci", TRUE)
        BY <1>7, <2>3
      <3>2. Fits(c, "ci", green', gates')
        BY <1>1, <1>4, <1>5, <2>3 DEF Fits, GatedSteps
      <3> QED
        BY <1>4, <3>1, <3>2
    <2>4. CASE at \notin {"fix", "revise", "ci-fix"}
      <3>1. Resume(run) = Enter(z, at, TRUE)
        BY <1>7, <2>4
      <3>2. Fits(z, at, green', gates')
        BY <1>1, <1>4, <1>5 DEF Fits
      <3> QED
        BY <1>4, <2>4, <3>1, <3>2
    <2> QED
      BY <2>1, <2>2, <2>3, <2>4
  <1>10. PICK y \in {z, f, v, c}, s \in Live :
           /\ Resume(run) = Enter(y, s, TRUE) /\ Fits(y, s, green', gates')
           /\ s = "revise" => y.revisions < MaxRevisions
    BY <1>9
  <1> DEFINE e == Enter(y, s, TRUE)
  <1>11. e \in RunType /\ RunInv(e, green', gates')
    BY <1>4, <1>5, <1>8, <1>10, GoesOn
  <1>12. run' = [e EXCEPT !.brief = brief]
    BY <1>2, <1>10
  <1> HIDE DEF e
  <1>13. run' \in RunType /\ Like(run', e) /\ run'.skip = e.skip
    BY <1>3, <1>11, <1>12 DEF RunType, Like
  <1>14. RunInv(run', green', gates')
    BY <1>11, <1>13 DEF RunInv, Like, Fits, Counts, Below
  <1> QED
    BY <1>1, <1>13, <1>14, Whole

-----------------------------------------------------------------------------
(* The invariant.                                                          *)

LEMMA StepKeeps == ASSUME WorkflowInv, [Next]_vars PROVE WorkflowInv'
  <1>1. CASE UNCHANGED vars
    BY <1>1 DEF WorkflowInv, TypeOK, vars
  <1>2. CASE Progress
    BY <1>2, BeginKeeps, PlanningEndsKeeps, VerdictEndsKeeps, WorkEndsKeeps, FixEndsKeeps,
       ReflectEndsKeeps, SetupKeeps, GateFailsKeeps, PlanReviewKeeps, VerifyReviewKeeps,
       ReviseKeeps, ReviseFailsKeeps, ReplanReviewKeeps, FinalReviewKeeps, CheckKeeps, PRKeeps, CIKeeps, PushKeeps,
       MergeKeeps DEF Progress
  <1>3. CASE BeginFails \/ Watch \/ Park \/ Skip \/ PickUp
    BY <1>3, BeginFailsKeeps, WatchKeeps, ParkKeeps, SkipKeeps, PickUpKeeps
  <1>4. CASE Rest
    BY <1>1, <1>4 DEF Rest
  <1> QED
    BY <1>1, <1>2, <1>3, <1>4 DEF Next

LEMMA Invariance == Spec => []WorkflowInv
  <1>1. WorkflowInv /\ [Next]_vars => WorkflowInv'
    BY StepKeeps
  <1> QED
    BY InitKeeps, <1>1, PTL DEF Spec

(* Every reachable state of a run has the types its record declares.       *)
THEOREM TypeCorrect == Spec => []TypeOK
  <1>1. WorkflowInv => TypeOK
    BY DEF WorkflowInv
  <1> QED
    BY Invariance, <1>1, PTL

(* No count of a run ever passes its cap, nor its attempts their limit: the *)
(* comparisons of transition.go, on every way to a step.                   *)
THEOREM CapsAlwaysHold == Spec => []CapsHold
  <1>1. WorkflowInv => CapsHold
    BY DEF WorkflowInv, RunInv, Counts, Below, CapsHold
  <1> QED
    BY Invariance, <1>1, PTL

(* A final review, a PR and a push always have a verify.sh that has passed *)
(* behind them.                                                            *)
THEOREM PublishedAlwaysChecked == Spec => []PublishedIsChecked
  <1>1. WorkflowInv => PublishedIsChecked
    BY LiveSteps DEF WorkflowInv, RunInv, Fits, PublishedIsChecked
  <1> QED
    BY Invariance, <1>1, PTL

(* What carries a plan out always has both of Claude's gates behind it.    *)
THEOREM GatesAlwaysPassed == Spec => []GatesPassed
  <1>1. WorkflowInv => GatesPassed
    BY LiveSteps DEF WorkflowInv, RunInv, Fits, GatedSteps, GatesPassed
  <1> QED
    BY Invariance, <1>1, PTL

(* A run that is over is truly done, or can be resumed.                    *)
THEOREM AlwaysEndsTruly == Spec => []EndsTruly
  <1>1. WorkflowInv => EndsTruly
    BY DEF WorkflowInv, RunInv, EndsTruly
  <1> QED
    BY Invariance, <1>1, PTL

(* Why a run failed stands until it is resumed: a reflection, whatever     *)
(* comes of it, does not touch it.                                         *)
THEOREM ReasonAlwaysStands == Spec => ReasonStands
  <1> DEFINE Stands == run.failedAt # None => run'.failedAt = run.failedAt \/ run.step = "failed"
  <1>1. ASSUME WorkflowInv, [Next]_vars, run.failedAt # None, run.step # "failed"
        PROVE  run'.failedAt = run.failedAt
    <2>1. run \in RunType /\ RunInv(run, green, gates)
      BY <1>1 DEF WorkflowInv, TypeOK
    <2>2. run.step = "reflect"
      BY <1>1, <2>1, LiveSteps
      DEF RunInv, RunType, Steps, SessionSteps, ClaudeSteps, OwnSteps, OverSteps
    <2>3. CASE ReflectEnds
      <3>1. PICK o : ~o.wait /\ Advance(run, o)
        BY <2>3 DEF ReflectEnds, Did, DidNot
      <3>2. PICK q : Like(q, run) /\ q.skip = run.skip /\ run' = Finish(q)
        BY <2>1, <2>2, <3>1, NotWorked
      <3>3. /\ q \in RunType /\ Counts(q) /\ ~q.skip
            /\ q.failedAt # None /\ q.failedAt \in Live /\ Fits(q, q.failedAt, green, gates)
            /\ q.failedAt = run.failedAt
        BY <1>1, <2>1, <2>2, <3>2 DEF RunInv, Like, Counts, Fits, ClaudeSteps
      <3> QED
        BY <3>2, <3>3, EndsSomewhere
    <2>4. CASE Begin
      BY <2>1, <2>4 DEF Begin, RunType
    <2>5. CASE UNCHANGED vars
      BY <2>5 DEF vars
    <2> QED
      BY <1>1, <2>2, <2>3, <2>4, <2>5
      DEF Next, Progress, PlanningEnds, VerdictEnds, WorkEnds, FixEnds, Setup, GateFails, PlanReview,
          VerifyReview, Revise, ReviseFails, BeginFails, ReplanReview, FinalReview, Check, PR, CI, Push, Merge, Watch, Park,
          Skip, PickUp, Rest, Ends, At, Claims, ClaudeSteps
  <1>2. WorkflowInv /\ [Next]_vars => [Stands]_vars
    BY <1>1
  <1>3. [][Next]_vars /\ []WorkflowInv => [][Stands]_vars
    BY <1>2, PTL
  <1> QED
    BY Invariance, <1>3, PTL DEF Spec, ReasonStands

(* A run that goes on, ends or is planned again has the skip it had.       *)
LEMMA SkipKept ==
  ASSUME NEW q \in RunType, NEW at \in Live
  PROVE  /\ Enter(q, at, TRUE).skip = q.skip
         /\ Finish(q).skip = q.skip
         /\ Fail(q, at).skip = q.skip
         /\ Replan(q).skip = q.skip
  <1>1. \A r \in RunType, s \in Steps : Enter(r, s, TRUE).skip = r.skip
    BY Entered
  <1>2. \A r \in RunType : Finish(r).skip = r.skip
    <2>1. {"reflect", "failed", "done"} \subseteq Steps
      BY DEF Steps, SessionSteps, OverSteps
    <2> QED
      BY <1>1, <2>1 DEF Finish
  <1>3. \A r \in RunType, s \in Live : Fail(r, s).skip = r.skip
    <2> TAKE r \in RunType, s \in Live
    <2> DEFINE f == [r EXCEPT !.failedAt = s]
    <2>1. s \in Steps \ OverSteps
      BY DEF Live
    <2>2. f \in RunType /\ f.skip = r.skip
      BY <2>1 DEF RunType
    <2> HIDE DEF f
    <2> QED
      BY <1>2, <2>2 DEF Fail, f
  <1>4. Replan(q).skip = q.skip
    <2> DEFINE n == q.replans + 1
               p == [q EXCEPT !.replans = n]
               r == [q EXCEPT !.replans = n, !.finalReviewed = FALSE, !.fixes = 0, !.revisions = 0]
    <2>1. n \in Nat /\ "plan" \in Live /\ "plan" \in Steps
      BY LiveSteps DEF RunType, Live
    <2>2. Replan(q) = IF n > MaxReplans THEN Fail(p, "plan") ELSE Enter(r, "plan", TRUE)
      BY DEF Replan
    <2> HIDE DEF n
    <2>3. p \in RunType /\ r \in RunType /\ p.skip = q.skip /\ r.skip = q.skip
      BY <2>1 DEF RunType
    <2> HIDE DEF p, r
    <2> QED
      BY <1>1, <1>3, <2>1, <2>2, <2>3
  <1>5. at \in Steps
    BY DEF Live
  <1> QED
    BY <1>1, <1>2, <1>3, <1>4, <1>5

(* A gate that worked has spent its skip.                                  *)
LEMMA SkipSpent ==
  ASSUME WorkflowInv, NEW o, run.step \in ClaudeSteps, o.ok, ~o.wait, Advance(run, o)
  PROVE  ~run'.skip
  <1>1. run \in RunType /\ RunInv(run, green, gates)
    BY DEF WorkflowInv, TypeOK
  <1>2. run.step \in Live /\ run.step \notin Claims
    BY LiveSteps DEF ClaudeSteps, Claims
  <1>3. PICK q : Like(q, run) /\ ~q.skip /\ run' = Onward(q, o)
    BY <1>1, <1>2, Worked
  <1>4. /\ q \in RunType /\ q.step = run.step /\ Fits(q, run.step, green, gates)
    BY <1>1, <1>2, <1>3, FromHere
  <1>5. CASE run.step \in {"plan-review", "verify-review"}
    <2>1. run' = Enter(q, "verify", TRUE) \/ run' = Enter(q, "tasks", TRUE)
      BY <1>3, <1>4, <1>5 DEF Onward, Straight
    <2>2. "verify" \in Live /\ "tasks" \in Live
      BY LiveSteps
    <2>3. Enter(q, "verify", TRUE).skip = q.skip /\ Enter(q, "tasks", TRUE).skip = q.skip
      BY <1>4, <2>2, SkipKept
    <2> QED
      BY <1>3, <2>1, <2>3
  <1>6. CASE run.step = "revise"
    <2> DEFINE p == [q EXCEPT !.revisions = @ + 1]
    <2>1. run' = Enter(p, "check", TRUE)
      BY <1>3, <1>4, <1>6 DEF Onward, Straight
    <2>2. p \in RunType /\ p.skip = q.skip
      BY <1>4 DEF RunType
    <2> HIDE DEF p
    <2>3. "check" \in Live
      BY LiveSteps
    <2>4. Enter(p, "check", TRUE).skip = p.skip
      BY <2>2, <2>3, SkipKept
    <2> QED
      BY <1>3, <2>1, <2>2, <2>4
  <1>7. CASE run.step = "final-review"
    <2> DEFINE p == [q EXCEPT !.finalReviewed = TRUE]
    <2>1. run' = Enter(p, IF o.blockers THEN "work" ELSE "pr", TRUE)
      BY <1>3, <1>4, <1>7 DEF Onward, Straight, AfterFinalReview
    <2>2. p \in RunType /\ p.skip = q.skip
      BY <1>4 DEF RunType
    <2> HIDE DEF p
    <2>3. run' = Enter(p, "work", TRUE) \/ run' = Enter(p, "pr", TRUE)
      BY <2>1
    <2>4. "work" \in Live /\ "pr" \in Live
      BY LiveSteps
    <2>5. Enter(p, "work", TRUE).skip = p.skip /\ Enter(p, "pr", TRUE).skip = p.skip
      BY <2>2, <2>4, SkipKept
    <2> QED
      BY <1>3, <2>2, <2>3, <2>5
  <1>8. CASE run.step = "replan-review"
    <2> DEFINE p == [q EXCEPT !.refusals = @ + 1]
               s == q.replanFrom
    <2>1. \/ run' = Replan(q) \/ run' = Fail(p, s) \/ run' = Enter(p, s, TRUE)
      BY <1>3, <1>4, <1>8 DEF Onward, Straight, AfterReplanReview
    <2>2. p \in RunType /\ p.skip = q.skip
      BY <1>4 DEF RunType
    <2>3. s \in Live
      BY <1>4, <1>8, LiveSteps DEF Fits, RunType, Claims
    <2> HIDE DEF p, s
    <2> QED
      BY <1>3, <1>4, <2>1, <2>2, <2>3, SkipKept
  <1> QED
    BY <1>5, <1>6, <1>7, <1>8 DEF ClaudeSteps

(* The owner's skip of one gate never passes another.                      *)
THEOREM SkipAlwaysStays == Spec => SkipStays
  <1> DEFINE Stays == run.skip /\ run'.skip => run'.step = run.step
  <1>1. ASSUME WorkflowInv, [Next]_vars, run.skip, run'.skip
        PROVE  run'.step = run.step
    <2>1. run \in RunType /\ run.step \in ClaudeSteps
      BY <1>1 DEF WorkflowInv, TypeOK, RunInv
    <2>2. ~(\E o : o.ok /\ ~o.wait /\ Advance(run, o))
      BY <1>1, <2>1, SkipSpent
    <2>3. Did.ok /\ ~Did.wait
      BY DEF Did
    <2>4. ~PlanReview /\ ~VerifyReview /\ ~Revise
      BY <2>2, <2>3 DEF PlanReview, VerifyReview, Revise
    <2>5. ~ReplanReview
      <3>1. \A a \in BOOLEAN : [Did EXCEPT !.replan = a].ok /\ ~[Did EXCEPT !.replan = a].wait
        BY DEF Did
      <3> QED
        BY <2>2, <3>1 DEF ReplanReview
    <2>6. ~FinalReview
      <3>1. [Did EXCEPT !.blockers = TRUE].ok /\ ~[Did EXCEPT !.blockers = TRUE].wait
        BY DEF Did
      <3> QED
        BY <2>2, <2>3, <3>1 DEF FinalReview
    <2>7. CASE Begin \/ Skip \/ ReviseFails
      BY <2>1, <2>7 DEF Begin, Skip, ReviseFails, RunType
    <2>8. CASE UNCHANGED vars
      BY <2>8 DEF vars
    <2> QED
      BY <1>1, <2>1, <2>4, <2>5, <2>6, <2>7, <2>8
      DEF Next, Progress, PlanningEnds, VerdictEnds, WorkEnds, FixEnds, ReflectEnds, Setup, GateFails,
          Check, PR, CI, Push, Merge, BeginFails, NoTask, Watch, Park, PickUp, Rest, Ends, At, Claims,
          ClaudeSteps
  <1>2. WorkflowInv /\ [Next]_vars => [Stays]_vars
    BY <1>1
  <1>3. [][Next]_vars /\ []WorkflowInv => [][Stays]_vars
    BY <1>2, PTL
  <1> QED
    BY Invariance, <1>3, PTL DEF Spec, SkipStays
=============================================================================
