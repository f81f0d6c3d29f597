---------------------------- MODULE Goals_proofs ----------------------------
(***************************************************************************)
(* Proofs about Goals, for every value of the caps and any run of crashes. *)
(*                                                                         *)
(* The goal, its briefs and its runs each have an invariant of their own.  *)
(* The runs that go are told apart by why they go: the next brief's, those *)
(* whose name a crash lost, and those the owner asked for again.           *)
(***************************************************************************)
EXTENDS Goals, FiniteSetTheorems, SequenceTheorems, WellFoundedInduction, TLAPS

(* The goal by itself.                                                     *)
Early == {"setup", "breakdown"}
BeforeRounds(g) == g.step \in Early \/ g.blockedAt \in Early

GoalFits(g) ==
  /\ g.step = "blocked" <=> g.blockedAt # NoStep
  /\ g.blockedAt # "runs" => g.failures < MaxFailures
  /\ BeforeRounds(g) => g.round = 0 /\ g.briefs = <<>> /\ g.verdict = NoStep
  /\ g.round # 0 => g.round + 1 <= g.from + GoalRounds
  /\ g.verdict = "skipped" => g.verdictOf = g.round
  /\ g.skip => g.step = "check" \/ g.blockedAt = "check"

(* Its briefs: one at most is running, the next of the round there is.     *)
BriefsFit(g) ==
  /\ \A i \in DOMAIN g.briefs :
       /\ g.briefs[i].round <= g.round
       /\ g.briefs[i].state = "running" => g.step = "runs" /\ i = Current(g)
  /\ g.step # "runs" => Open(g) = {}
  /\ \A i, j \in DOMAIN g.briefs :
       i # j /\ g.briefs[i].run # 0 => g.briefs[i].run # g.briefs[j].run

(* A brief names a run that was saved; a run is started for the next brief.*)
RunsFit ==
  /\ \A i \in DOMAIN goal.briefs : goal.briefs[i].run # 0 => goal.briefs[i].run \in DOMAIN runs
  /\ starting # Idle =>
       goal.step = "runs" /\ Current(goal) # 0 /\ goal.briefs[Current(goal)].run = 0
       /\ seen.failed < MaxFailures
  /\ starting = "homed" => Len(runs) < MaxHomes
  /\ starting = "runSaved" => Len(runs) # 0 /\ \A i \in DOMAIN goal.briefs : goal.briefs[i].run # Len(runs)

SeenFits ==
  /\ seen.failed <= goal.failures
  /\ "skip" \in labels /\ goal.step = "check" => seen.skipFor = goal.round
  /\ goal.skip \/ goal.verdict = "skipped" => seen.skipFor = goal.round

(* Runs that go: the next brief's, those a crash lost the name of, and     *)
(* those the owner asked for again.                                        *)
NamedBy(b, r) == \E i \in DOMAIN b : b[i].run = r
Lost == {r \in DOMAIN runs : ~NamedBy(goal.briefs, r) /\ ~(starting = "runSaved" /\ r = Len(runs))}
Revived == {r \in Goings : \E i \in DOMAIN goal.briefs : goal.briefs[i].run = r /\ goal.briefs[i].state # "running"}
GoingsFit == Cardinality(Lost) <= seen.crashes /\ Cardinality(Revived) <= seen.retried

-----------------------------------------------------------------------------
(* Types. *)

Brief == [round : Nat, state : BriefStates, run : 0..MaxHomes]
GoalType ==
  [step : GoalSteps \cup GoalOver, blockedAt : GoalSteps \cup {NoStep}, round : Nat, from : Nat,
   failures : 0..MaxFailures, attempt : Nat, parked : BOOLEAN, skip : BOOLEAN, ciFailure : BOOLEAN,
   briefs : Seq(Brief), verdict : {NoStep, "met", "unmet", "skipped"}, verdictOf : Nat]
SeenType == [crashes : Nat, resumes : Nat, ciFails : Nat, retried : Nat, failed : Nat, skipFor : Nat]

Types ==
  /\ goal \in GoalType /\ runs \in Seq(RunStates) /\ starting \in {Idle, "homed", "runSaved"}
  /\ labels \subseteq {"requested", "skip"}
  /\ seen \in SeenType
  /\ Len(runs) <= MaxHomes

GoalsInv == Types /\ GoalFits(goal) /\ BriefsFit(goal) /\ RunsFit /\ SeenFits /\ GoingsFit

(* q is g but for where it is and its tries.                               *)
Like(q, g) ==
  /\ q \in GoalType
  /\ q.round = g.round /\ q.briefs = g.briefs /\ q.verdict = g.verdict /\ q.verdictOf = g.verdictOf

LEMMA Caps ==
  /\ GoalRounds \in Nat \ {0} /\ MaxFailures \in Nat \ {0} /\ MaxHomes \in Nat \ {0}
  /\ MaxBriefs \in Nat \ {0}
BY GoalCapsAssumption

-----------------------------------------------------------------------------
(* The operators of the workflow. *)

LEMMA GoalIs ==
  ASSUME NEW g \in GoalType
  PROVE  /\ g.step \in GoalSteps \cup GoalOver /\ g.blockedAt \in GoalSteps \cup {NoStep}
         /\ g.round \in Nat /\ g.from \in Nat /\ g.failures \in 0..MaxFailures
         /\ g.attempt \in Nat /\ g.skip \in BOOLEAN /\ g.briefs \in Seq(Brief)
         /\ g.verdict \in {NoStep, "met", "unmet", "skipped"} /\ g.verdictOf \in Nat
BY DEF GoalType

LEMMA StepTo ==
  ASSUME NEW g \in GoalType, NEW s \in GoalSteps \cup GoalOver, NEW q, q = [g EXCEPT !.step = s]
  PROVE  /\ Like(q, g) /\ q.step = s /\ q.blockedAt = g.blockedAt /\ q.from = g.from
         /\ q.failures = g.failures /\ q.skip = g.skip
BY DEF GoalType, Like

LEMMA WorkedIs ==
  ASSUME NEW g \in GoalType, NEW q, q = Worked(g)
  PROVE  /\ Like(q, g) /\ q.step = g.step /\ q.blockedAt = g.blockedAt /\ q.from = g.from
         /\ q.failures = g.failures /\ q.skip = FALSE
BY DEF GoalType, Like, Worked

LEMMA BlockIs ==
  ASSUME NEW g \in GoalType, NEW at \in GoalSteps, NEW q, q = Block(g, at)
  PROVE  /\ Like(q, g) /\ q.step = "blocked" /\ q.blockedAt = at /\ q.from = g.from
         /\ q.failures = g.failures /\ q.skip = g.skip
BY DEF GoalType, Like, Block, GoalOver

LEMMA FailedIs ==
  ASSUME NEW g \in GoalType, g.step \in GoalSteps, NEW q, q = GoalFailed(g)
  PROVE  /\ Like(q, g) /\ q.from = g.from /\ q.failures = g.failures /\ q.skip = g.skip
         /\ \/ q.step = g.step /\ q.blockedAt = g.blockedAt
            \/ q.step = "blocked" /\ q.blockedAt = g.step
<1> DEFINE n == g.attempt + 1
           r == [g EXCEPT !.parked = FALSE, !.attempt = n]
<1>n. n \in Nat BY GoalIs
<1>2. q = r \/ q = Block(r, g.step) BY DEF GoalFailed
<1> HIDE DEF n
<1>1. /\ Like(r, g) /\ r.from = g.from /\ r.failures = g.failures /\ r.skip = g.skip
      /\ r.step = g.step /\ r.blockedAt = g.blockedAt
  BY <1>n DEF GoalType, Like
<1> HIDE DEF r
<1>3. CASE q = r BY <1>1, <1>3
<1>4. CASE q = Block(r, g.step) BY <1>1, <1>4, BlockIs DEF Like
<1>q. QED BY <1>2, <1>3, <1>4

ResumedTo(g, s) == [g EXCEPT !.blockedAt = NoStep, !.attempt = 0, !.step = s]
ResumedFresh(g, s, n) ==
  [g EXCEPT !.blockedAt = NoStep, !.attempt = 0, !.failures = 0, !.from = n, !.step = s]

LEMMA ResumeTo ==
  ASSUME NEW g \in GoalType, NEW s \in GoalSteps \cup GoalOver, NEW q, q = ResumedTo(g, s)
  PROVE  /\ Like(q, g) /\ q.blockedAt = NoStep /\ q.skip = g.skip /\ q.step = s
         /\ q.from = g.from /\ q.failures = g.failures
BY DEF GoalType, Like, ResumedTo

LEMMA ResumeFresh ==
  ASSUME NEW g \in GoalType, NEW s \in GoalSteps \cup GoalOver, NEW n \in Nat, NEW q,
         q = ResumedFresh(g, s, n)
  PROVE  /\ Like(q, g) /\ q.blockedAt = NoStep /\ q.skip = g.skip /\ q.step = s
         /\ q.from = n /\ q.failures = 0
<1>1. 0 \in 0..MaxFailures BY Caps
<1>q. QED BY <1>1 DEF GoalType, Like, ResumedFresh

LEMMA ResumeIs ==
  ASSUME NEW g \in GoalType, g.blockedAt \in GoalSteps, NEW q, q = ResumeGoal(g)
  PROVE  /\ Like(q, g) /\ q.blockedAt = NoStep /\ q.skip = g.skip
         /\ \/ /\ g.blockedAt \in {"runs", "check"}
               /\ q.step = "check" /\ q.from = g.round + 1 /\ q.failures = 0
            \/ /\ g.blockedAt \notin {"runs", "check"}
               /\ q.step = IF g.blockedAt = "ci" THEN "pr" ELSE g.blockedAt
               /\ q.from = g.from /\ q.failures = g.failures
<1>s. "pr" \in GoalSteps \cup GoalOver /\ "check" \in GoalSteps \cup GoalOver BY DEF GoalSteps
<1>1. CASE g.blockedAt \in {"runs", "check"}
  <2>n. g.round + 1 \in Nat BY GoalIs
  <2>1. q = ResumedFresh(g, "check", g.round + 1) BY <1>1 DEF ResumeGoal, ResumedFresh
  <2>2. /\ Like(q, g) /\ q.blockedAt = NoStep /\ q.skip = g.skip /\ q.step = "check"
        /\ q.from = g.round + 1 /\ q.failures = 0
    BY <1>s, <2>1, <2>n, ResumeFresh
  <2>q. QED BY <1>1, <2>2
<1>2. CASE g.blockedAt = "ci"
  <2>1. q = ResumedTo(g, "pr") BY <1>2 DEF ResumeGoal, ResumedTo
  <2>2. /\ Like(q, g) /\ q.blockedAt = NoStep /\ q.skip = g.skip /\ q.step = "pr"
        /\ q.from = g.from /\ q.failures = g.failures
    BY <1>s, <2>1, ResumeTo
  <2>q. QED BY <1>2, <2>2
<1>3. CASE g.blockedAt \notin {"runs", "check", "ci"}
  <2>1. q = ResumedTo(g, g.blockedAt) BY <1>3 DEF ResumeGoal, ResumedTo
  <2>2. /\ Like(q, g) /\ q.blockedAt = NoStep /\ q.skip = g.skip /\ q.step = g.blockedAt
        /\ q.from = g.from /\ q.failures = g.failures
    <3>1. g.blockedAt \in GoalSteps \cup GoalOver OBVIOUS
    <3>q. QED BY <2>1, <3>1, ResumeTo
  <2>q. QED BY <1>3, <2>2
<1>q. QED BY <1>1, <1>2, <1>3

-----------------------------------------------------------------------------
(* The next brief is one of those there are. *)

LEMMA LeastIs ==
  ASSUME NEW T \in SUBSET Nat, T # {}
  PROVE  \E x \in T : \A y \in T : x <= y
<1>1. PICK x \in T : \A y \in T : ~(<<y, x>> \in OpToRel(<, Nat))
  BY WFMin, NatLessThanWellFounded, Zenon
<1>2. ASSUME NEW y \in T, y < x PROVE FALSE
  <2>1. <<y, x>> \in OpToRel(<, Nat) BY <1>2, Zenon DEF OpToRel
  <2>q. QED BY <1>1, <2>1, Zenon
<1>3. x \in Nat /\ \A y \in T : y \in Nat /\ ~(y < x) BY <1>2, Zenon
<1> HIDE <1>1
<1>q. QED BY <1>3

LEMMA BriefsAre ==
  ASSUME NEW b \in Seq(Brief)
  PROVE  /\ Len(b) \in Nat /\ DOMAIN b = 1 .. Len(b)
         /\ \A i \in DOMAIN b : b[i].round \in Nat /\ b[i].state \in BriefStates /\ b[i].run \in 0..MaxHomes
<1>1. Len(b) \in Nat /\ DOMAIN b = 1 .. Len(b) BY LenProperties
<1>2. ASSUME NEW i \in DOMAIN b PROVE b[i] \in Brief BY <1>1, ElementOfSeq
<1>q. QED BY <1>1, <1>2 DEF Brief

LEMMA CurrentIs ==
  ASSUME NEW g \in GoalType
  PROVE  /\ Current(g) = 0 <=> Open(g) = {}
         /\ Open(g) # {} => Current(g) \in Open(g)
<1>1. DOMAIN g.briefs = 1 .. Len(g.briefs) /\ Len(g.briefs) \in Nat BY GoalIs, BriefsAre
<1>2. Open(g) \in SUBSET Nat /\ 0 \notin Open(g) BY <1>1 DEF Open
<1>3. ASSUME Open(g) # {} PROVE Current(g) \in Open(g)
  <2>1. \E x \in Open(g) : \A y \in Open(g) : x <= y BY <1>2, <1>3, LeastIs
  <2>q. QED BY <1>3, <2>1 DEF Current
<1>q. QED BY <1>2, <1>3 DEF Current

-----------------------------------------------------------------------------
(* What becomes of the briefs: they stay, a round is added, or the next    *)
(* one is settled and with it, if it failed, those that wait.              *)

Grown(q, g) ==
  /\ q \in GoalType
  /\ DOMAIN g.briefs \subseteq DOMAIN q.briefs
  /\ \A i \in DOMAIN g.briefs : q.briefs[i] = g.briefs[i]
  /\ \A i \in DOMAIN q.briefs \ DOMAIN g.briefs :
       q.briefs[i].round = q.round /\ q.briefs[i].state = "pending" /\ q.briefs[i].run = 0

Settled(q, g) ==
  /\ q \in GoalType /\ q.round = g.round
  /\ DOMAIN q.briefs = DOMAIN g.briefs
  /\ \A i \in DOMAIN g.briefs : q.briefs[i].run = g.briefs[i].run /\ q.briefs[i].round = g.briefs[i].round
  /\ q.briefs[Current(g)].state \in {"done", "failed"}
  /\ \A i \in DOMAIN g.briefs \ {Current(g)} :
       \/ q.briefs[i].state = g.briefs[i].state
       \/ g.briefs[i].state = "pending" /\ q.briefs[i].state = "dropped"

LEMMA KeptBriefs ==
  ASSUME NEW g \in GoalType, NEW q, q.briefs = g.briefs, q.round = g.round, BriefsFit(g),
         q.step # "runs", g.step # "runs" \/ Current(g) = 0
  PROVE  BriefsFit(q)
<1>1. q.briefs = g.briefs /\ q.round = g.round OBVIOUS
<1>2. Open(q) = Open(g) BY <1>1 DEF Open
<1>3. Open(g) = {} BY CurrentIs DEF BriefsFit
<1>4. ASSUME NEW i \in DOMAIN g.briefs PROVE g.briefs[i].state # "running" /\ g.briefs[i].round <= g.round
  <2>1. i # 0 BY GoalIs, BriefsAre
  <2>q. QED BY <2>1 DEF BriefsFit
<1>q. QED BY <1>1, <1>2, <1>3, <1>4 DEF BriefsFit

LEMMA GrownBriefs ==
  ASSUME NEW g \in GoalType, NEW q, Grown(q, g), BriefsFit(g), g.step # "runs", q.step = "runs",
         q.round > g.round
  PROVE  BriefsFit(q)
<1>1. g.round \in Nat /\ q.round \in Nat /\ q.briefs \in Seq(Brief) BY GoalIs DEF Grown
<1>2. ASSUME NEW i \in DOMAIN q.briefs PROVE q.briefs[i].round <= q.round /\ q.briefs[i].state # "running"
  <2>1. CASE i \in DOMAIN g.briefs
    <3>1. q.briefs[i] = g.briefs[i] /\ g.briefs[i].round <= g.round /\ g.briefs[i].state # "running"
      BY <2>1 DEF Grown, BriefsFit
    <3>2. g.briefs[i].round \in Nat BY <2>1, GoalIs, BriefsAre
    <3>q. QED BY <1>1, <3>1, <3>2
  <2>2. CASE i \notin DOMAIN g.briefs BY <1>1, <2>2 DEF Grown
  <2>q. QED BY <2>1, <2>2
<1>3. ASSUME NEW i \in DOMAIN q.briefs, NEW j \in DOMAIN q.briefs, i # j, q.briefs[i].run # 0
      PROVE  q.briefs[i].run # q.briefs[j].run
  <2>1. i \in DOMAIN g.briefs /\ q.briefs[i] = g.briefs[i] BY <1>3 DEF Grown
  <2>2. CASE j \in DOMAIN g.briefs BY <1>3, <2>1, <2>2 DEF Grown, BriefsFit
  <2>3. CASE j \notin DOMAIN g.briefs BY <1>3, <2>3 DEF Grown
  <2>q. QED BY <2>2, <2>3
<1>q. QED BY <1>2, <1>3 DEF BriefsFit

LEMMA SettledBriefs ==
  ASSUME NEW g \in GoalType, NEW q, Settled(q, g), BriefsFit(g), Current(g) # 0,
         q.step = "runs" \/ Open(q) = {}
  PROVE  BriefsFit(q)
<1>1. Current(g) \in DOMAIN g.briefs BY CurrentIs DEF Open
<1>2. ASSUME NEW i \in DOMAIN q.briefs PROVE q.briefs[i].round <= q.round /\ q.briefs[i].state # "running"
  <2>1. i \in DOMAIN g.briefs BY DEF Settled
  <2>2. q.briefs[i].round <= q.round BY <2>1 DEF Settled, BriefsFit
  <2>3. CASE i = Current(g) BY <2>2, <2>3 DEF Settled
  <2>4. CASE i # Current(g) BY <2>1, <2>2, <2>4 DEF Settled, BriefsFit
  <2>q. QED BY <2>3, <2>4
<1>3. \A i, j \in DOMAIN q.briefs : i # j /\ q.briefs[i].run # 0 => q.briefs[i].run # q.briefs[j].run
  BY DEF Settled, BriefsFit
<1>q. QED BY <1>2, <1>3 DEF BriefsFit

LEMMA AddRoundIs ==
  ASSUME NEW g \in GoalType, NEW n \in Nat, NEW q, q = AddRound(g, n)
  PROVE  /\ Grown(q, g) /\ q.step = g.step /\ q.blockedAt = g.blockedAt /\ q.round = g.round
         /\ q.from = g.from /\ q.failures = g.failures /\ q.skip = g.skip
         /\ q.verdict = g.verdict /\ q.verdictOf = g.verdictOf
<1> DEFINE x == [round |-> g.round, state |-> "pending", run |-> 0]
           new == [i \in 1..n |-> x]
           b == g.briefs \o new
<1>1. x \in Brief /\ x.round = g.round /\ x.state = "pending" /\ x.run = 0
  BY GoalIs, Caps DEF Brief, BriefStates
<1>2. q = [g EXCEPT !.briefs = b] BY DEF AddRound
<1> HIDE DEF x
<1>3. new \in Seq(Brief) /\ Len(new) = n /\ \A i \in 1..n : new[i] = x BY <1>1
<1> HIDE DEF new
<1>g. g.briefs \in Seq(Brief) /\ Len(g.briefs) \in Nat /\ DOMAIN g.briefs = 1 .. Len(g.briefs)
  BY GoalIs, BriefsAre
<1>4. /\ b \in Seq(Brief) /\ Len(b) = Len(g.briefs) + n
      /\ \A i \in 1 .. Len(g.briefs) + n : b[i] = IF i <= Len(g.briefs) THEN g.briefs[i] ELSE new[i - Len(g.briefs)]
  BY <1>3, <1>g, ConcatProperties
<1>5. DOMAIN b = 1 .. Len(g.briefs) + n BY <1>4, BriefsAre
<1> HIDE DEF b
<1>6. /\ q \in GoalType /\ q.briefs = b /\ q.step = g.step /\ q.blockedAt = g.blockedAt /\ q.round = g.round
      /\ q.from = g.from /\ q.failures = g.failures /\ q.skip = g.skip
      /\ q.verdict = g.verdict /\ q.verdictOf = g.verdictOf
  BY <1>2, <1>4 DEF GoalType
<1>7. ASSUME NEW i \in DOMAIN g.briefs PROVE i \in DOMAIN b /\ b[i] = g.briefs[i]
  BY <1>g, <1>4, <1>5
<1>8. ASSUME NEW i \in DOMAIN b \ DOMAIN g.briefs PROVE b[i] = x
  <2>1. i \in 1 .. Len(g.briefs) + n /\ i > Len(g.briefs) BY <1>g, <1>5
  <2>2. i - Len(g.briefs) \in 1..n BY <1>g, <2>1
  <2>q. QED BY <1>3, <1>4, <1>g, <2>1, <2>2
<1>q. QED BY <1>1, <1>6, <1>7, <1>8 DEF Grown

LEMMA BreakdownIs ==
  ASSUME NEW g \in GoalType, NEW n \in Nat, NEW q, q = AfterBreakdown(g, n)
  PROVE  /\ Grown(q, g) /\ q.step = "runs" /\ q.blockedAt = g.blockedAt /\ q.round = 1 /\ q.from = 1
         /\ q.failures = g.failures /\ q.skip = FALSE
         /\ q.verdict = g.verdict /\ q.verdictOf = g.verdictOf
<1> DEFINE w == Worked(g)
           h == [w EXCEPT !.round = 1, !.from = 1]
           a == AddRound(h, n)
<1>1. q = [a EXCEPT !.step = "runs"] BY DEF AfterBreakdown
<1>2. /\ Like(w, g) /\ w.blockedAt = g.blockedAt /\ w.failures = g.failures /\ w.skip = FALSE
  BY WorkedIs
<1> HIDE DEF w
<1>3. /\ h \in GoalType /\ h.briefs = w.briefs /\ h.round = 1 /\ h.from = 1 /\ h.blockedAt = w.blockedAt
      /\ h.failures = w.failures /\ h.skip = w.skip /\ h.verdict = w.verdict /\ h.verdictOf = w.verdictOf
  BY <1>2 DEF Like, GoalType
<1> HIDE DEF h
<1>4. /\ Grown(a, h) /\ a.blockedAt = h.blockedAt /\ a.round = h.round /\ a.from = h.from
      /\ a.failures = h.failures /\ a.skip = h.skip /\ a.verdict = h.verdict /\ a.verdictOf = h.verdictOf
  BY <1>3, AddRoundIs
<1> HIDE DEF a
<1>5. "runs" \in GoalSteps \cup GoalOver BY DEF GoalSteps
<1>6. /\ Like(q, a) /\ q.step = "runs" /\ q.blockedAt = a.blockedAt /\ q.from = a.from
      /\ q.failures = a.failures /\ q.skip = a.skip
  BY <1>1, <1>4, <1>5, StepTo DEF Grown
<1>q. QED BY <1>2, <1>3, <1>4, <1>6 DEF Grown, Like

Given == {"met", "unmet", "skipped"}
Judged(g, v) == [Worked(g) EXCEPT !.ciFailure = FALSE, !.verdictOf = g.round, !.verdict = v]
NextRound(g, n) == [AddRound([g EXCEPT !.round = @ + 1], n) EXCEPT !.step = "runs"]

IsJudged(q, g, v) ==
  /\ q \in GoalType /\ q.step = g.step /\ q.blockedAt = g.blockedAt /\ q.round = g.round
  /\ q.from = g.from /\ q.failures = g.failures /\ q.skip = FALSE /\ q.briefs = g.briefs
  /\ q.verdict = v /\ q.verdictOf = g.round

LEMMA JudgedIs ==
  ASSUME NEW g \in GoalType, NEW v \in Given, NEW q, q = Judged(g, v)
  PROVE  IsJudged(q, g, v)
<1> DEFINE w == Worked(g)
<1>1. /\ Like(w, g) /\ w.step = g.step /\ w.blockedAt = g.blockedAt /\ w.from = g.from
      /\ w.failures = g.failures /\ w.skip = FALSE
  BY WorkedIs
<1>2. q = [w EXCEPT !.ciFailure = FALSE, !.verdictOf = g.round, !.verdict = v] BY DEF Judged
<1>3. g.round \in Nat BY GoalIs
<1> HIDE DEF w
<1>q. QED BY <1>1, <1>2, <1>3 DEF Like, GoalType, Given, IsJudged

LEMMA NextRoundIs ==
  ASSUME NEW g \in GoalType, NEW n \in Nat, NEW q, q = NextRound(g, n)
  PROVE  /\ Grown(q, g) /\ q.step = "runs" /\ q.blockedAt = g.blockedAt /\ q.round = g.round + 1
         /\ q.from = g.from /\ q.failures = g.failures /\ q.skip = g.skip
         /\ q.verdict = g.verdict /\ q.verdictOf = g.verdictOf
<1> DEFINE m == g.round + 1
           h == [g EXCEPT !.round = m]
           a == AddRound(h, n)
<1>m. m \in Nat BY GoalIs
<1>1. q = [a EXCEPT !.step = "runs"] BY DEF NextRound
<1> HIDE DEF m
<1>3. /\ h \in GoalType /\ h.briefs = g.briefs /\ h.round = m /\ h.from = g.from /\ h.blockedAt = g.blockedAt
      /\ h.failures = g.failures /\ h.skip = g.skip /\ h.verdict = g.verdict /\ h.verdictOf = g.verdictOf
  BY <1>m DEF GoalType
<1> HIDE DEF h
<1>4. /\ Grown(a, h) /\ a.blockedAt = h.blockedAt /\ a.round = h.round /\ a.from = h.from
      /\ a.failures = h.failures /\ a.skip = h.skip /\ a.verdict = h.verdict /\ a.verdictOf = h.verdictOf
  BY <1>3, AddRoundIs
<1> HIDE DEF a
<1>5. "runs" \in GoalSteps \cup GoalOver BY DEF GoalSteps
<1>6. /\ Like(q, a) /\ q.step = "runs" /\ q.blockedAt = a.blockedAt /\ q.from = a.from
      /\ q.failures = a.failures /\ q.skip = a.skip
  BY <1>1, <1>4, <1>5, StepTo DEF Grown
<1>7. q.round = g.round + 1 BY <1>3, <1>4, <1>6 DEF Like, m
<1>q. QED BY <1>3, <1>4, <1>6, <1>7 DEF Grown, Like

CheckedTo(q, g, skipped) ==
  /\ q \in GoalType /\ q.skip = FALSE /\ q.from = g.from /\ q.failures = g.failures
  /\ q.verdictOf = g.round /\ (q.verdict = "skipped" <=> skipped)
  /\ \/ q.step = "pr" /\ q.blockedAt = g.blockedAt /\ q.round = g.round /\ q.briefs = g.briefs
     \/ q.step = "blocked" /\ q.blockedAt = "check" /\ q.round = g.round /\ q.briefs = g.briefs
     \/ /\ q.step = "runs" /\ q.blockedAt = g.blockedAt /\ q.round = g.round + 1 /\ Grown(q, g)
        /\ g.round - g.from + 1 < GoalRounds /\ ~skipped

LEMMA CheckIs ==
  ASSUME NEW g \in GoalType, NEW met \in BOOLEAN, NEW skipped \in BOOLEAN, skipped => met,
         NEW n \in Nat, NEW q, q = AfterGoalCheck(g, met, skipped, n)
  PROVE  CheckedTo(q, g, skipped)
<1> DEFINE v == IF skipped THEN "skipped" ELSE IF met THEN "met" ELSE "unmet"
           j == Judged(g, v)
<1>k. v \in Given BY DEF Given
<1>v. v = "skipped" <=> skipped OBVIOUS
<1>1. \/ met /\ q = [j EXCEPT !.step = "pr"]
      \/ ~met /\ j.round - j.from + 1 >= GoalRounds /\ q = Block(j, "check")
      \/ ~met /\ ~(j.round - j.from + 1 >= GoalRounds) /\ q = NextRound(j, n)
  BY DEF AfterGoalCheck, Judged, NextRound
<1>j. j = Judged(g, v) OBVIOUS
<1> HIDE DEF v, j
<1>2. /\ j \in GoalType /\ j.step = g.step /\ j.blockedAt = g.blockedAt /\ j.round = g.round
      /\ j.from = g.from /\ j.failures = g.failures /\ j.skip = FALSE /\ j.briefs = g.briefs
      /\ j.verdict = v /\ j.verdictOf = g.round
  <2>1. IsJudged(j, g, v) BY <1>k, <1>j, JudgedIs
  <2>q. QED BY <2>1 DEF IsJudged
<1>s. "pr" \in GoalSteps \cup GoalOver /\ "check" \in GoalSteps BY DEF GoalSteps
<1>3. CASE q = [j EXCEPT !.step = "pr"]
  <2>1. /\ Like(q, j) /\ q.step = "pr" /\ q.blockedAt = j.blockedAt /\ q.from = j.from
        /\ q.failures = j.failures /\ q.skip = j.skip
    BY <1>s, <1>2, <1>3, StepTo
  <2>q. QED BY <1>v, <1>2, <2>1 DEF Like, CheckedTo
<1>4. CASE q = Block(j, "check")
  <2>1. /\ Like(q, j) /\ q.step = "blocked" /\ q.blockedAt = "check" /\ q.from = j.from
        /\ q.failures = j.failures /\ q.skip = j.skip
    BY <1>s, <1>2, <1>4, BlockIs
  <2>q. QED BY <1>v, <1>2, <2>1 DEF Like, CheckedTo
<1>5. CASE ~met /\ ~(j.round - j.from + 1 >= GoalRounds) /\ q = NextRound(j, n)
  <2>1. /\ Grown(q, j) /\ q.step = "runs" /\ q.blockedAt = j.blockedAt /\ q.round = j.round + 1
        /\ q.from = j.from /\ q.failures = j.failures /\ q.skip = j.skip
        /\ q.verdict = j.verdict /\ q.verdictOf = j.verdictOf
    BY <1>2, <1>5, NextRoundIs
  <2>2. Grown(q, g) BY <1>2, <2>1 DEF Grown
  <2>3. g.round - g.from + 1 < GoalRounds BY <1>2, <1>5, GoalIs, Caps
  <2>4. ~skipped BY <1>5
  <2>q. QED BY <1>v, <1>2, <2>1, <2>2, <2>3, <2>4 DEF Grown, CheckedTo
<1>q. QED BY <1>1, <1>3, <1>4, <1>5

PolledTo(q, g) ==
  /\ Like(q, g) /\ q.from = g.from /\ q.failures = g.failures /\ q.skip = FALSE
  /\ \/ q.step \in {"done", "check"} /\ q.blockedAt = g.blockedAt
     \/ q.step = "blocked" /\ q.blockedAt = "ci"

LEMMA CIIs ==
  ASSUME NEW g \in GoalType, NEW result \in {"pass", "merged", "closed", "fail"}, NEW q,
         q = AfterGoalCI(g, result)
  PROVE  PolledTo(q, g)
<1> DEFINE w == Worked(g)
           f == [w EXCEPT !.ciFailure = TRUE]
<1>1. /\ Like(w, g) /\ w.step = g.step /\ w.blockedAt = g.blockedAt /\ w.from = g.from
      /\ w.failures = g.failures /\ w.skip = FALSE
  BY WorkedIs
<1>2. \/ q = [w EXCEPT !.step = "done"]
      \/ q = Block(w, "ci")
      \/ q = [w EXCEPT !.step = "check", !.ciFailure = TRUE]
  BY DEF AfterGoalCI
<1> HIDE DEF w
<1>s. {"done", "check"} \subseteq GoalSteps \cup GoalOver /\ "ci" \in GoalSteps BY DEF GoalSteps, GoalOver
<1>3. CASE q = [w EXCEPT !.step = "done"]
  <2>1. /\ Like(q, w) /\ q.step = "done" /\ q.blockedAt = w.blockedAt /\ q.from = w.from
        /\ q.failures = w.failures /\ q.skip = w.skip
    BY <1>s, <1>1, <1>3, StepTo DEF Like
  <2>q. QED BY <1>1, <2>1 DEF Like, PolledTo
<1>4. CASE q = Block(w, "ci")
  <2>1. /\ Like(q, w) /\ q.step = "blocked" /\ q.blockedAt = "ci" /\ q.from = w.from
        /\ q.failures = w.failures /\ q.skip = w.skip
    BY <1>s, <1>1, <1>4, BlockIs DEF Like
  <2>q. QED BY <1>1, <2>1 DEF Like, PolledTo
<1>5. CASE q = [w EXCEPT !.step = "check", !.ciFailure = TRUE]
  <2>1. /\ Like(q, w) /\ q.step = "check" /\ q.blockedAt = w.blockedAt /\ q.from = w.from
        /\ q.failures = w.failures /\ q.skip = w.skip
    BY <1>s, <1>1, <1>5 DEF Like, GoalType
  <2>q. QED BY <1>1, <2>1 DEF Like, PolledTo
<1>q. QED BY <1>2, <1>3, <1>4, <1>5

(* The next brief gets its end.                                            *)
SettledAs(b, i, s) == [b EXCEPT ![i].state = s]

LEMMA SettledAsIs ==
  ASSUME NEW b \in Seq(Brief), NEW i \in DOMAIN b, NEW s \in BriefStates, NEW c, c = SettledAs(b, i, s)
  PROVE  /\ c \in Seq(Brief) /\ DOMAIN c = DOMAIN b /\ Len(c) = Len(b)
         /\ \A j \in DOMAIN b : c[j].run = b[j].run /\ c[j].round = b[j].round
         /\ c[i].state = s
         /\ \A j \in DOMAIN b \ {i} : c[j] = b[j]
<1>1. Len(b) \in Nat /\ DOMAIN b = 1 .. Len(b) BY BriefsAre
<1>2. b[i] \in Brief BY <1>1, ElementOfSeq
<1> DEFINE x == [b[i] EXCEPT !.state = s]
<1>3. x \in Brief /\ x.run = b[i].run /\ x.round = b[i].round /\ x.state = s BY <1>2 DEF Brief
<1>4. c = [b EXCEPT ![i] = x] BY DEF SettledAs
<1> HIDE DEF x
<1>5. c \in Seq(Brief) /\ DOMAIN c = DOMAIN b /\ Len(c) = Len(b) BY <1>3, <1>4, ExceptSeq
<1>q. QED BY <1>3, <1>4, <1>5

SettledFrom(q, g) ==
  /\ Settled(q, g) /\ q.from = g.from /\ q.skip = FALSE
  /\ q.verdict = g.verdict /\ q.verdictOf = g.verdictOf

(* g with briefs and failures of its run's end, before its next step.      *)
EndedAs(g, b, n) == [Worked(g) EXCEPT !.briefs = b, !.failures = n]

IsEnded(q, g, b, n) ==
  /\ q \in GoalType /\ q.step = g.step /\ q.blockedAt = g.blockedAt /\ q.round = g.round
  /\ q.from = g.from /\ q.failures = n /\ q.skip = FALSE /\ q.briefs = b
  /\ q.verdict = g.verdict /\ q.verdictOf = g.verdictOf

LEMMA EndedAsIs ==
  ASSUME NEW g \in GoalType, NEW b \in Seq(Brief), NEW n \in 0..MaxFailures, NEW q, q = EndedAs(g, b, n)
  PROVE  IsEnded(q, g, b, n)
<1> DEFINE w == Worked(g)
<1>1. /\ Like(w, g) /\ w.step = g.step /\ w.blockedAt = g.blockedAt /\ w.from = g.from
      /\ w.failures = g.failures /\ w.skip = FALSE
  BY WorkedIs
<1>2. q = [w EXCEPT !.briefs = b, !.failures = n] BY DEF EndedAs
<1> HIDE DEF w
<1>q. QED BY <1>1, <1>2 DEF Like, GoalType, IsEnded

RunDoneTo(q, g) ==
  /\ SettledFrom(q, g) /\ q.failures = 0 /\ q.blockedAt = g.blockedAt
  /\ q.step = g.step \/ (q.step = "check" /\ Open(q) = {})

LEMMA RunDoneIs ==
  ASSUME NEW g \in GoalType, Current(g) # 0, NEW q, q = AfterRunDone(g)
  PROVE  RunDoneTo(q, g)
<1> DEFINE i == Current(g)
           b == SettledAs(g.briefs, i, "done")
           e == EndedAs(g, b, 0)
<1>1. i \in DOMAIN g.briefs /\ g.briefs \in Seq(Brief) BY CurrentIs, GoalIs DEF Open
<1>2. Worked(g).briefs = g.briefs BY WorkedIs DEF Like
<1>3. [Worked(g) EXCEPT !.briefs[i].state = "done", !.failures = 0] = e
  BY <1>2 DEF EndedAs, SettledAs
<1>4. (Current(e) = 0 /\ q = [e EXCEPT !.step = "check"]) \/ (Current(e) # 0 /\ q = e)
  BY <1>3 DEF AfterRunDone
<1>d. "done" \in BriefStates /\ 0 \in 0..MaxFailures /\ "check" \in GoalSteps \cup GoalOver
  BY Caps DEF BriefStates, GoalSteps
<1>5. /\ b \in Seq(Brief) /\ DOMAIN b = DOMAIN g.briefs
      /\ \A j \in DOMAIN g.briefs : b[j].run = g.briefs[j].run /\ b[j].round = g.briefs[j].round
      /\ b[i].state = "done"
      /\ \A j \in DOMAIN g.briefs \ {i} : b[j] = g.briefs[j]
  BY <1>1, <1>d, SettledAsIs
<1> HIDE DEF b
<1>6. /\ e \in GoalType /\ e.step = g.step /\ e.blockedAt = g.blockedAt /\ e.round = g.round
      /\ e.from = g.from /\ e.failures = 0 /\ e.skip = FALSE /\ e.briefs = b
      /\ e.verdict = g.verdict /\ e.verdictOf = g.verdictOf
  <2>1. IsEnded(e, g, b, 0) BY <1>5, <1>d, EndedAsIs
  <2>q. QED BY <2>1 DEF IsEnded
<1> HIDE DEF e
<1>7. SettledFrom(e, g) BY <1>5, <1>6 DEF SettledFrom, Settled
<1>8. CASE q = e BY <1>6, <1>7, <1>8 DEF RunDoneTo
<1>9. CASE Current(e) = 0 /\ q = [e EXCEPT !.step = "check"]
  <2>1. /\ Like(q, e) /\ q.step = "check" /\ q.blockedAt = e.blockedAt /\ q.from = e.from
        /\ q.failures = e.failures /\ q.skip = e.skip
    BY <1>6, <1>9, <1>d, StepTo
  <2>2. Open(e) = {} BY <1>6, <1>9, CurrentIs
  <2>3. Open(q) = {} BY <2>1, <2>2 DEF Open, Like
  <2>4. SettledFrom(q, g) BY <1>7, <2>1 DEF SettledFrom, Settled, Like
  <2>q. QED BY <1>6, <2>1, <2>3, <2>4 DEF RunDoneTo
<1>q. QED BY <1>4, <1>8, <1>9

(* Those of the round that wait are dropped.                               *)
Dropped(b, m) ==
  [i \in DOMAIN b |-> IF b[i].round = m /\ b[i].state = "pending" THEN [b[i] EXCEPT !.state = "dropped"]
                      ELSE b[i]]

LEMMA DroppedIs ==
  ASSUME NEW b \in Seq(Brief), NEW m, NEW c, c = Dropped(b, m)
  PROVE  /\ c \in Seq(Brief) /\ DOMAIN c = DOMAIN b
         /\ \A j \in DOMAIN b : c[j].run = b[j].run /\ c[j].round = b[j].round
         /\ \A j \in DOMAIN b : IF b[j].round = m /\ b[j].state = "pending"
                                  THEN c[j].state = "dropped" ELSE c[j] = b[j]
<1>1. Len(b) \in Nat /\ DOMAIN b = 1 .. Len(b) BY BriefsAre
<1>2. DOMAIN c = DOMAIN b BY DEF Dropped
<1>3. ASSUME NEW j \in DOMAIN b
      PROVE  /\ c[j] \in Brief /\ c[j].run = b[j].run /\ c[j].round = b[j].round
             /\ IF b[j].round = m /\ b[j].state = "pending" THEN c[j].state = "dropped" ELSE c[j] = b[j]
  <2>1. b[j] \in Brief BY <1>1, ElementOfSeq
  <2>2. CASE b[j].round = m /\ b[j].state = "pending"
    <3>1. c[j] = [b[j] EXCEPT !.state = "dropped"] BY <2>2 DEF Dropped
    <3>q. QED BY <2>1, <2>2, <3>1 DEF Brief, BriefStates
  <2>3. CASE ~(b[j].round = m /\ b[j].state = "pending")
    <3>1. c[j] = b[j] BY <2>3 DEF Dropped
    <3>q. QED BY <2>1, <2>3, <3>1
  <2>q. QED BY <2>2, <2>3
<1>4. c = [j \in 1..Len(b) |-> c[j]] BY <1>1 DEF Dropped
<1>5. c \in Seq(Brief)
  <2>1. \A j \in 1..Len(b) : c[j] \in Brief BY <1>1, <1>3
  <2>q. QED BY <1>1, <1>4, <2>1, IsASeq
<1>q. QED BY <1>2, <1>3, <1>5

RunFailedTo(q, g) ==
  /\ SettledFrom(q, g) /\ q.failures = g.failures + 1 /\ Open(q) = {}
  /\ \/ q.step = "check" /\ q.blockedAt = g.blockedAt /\ q.failures < MaxFailures
     \/ q.step = "blocked" /\ q.blockedAt = "runs"

LEMMA RunFailedIs ==
  ASSUME NEW g \in GoalType, Current(g) # 0, g.failures < MaxFailures, BriefsFit(g),
         NEW q, q = AfterRunFailed(g)
  PROVE  RunFailedTo(q, g)
<1> DEFINE i == Current(g)
           n == g.failures + 1
           b == SettledAs(g.briefs, i, "failed")
           c == Dropped(b, g.round)
           f == EndedAs(g, b, n)
           e == EndedAs(g, c, n)
<1>1. i \in DOMAIN g.briefs /\ g.briefs \in Seq(Brief) BY CurrentIs, GoalIs DEF Open
<1>2. Worked(g).briefs = g.briefs /\ Worked(g).failures = g.failures BY WorkedIs DEF Like
<1>n. n \in 0..MaxFailures BY GoalIs, Caps
<1>d. /\ "failed" \in BriefStates /\ "check" \in GoalSteps \cup GoalOver /\ "runs" \in GoalSteps
  BY DEF BriefStates, GoalSteps
<1>5. /\ b \in Seq(Brief) /\ DOMAIN b = DOMAIN g.briefs
      /\ \A j \in DOMAIN g.briefs : b[j].run = g.briefs[j].run /\ b[j].round = g.briefs[j].round
      /\ b[i].state = "failed"
      /\ \A j \in DOMAIN g.briefs \ {i} : b[j] = g.briefs[j]
  BY <1>1, <1>d, SettledAsIs
<1>3. [Worked(g) EXCEPT !.briefs[i].state = "failed", !.failures = @ + 1] = f
  BY <1>2 DEF EndedAs, SettledAs
<1>4. f.briefs = b
  <2> HIDE DEF b, n
  <2>1. IsEnded(f, g, b, n) BY <1>5, <1>n, EndedAsIs
  <2> HIDE DEF f
  <2>q. QED BY <2>1 DEF IsEnded
<1>6. [f EXCEPT !.briefs = [j \in DOMAIN @ |-> IF @[j].round = g.round /\ @[j].state = "pending"
                              THEN [@[j] EXCEPT !.state = "dropped"] ELSE @[j]]] = e
  <2>1. [f EXCEPT !.briefs = [j \in DOMAIN @ |-> IF @[j].round = g.round /\ @[j].state = "pending"
                              THEN [@[j] EXCEPT !.state = "dropped"] ELSE @[j]]] = [f EXCEPT !.briefs = c]
    BY <1>4 DEF Dropped
  <2>q. QED BY <2>1 DEF EndedAs
<1>8. /\ c \in Seq(Brief) /\ DOMAIN c = DOMAIN b
      /\ \A j \in DOMAIN b : c[j].run = b[j].run /\ c[j].round = b[j].round
      /\ \A j \in DOMAIN b : IF b[j].round = g.round /\ b[j].state = "pending"
                               THEN c[j].state = "dropped" ELSE c[j] = b[j]
  BY <1>5, DroppedIs
<1>m. n = g.failures + 1 OBVIOUS
<1> HIDE DEF b, c, f, n
<1>9. /\ e \in GoalType /\ e.step = g.step /\ e.blockedAt = g.blockedAt /\ e.round = g.round
      /\ e.from = g.from /\ e.failures = n /\ e.skip = FALSE /\ e.briefs = c
      /\ e.verdict = g.verdict /\ e.verdictOf = g.verdictOf
  <2>1. IsEnded(e, g, c, n) BY <1>8, <1>n, EndedAsIs
  <2> HIDE DEF e
  <2>q. QED BY <2>1 DEF IsEnded
<1> HIDE DEF e
<1>7. \/ e.failures >= MaxFailures /\ q = Block(e, "runs")
      \/ ~(e.failures >= MaxFailures) /\ q = [e EXCEPT !.step = "check"]
  BY <1>3, <1>6 DEF AfterRunFailed
<1>10. Settled(e, g)
  <2>1. c[i].state = "failed" BY <1>1, <1>5, <1>8
  <2>2. ASSUME NEW j \in DOMAIN g.briefs \ {i}
        PROVE  \/ c[j].state = g.briefs[j].state
               \/ g.briefs[j].state = "pending" /\ c[j].state = "dropped"
    BY <1>5, <1>8
  <2>3. \A j \in DOMAIN g.briefs : c[j].run = g.briefs[j].run /\ c[j].round = g.briefs[j].round
    BY <1>5, <1>8
  <2>4. DOMAIN c = DOMAIN g.briefs BY <1>5, <1>8
  <2>q. QED BY <1>9, <2>1, <2>2, <2>3, <2>4 DEF Settled
<1>11. ASSUME NEW j \in DOMAIN c, c[j].round = g.round PROVE c[j].state \notin {"pending", "running"}
  <2>1. j \in DOMAIN b /\ j \in DOMAIN g.briefs BY <1>5, <1>8
  <2>2. CASE j = i BY <1>5, <1>8, <2>1, <2>2
  <2>3. CASE j # i
    <3>1. b[j] = g.briefs[j] /\ g.briefs[j].state # "running" BY <1>5, <2>1, <2>3 DEF BriefsFit
    <3>2. b[j].round = g.round BY <1>8, <1>11, <2>1
    <3>q. QED BY <1>8, <2>1, <3>1, <3>2
  <2>q. QED BY <2>2, <2>3
<1>12. Open(e) = {} BY <1>9, <1>11 DEF Open
<1>13. SettledFrom(e, g) BY <1>9, <1>10 DEF SettledFrom
<1>14. CASE q = Block(e, "runs")
  <2>1. /\ Like(q, e) /\ q.step = "blocked" /\ q.blockedAt = "runs" /\ q.from = e.from
        /\ q.failures = e.failures /\ q.skip = e.skip
    BY <1>9, <1>14, <1>d, BlockIs
  <2>2. Open(q) = {} BY <1>12, <2>1 DEF Open, Like
  <2>3. SettledFrom(q, g) BY <1>13, <2>1 DEF SettledFrom, Settled, Like
  <2>q. QED BY <1>9, <1>m, <2>1, <2>2, <2>3 DEF RunFailedTo
<1>15. CASE ~(e.failures >= MaxFailures) /\ q = [e EXCEPT !.step = "check"]
  <2>1. /\ Like(q, e) /\ q.step = "check" /\ q.blockedAt = e.blockedAt /\ q.from = e.from
        /\ q.failures = e.failures /\ q.skip = e.skip
    BY <1>9, <1>15, <1>d, StepTo
  <2>2. Open(q) = {} BY <1>12, <2>1 DEF Open, Like
  <2>3. SettledFrom(q, g) BY <1>13, <2>1 DEF SettledFrom, Settled, Like
  <2>4. q.failures < MaxFailures BY <1>9, <1>15, <1>n, <2>1, Caps
  <2>q. QED BY <1>9, <1>m, <2>1, <2>2, <2>3, <2>4 DEF RunFailedTo
<1>q. QED BY <1>7, <1>14, <1>15

-----------------------------------------------------------------------------
(* The runs and who names them. *)

(* q's briefs name the runs g's do, and leave no run of R that goes.       *)
Keeps(q, g, R) ==
  /\ q.briefs \in Seq(Brief)
  /\ DOMAIN g.briefs \subseteq DOMAIN q.briefs
  /\ \A i \in DOMAIN g.briefs : q.briefs[i].run = g.briefs[i].run
  /\ \A i \in DOMAIN q.briefs \ DOMAIN g.briefs : q.briefs[i].run = 0
  /\ \A i \in DOMAIN g.briefs :
       g.briefs[i].run \in R /\ g.briefs[i].state = "running" => q.briefs[i].state = "running"

LEMMA SameKeeps ==
  ASSUME NEW g \in GoalType, NEW q, q.briefs = g.briefs, NEW R
  PROVE  Keeps(q, g, R)
BY GoalIs DEF Keeps

LEMMA GrownKeeps ==
  ASSUME NEW g \in GoalType, NEW q, Grown(q, g), NEW R
  PROVE  Keeps(q, g, R)
<1>1. q.briefs \in Seq(Brief) BY GoalIs DEF Grown
<1>q. QED BY <1>1 DEF Keeps, Grown

LEMMA SettledKeeps ==
  ASSUME NEW g \in GoalType, NEW q, Settled(q, g), NEW R, g.briefs[Current(g)].run \notin R
  PROVE  Keeps(q, g, R)
<1>1. q.briefs \in Seq(Brief) BY GoalIs DEF Settled
<1>2. ASSUME NEW i \in DOMAIN g.briefs, g.briefs[i].run \in R, g.briefs[i].state = "running"
      PROVE  q.briefs[i].state = "running"
  <2>1. i # Current(g) BY <1>2
  <2>q. QED BY <1>2, <2>1 DEF Settled
<1>q. QED BY <1>1, <1>2 DEF Keeps, Settled

LEMMA RunsAre ==
  ASSUME Types
  PROVE  /\ Len(runs) \in Nat /\ DOMAIN runs = 1 .. Len(runs)
         /\ IsFiniteSet(DOMAIN runs)
         /\ Goings \subseteq DOMAIN runs /\ Lost \subseteq DOMAIN runs /\ Revived \subseteq DOMAIN runs
         /\ IsFiniteSet(Goings) /\ IsFiniteSet(Lost) /\ IsFiniteSet(Revived)
         /\ Cardinality(Goings) \in Nat /\ Cardinality(Lost) \in Nat /\ Cardinality(Revived) \in Nat
<1>1. Len(runs) \in Nat /\ DOMAIN runs = 1 .. Len(runs)
  <2>1. runs \in Seq(RunStates) BY DEF Types
  <2>q. QED BY <2>1, LenProperties
<1>2. IsFiniteSet(DOMAIN runs) BY <1>1, FS_Interval
<1>3. Goings \subseteq DOMAIN runs /\ Lost \subseteq DOMAIN runs /\ Revived \subseteq DOMAIN runs
  BY DEF Goings, Lost, Revived
<1>4. IsFiniteSet(Goings) /\ IsFiniteSet(Lost) /\ IsFiniteSet(Revived) BY <1>2, <1>3, FS_Subset
<1>q. QED BY <1>1, <1>2, <1>3, <1>4, FS_CardinalityType

LEMMA SeenIs ==
  ASSUME NEW s \in SeenType
  PROVE  /\ s.crashes \in Nat /\ s.resumes \in Nat /\ s.ciFails \in Nat /\ s.retried \in Nat
         /\ s.failed \in Nat /\ s.skipFor \in Nat
BY DEF SeenType

LEMMA FewerGo ==
  ASSUME Types, Types', GoingsFit, Lost' \subseteq Lost, Revived' \subseteq Revived,
         seen'.crashes = seen.crashes, seen'.retried = seen.retried
  PROVE  GoingsFit'
<1>1. /\ IsFiniteSet(Lost) /\ IsFiniteSet(Revived)
      /\ Cardinality(Lost) \in Nat /\ Cardinality(Revived) \in Nat
  BY RunsAre
<1>2. /\ Cardinality(Lost)' \in Nat /\ Cardinality(Revived)' \in Nat
  <2>1. (Cardinality(Lost) \in Nat /\ Cardinality(Revived) \in Nat)' BY RunsAre, PTL
  <2>q. QED BY <2>1
<1>3. Cardinality(Lost') <= Cardinality(Lost) BY <1>1, FS_Subset
<1>4. Cardinality(Revived') <= Cardinality(Revived) BY <1>1, FS_Subset
<1>5. seen.crashes \in Nat /\ seen.retried \in Nat BY SeenIs DEF Types
<1>q. QED BY <1>1, <1>2, <1>3, <1>4, <1>5 DEF GoingsFit

LEMMA WorldKept ==
  ASSUME Types, Types', RunsFit, GoingsFit, starting = Idle, starting' = Idle, runs' = runs,
         seen'.crashes = seen.crashes, seen'.retried = seen.retried, Keeps(goal', goal, Goings)
  PROVE  RunsFit' /\ GoingsFit'
<1>0. Len(runs) \in Nat /\ DOMAIN runs = 1 .. Len(runs) BY RunsAre
<1>1. \A i \in DOMAIN goal'.briefs : goal'.briefs[i].run # 0 => goal'.briefs[i].run \in DOMAIN runs
  BY DEF Keeps, RunsFit
<1>2. RunsFit' BY <1>1 DEF RunsFit, Idle
<1>3. ASSUME NEW r \in DOMAIN runs PROVE NamedBy(goal.briefs, r) <=> NamedBy(goal'.briefs, r)
  <2>1. r # 0 BY <1>0
  <2>q. QED BY <2>1 DEF NamedBy, Keeps
<1>4. Lost' \subseteq Lost BY <1>3 DEF Lost, Idle
<1>5. Goings' = Goings BY DEF Goings
<1>6. ASSUME NEW r \in Revived' PROVE r \in Revived
  <2>1. r \in Goings /\ r # 0 BY <1>0, <1>5 DEF Revived, Goings
  <2>2. PICK i \in DOMAIN goal'.briefs : goal'.briefs[i].run = r /\ goal'.briefs[i].state # "running"
    BY DEF Revived
  <2>3. i \in DOMAIN goal.briefs /\ goal.briefs[i].run = r BY <2>1, <2>2 DEF Keeps
  <2>4. goal.briefs[i].state # "running" BY <2>1, <2>2, <2>3 DEF Keeps
  <2>q. QED BY <2>1, <2>3, <2>4 DEF Revived
<1>q. QED BY <1>2, <1>4, <1>6, FewerGo

-----------------------------------------------------------------------------
(* The steps.  A step of the goal leaves the runs and what it starts.      *)

GoalStep ==
  /\ starting = Idle /\ starting' = Idle /\ runs' = runs
  /\ goal' \in GoalType /\ seen' \in SeenType /\ labels' \subseteq labels
  /\ seen'.crashes = seen.crashes /\ seen'.retried = seen.retried

LEMMA GoalStepKeeps ==
  ASSUME GoalsInv, GoalStep, Keeps(goal', goal, Goings)
  PROVE  Types' /\ RunsFit' /\ GoingsFit'
<1>1. Types' BY DEF GoalsInv, Types, GoalStep
<1>q. QED BY <1>1, WorldKept DEF GoalsInv, GoalStep

LEMMA SavedLabels ==
  ASSUME NEW q, Saved(q), labels \subseteq {"requested", "skip"}
  PROVE  /\ goal' = q /\ labels' \subseteq labels
         /\ labels' = {} \/ (q.step = goal.step /\ q.round = goal.round)
BY DEF Saved

(* What is left to show of a step that leaves the briefs as they are.      *)
Alike(q) ==
  /\ q \in GoalType /\ q.briefs = goal.briefs /\ q.round = goal.round
  /\ q.step # "runs" /\ (goal.step # "runs" \/ Current(goal) = 0)

LEMMA AlikeStep ==
  ASSUME GoalsInv, GoalStep, Alike(goal'), GoalFits(goal'), SeenFits'
  PROVE  GoalsInv'
<1>1. Keeps(goal', goal, Goings) BY SameKeeps DEF Alike, GoalsInv, Types
<1>2. BriefsFit(goal') BY KeptBriefs DEF Alike, GoalsInv, Types
<1>q. QED BY <1>1, <1>2, GoalStepKeeps DEF GoalsInv

LEMMA StepFailsKeeps == GoalsInv /\ StepFails => GoalsInv'
<1> SUFFICES ASSUME GoalsInv, StepFails PROVE GoalsInv' OBVIOUS
<1>1. goal \in GoalType /\ goal.step \in GoalSteps BY DEF GoalsInv, Types, StepFails
<1>2. Saved(GoalFailed(goal)) /\ goal' = GoalFailed(goal) BY DEF StepFails, Saved
<1>3. /\ Like(goal', goal) /\ goal'.from = goal.from /\ goal'.failures = goal.failures /\ goal'.skip = goal.skip
      /\ \/ goal'.step = goal.step /\ goal'.blockedAt = goal.blockedAt
         \/ goal'.step = "blocked" /\ goal'.blockedAt = goal.step
  BY <1>1, <1>2, FailedIs
<1>4. labels' \subseteq labels /\ (labels' = {} \/ (goal'.step = goal.step /\ goal'.round = goal.round))
  BY <1>2, SavedLabels DEF GoalsInv, Types
<1>5. GoalStep BY <1>3, <1>4 DEF GoalStep, StepFails, Like, GoalsInv, Types
<1>6. Alike(goal') BY <1>1, <1>3 DEF Alike, StepFails, Like
<1>7. GoalFits(goal')
  BY <1>1, <1>3 DEF GoalFits, BeforeRounds, Early, GoalsInv, Like, StepFails, GoalSteps, NoStep
<1>8. SeenFits' BY <1>3, <1>4 DEF SeenFits, GoalsInv, Like, StepFails
<1>q. QED BY <1>5, <1>6, <1>7, <1>8, AlikeStep

LEMMA ParkKeeps == GoalsInv /\ Park => GoalsInv'
<1> SUFFICES ASSUME GoalsInv, Park PROVE GoalsInv' OBVIOUS
<1>1. goal \in GoalType BY DEF GoalsInv, Types
<1>2. Saved(GoalWaits(goal, TRUE)) /\ goal' = [goal EXCEPT !.parked = TRUE] BY DEF Park, Saved, GoalWaits
<1>3. /\ Like(goal', goal) /\ goal'.from = goal.from /\ goal'.failures = goal.failures /\ goal'.skip = goal.skip
      /\ goal'.step = goal.step /\ goal'.blockedAt = goal.blockedAt
  BY <1>1, <1>2 DEF GoalType, Like
<1>4. labels' \subseteq labels BY <1>2, SavedLabels DEF GoalsInv, Types
<1>5. GoalStep BY <1>3, <1>4 DEF GoalStep, Park, Like, GoalsInv, Types
<1>6. Alike(goal') BY <1>1, <1>3 DEF Alike, Park, Like
<1>7. GoalFits(goal') BY <1>3 DEF GoalFits, BeforeRounds, GoalsInv, Like
<1>8. SeenFits' BY <1>3, <1>4 DEF SeenFits, GoalsInv, Like, Park
<1>q. QED BY <1>5, <1>6, <1>7, <1>8, AlikeStep

(* A step that worked and goes on to another, briefs and all.              *)
LEMMA PassesOn ==
  ASSUME GoalsInv, NEW s \in {"breakdown", "check", "ci"},
         starting = Idle, goal.step \in GoalSteps, goal.step \in Early <=> s \in Early,
         goal.step # "runs" \/ Current(goal) = 0,
         Saved([Worked(goal) EXCEPT !.step = s]), UNCHANGED <<runs, starting, seen>>
  PROVE  GoalsInv'
<1> DEFINE w == Worked(goal)
<1>1. goal \in GoalType BY DEF GoalsInv, Types
<1>2. /\ Like(w, goal) /\ w.blockedAt = goal.blockedAt /\ w.from = goal.from
      /\ w.failures = goal.failures /\ w.skip = FALSE
  BY <1>1, WorkedIs
<1>3. Saved([w EXCEPT !.step = s]) /\ goal' = [w EXCEPT !.step = s] BY DEF Saved
<1> HIDE DEF w
<1>s. s \in GoalSteps \cup GoalOver /\ s # "runs" /\ s # "blocked" BY DEF GoalSteps
<1>4. /\ Like(goal', w) /\ goal'.step = s /\ goal'.blockedAt = w.blockedAt /\ goal'.from = w.from
      /\ goal'.failures = w.failures /\ goal'.skip = w.skip
  BY <1>2, <1>3, <1>s, StepTo DEF Like
<1>5. labels' \subseteq labels /\ (labels' = {} \/ (goal'.step = goal.step /\ goal'.round = goal.round))
  BY <1>3, SavedLabels DEF GoalsInv, Types
<1>6. GoalStep BY <1>4, <1>5 DEF GoalStep, Like, GoalsInv, Types
<1>7. Alike(goal') BY <1>2, <1>4, <1>s DEF Alike, Like
<1>8. goal.blockedAt = NoStep /\ goal.step # "blocked" BY DEF GoalFits, GoalsInv, GoalSteps
<1>9. GoalFits(goal')
  BY <1>2, <1>4, <1>s, <1>8 DEF GoalFits, BeforeRounds, GoalsInv, Like, NoStep
<1>10. SeenFits' BY <1>2, <1>4, <1>5 DEF SeenFits, GoalsInv, Like
<1>q. QED BY <1>6, <1>7, <1>9, <1>10, AlikeStep

LEMMA SetupKeeps == GoalsInv /\ Setup => GoalsInv'
<1>1. "setup" \in GoalSteps /\ "setup" \in Early /\ "breakdown" \in Early BY DEF GoalSteps, Early
<1>q. QED BY <1>1, PassesOn DEF Setup

LEMMA OpenPRKeeps == GoalsInv /\ OpenPR => GoalsInv'
<1>1. "pr" \in GoalSteps /\ "pr" \notin Early /\ "ci" \notin Early BY DEF GoalSteps, Early
<1>q. QED BY <1>1, PassesOn DEF OpenPR

LEMMA PollCIKeeps ==
  ASSUME GoalsInv, NEW result \in {"pass", "merged", "closed", "fail"}, PollCI(result)
  PROVE  GoalsInv'
<1>1. goal \in GoalType /\ seen \in SeenType /\ goal.step = "ci" BY DEF GoalsInv, Types, PollCI
<1>2. Saved(AfterGoalCI(goal, result)) /\ goal' = AfterGoalCI(goal, result) BY DEF PollCI, Saved
<1>3. /\ Like(goal', goal) /\ goal'.from = goal.from /\ goal'.failures = goal.failures /\ goal'.skip = FALSE
      /\ \/ goal'.step \in {"done", "check"} /\ goal'.blockedAt = goal.blockedAt
         \/ goal'.step = "blocked" /\ goal'.blockedAt = "ci"
  <2>1. PolledTo(goal', goal) BY <1>1, <1>2, CIIs
  <2>q. QED BY <2>1 DEF PolledTo
<1>4. labels' \subseteq labels /\ (labels' = {} \/ (goal'.step = goal.step /\ goal'.round = goal.round))
  BY <1>2, SavedLabels DEF GoalsInv, Types
<1>5. /\ seen' \in SeenType /\ seen'.crashes = seen.crashes /\ seen'.retried = seen.retried
      /\ seen'.failed = seen.failed /\ seen'.skipFor = seen.skipFor
  BY <1>1 DEF PollCI, SeenType
<1>6. GoalStep BY <1>3, <1>4, <1>5 DEF GoalStep, Like, PollCI
<1>7. Alike(goal') BY <1>1, <1>3 DEF Alike, Like
<1>8. GoalFits(goal')
  BY <1>1, <1>3 DEF GoalFits, BeforeRounds, Early, GoalsInv, Like, NoStep
<1>9. SeenFits' BY <1>1, <1>3, <1>4, <1>5 DEF SeenFits, GoalsInv, Like
<1>q. QED BY <1>6, <1>7, <1>8, <1>9, AlikeStep

LEMMA PickUpGoalKeeps == GoalsInv /\ PickUpGoal => GoalsInv'
<1> SUFFICES ASSUME GoalsInv, PickUpGoal PROVE GoalsInv' OBVIOUS
<1>1. /\ goal \in GoalType /\ seen \in SeenType /\ labels' = {} /\ starting = Idle /\ starting' = Idle
      /\ runs' = runs
  BY DEF GoalsInv, Types, PickUpGoal
<1>2. CASE goal.step = "blocked"
  <2>1. goal.blockedAt \in GoalSteps BY <1>1, <1>2, GoalIs DEF GoalsInv, GoalFits
  <2>2. goal' = ResumeGoal(goal) BY <1>2 DEF PickUpGoal
  <2>3. /\ Like(goal', goal) /\ goal'.blockedAt = NoStep /\ goal'.skip = goal.skip
        /\ \/ /\ goal.blockedAt \in {"runs", "check"}
              /\ goal'.step = "check" /\ goal'.from = goal.round + 1 /\ goal'.failures = 0
           \/ /\ goal.blockedAt \notin {"runs", "check"}
              /\ goal'.step = IF goal.blockedAt = "ci" THEN "pr" ELSE goal.blockedAt
              /\ goal'.from = goal.from /\ goal'.failures = goal.failures
    BY <1>1, <2>1, <2>2, ResumeIs
  <2>4. /\ seen' \in SeenType /\ seen'.crashes = seen.crashes /\ seen'.retried = seen.retried
        /\ seen'.failed = 0 /\ seen'.skipFor = seen.skipFor
    <3> DEFINE n == seen.resumes + 1
    <3>1. n \in Nat BY <1>1, SeenIs
    <3>2. seen' = [seen EXCEPT !.resumes = n, !.failed = 0] BY <1>2 DEF PickUpGoal
    <3> HIDE DEF n
    <3>q. QED BY <1>1, <3>1, <3>2 DEF SeenType
  <2>5. GoalStep BY <1>1, <2>3, <2>4 DEF GoalStep, Like
  <2>6. Alike(goal') BY <1>1, <1>2, <2>3 DEF Alike, Like
  <2>7. goal.round \in Nat /\ goal'.failures \in Nat BY <1>1, <2>3, GoalIs DEF Like
  <2>8. GoalFits(goal')
    <3>1. goal'.step # "blocked" /\ goal'.blockedAt = NoStep BY <2>1, <2>3 DEF GoalSteps
    <3>2. goal'.failures < MaxFailures BY <2>3, Caps DEF GoalsInv, GoalFits
    <3>3. BeforeRounds(goal') => goal'.round = 0 /\ goal'.briefs = <<>> /\ goal'.verdict = NoStep
      BY <2>3 DEF BeforeRounds, Early, GoalsInv, GoalFits, Like, NoStep
    <3>4. goal'.round # 0 => goal'.round + 1 <= goal'.from + GoalRounds
      BY <2>3, <2>7, Caps DEF GoalsInv, GoalFits, Like
    <3>5. goal'.verdict = "skipped" => goal'.verdictOf = goal'.round BY <2>3 DEF GoalsInv, GoalFits, Like
    <3>6. goal'.skip => goal'.step = "check" BY <1>2, <2>3 DEF GoalsInv, GoalFits
    <3>q. QED BY <3>1, <3>2, <3>3, <3>4, <3>5, <3>6 DEF GoalFits
  <2>9. SeenFits' BY <1>1, <2>3, <2>4, <2>7 DEF SeenFits, GoalsInv, Like
  <2>q. QED BY <2>5, <2>6, <2>8, <2>9, AlikeStep
<1>3. CASE goal.step # "blocked"
  <2>1. goal' = goal /\ seen' = seen BY <1>3 DEF PickUpGoal
  <2>2. GoalStep BY <1>1, <2>1 DEF GoalStep
  <2>3. Keeps(goal', goal, Goings) BY <1>1, <2>1, SameKeeps
  <2>4. SeenFits' BY <1>1, <2>1 DEF SeenFits, GoalsInv
  <2>q. QED BY <2>1, <2>2, <2>3, <2>4, GoalStepKeeps DEF GoalsInv
<1>q. QED BY <1>2, <1>3

LEMMA PickUpGoalSkipKeeps == GoalsInv /\ PickUpGoalSkip => GoalsInv'
<1> SUFFICES ASSUME GoalsInv, PickUpGoalSkip PROVE GoalsInv' OBVIOUS
<1>1. /\ goal \in GoalType /\ seen \in SeenType /\ labels' = {} /\ starting = Idle /\ starting' = Idle
      /\ runs' = runs /\ seen' = seen /\ "skip" \in labels
  BY DEF GoalsInv, Types, PickUpGoalSkip
<1>2. CASE goal.step = "check"
  <2>1. goal' = [goal EXCEPT !.skip = TRUE] BY <1>2 DEF PickUpGoalSkip
  <2>2. /\ Like(goal', goal) /\ goal'.from = goal.from /\ goal'.failures = goal.failures
        /\ goal'.skip = TRUE /\ goal'.step = goal.step /\ goal'.blockedAt = goal.blockedAt
    BY <1>1, <2>1 DEF GoalType, Like
  <2>3. GoalStep BY <1>1, <2>2 DEF GoalStep, Like
  <2>4. Alike(goal') BY <1>1, <1>2, <2>2 DEF Alike, Like
  <2>5. GoalFits(goal') BY <1>2, <2>2 DEF GoalFits, BeforeRounds, GoalsInv, Like
  <2>6. SeenFits' BY <1>1, <1>2, <2>2 DEF SeenFits, GoalsInv, Like
  <2>q. QED BY <2>3, <2>4, <2>5, <2>6, AlikeStep
<1>3. CASE goal.step # "check"
  <2>1. goal' = goal BY <1>3 DEF PickUpGoalSkip
  <2>2. GoalStep BY <1>1, <2>1 DEF GoalStep
  <2>3. Keeps(goal', goal, Goings) BY <1>1, <2>1, SameKeeps
  <2>4. SeenFits' BY <1>1, <2>1 DEF SeenFits, GoalsInv
  <2>q. QED BY <2>1, <2>2, <2>3, <2>4, GoalStepKeeps, <1>1 DEF GoalsInv
<1>q. QED BY <1>2, <1>3

LEMMA BreakdownKeeps ==
  ASSUME GoalsInv, NEW n \in 1..MaxBriefs, Breakdown(n)
  PROVE  GoalsInv'
<1>1. goal \in GoalType /\ goal.step = "breakdown" BY DEF GoalsInv, Types, Breakdown
<1>2. Saved(AfterBreakdown(goal, n)) /\ goal' = AfterBreakdown(goal, n) BY DEF Breakdown, Saved
<1>n. n \in Nat OBVIOUS
<1>3. /\ Grown(goal', goal) /\ goal'.step = "runs" /\ goal'.blockedAt = goal.blockedAt /\ goal'.round = 1
      /\ goal'.from = 1 /\ goal'.failures = goal.failures /\ goal'.skip = FALSE
      /\ goal'.verdict = goal.verdict /\ goal'.verdictOf = goal.verdictOf
  BY <1>1, <1>2, <1>n, BreakdownIs
<1>4. labels' \subseteq labels BY <1>2, SavedLabels DEF GoalsInv, Types
<1>5. GoalStep BY <1>3, <1>4 DEF GoalStep, Grown, Breakdown, GoalsInv, Types
<1>6. goal.round = 0 /\ goal.verdict = NoStep /\ goal.blockedAt = NoStep
  BY <1>1 DEF GoalsInv, GoalFits, BeforeRounds, Early
<1>7. BriefsFit(goal') BY <1>1, <1>3, <1>6, GrownBriefs DEF GoalsInv
<1>8. GoalFits(goal')
  BY <1>3, <1>6, Caps DEF GoalFits, BeforeRounds, Early, GoalsInv, NoStep
<1>9. SeenFits' BY <1>3, <1>6, <1>4 DEF SeenFits, GoalsInv, NoStep, Breakdown
<1>10. Keeps(goal', goal, Goings) BY <1>1, <1>3, GrownKeeps
<1>q. QED BY <1>5, <1>7, <1>8, <1>9, <1>10, GoalStepKeeps DEF GoalsInv

LEMMA CheckKeeps ==
  ASSUME GoalsInv, NEW met \in BOOLEAN, NEW skipped \in BOOLEAN, skipped => met, NEW n \in Nat,
         starting = Idle, goal.step = "check", goal.skip <=> skipped,
         Saved(AfterGoalCheck(goal, met, skipped, n)), UNCHANGED <<runs, starting, seen>>
  PROVE  GoalsInv'
<1>1. goal \in GoalType /\ goal.blockedAt = NoStep BY DEF GoalsInv, Types, GoalFits
<1>2. goal' = AfterGoalCheck(goal, met, skipped, n) BY DEF Saved
<1>3. /\ goal' \in GoalType /\ goal'.skip = FALSE /\ goal'.from = goal.from /\ goal'.failures = goal.failures
      /\ goal'.verdictOf = goal.round /\ (goal'.verdict = "skipped" <=> skipped)
      /\ \/ goal'.step = "pr" /\ goal'.blockedAt = goal.blockedAt /\ goal'.round = goal.round /\ goal'.briefs = goal.briefs
         \/ goal'.step = "blocked" /\ goal'.blockedAt = "check" /\ goal'.round = goal.round /\ goal'.briefs = goal.briefs
         \/ /\ goal'.step = "runs" /\ goal'.blockedAt = goal.blockedAt /\ goal'.round = goal.round + 1 /\ Grown(goal', goal)
            /\ goal.round - goal.from + 1 < GoalRounds /\ ~skipped
  <2>1. CheckedTo(goal', goal, skipped) BY <1>1, <1>2, CheckIs
  <2>q. QED BY <2>1 DEF CheckedTo
<1>4. labels' \subseteq labels /\ (labels' = {} \/ (goal'.step = goal.step /\ goal'.round = goal.round))
  BY SavedLabels, <1>2 DEF GoalsInv, Types
<1>5. GoalStep BY <1>3, <1>4 DEF GoalStep, GoalsInv, Types
<1>n. goal.round \in Nat /\ goal.from \in Nat BY <1>1, GoalIs
<1>6. GoalFits(goal')
  <2>1. goal'.step = "blocked" <=> goal'.blockedAt # NoStep BY <1>1, <1>3 DEF NoStep
  <2>2. goal'.failures < MaxFailures BY <1>1, <1>3 DEF GoalFits, GoalsInv, NoStep
  <2>3. ~BeforeRounds(goal') BY <1>1, <1>3 DEF BeforeRounds, Early, NoStep
  <2>4. goal'.round # 0 => goal'.round + 1 <= goal'.from + GoalRounds
    BY <1>3, <1>n, Caps DEF GoalFits, GoalsInv
  <2>5. goal'.verdict = "skipped" => goal'.verdictOf = goal'.round BY <1>3
  <2>q. QED BY <1>3, <2>1, <2>2, <2>3, <2>4, <2>5 DEF GoalFits
<1>7. SeenFits' BY <1>3, <1>4 DEF SeenFits, GoalsInv
<1>8. CASE goal'.step # "runs"
  <2>1. Alike(goal') BY <1>3, <1>8 DEF Alike
  <2>q. QED BY <1>5, <1>6, <1>7, <2>1, AlikeStep
<1>9. CASE goal'.step = "runs"
  <2>1. Grown(goal', goal) /\ goal'.round > goal.round BY <1>3, <1>9, <1>n
  <2>2. BriefsFit(goal') BY <1>1, <1>9, <2>1, GrownBriefs DEF GoalsInv
  <2>3. Keeps(goal', goal, Goings) BY <1>1, <2>1, GrownKeeps
  <2>q. QED BY <1>5, <1>6, <1>7, <2>2, <2>3, GoalStepKeeps DEF GoalsInv
<1>q. QED BY <1>8, <1>9

LEMMA GoalCheckKeeps == GoalsInv /\ GoalCheck => GoalsInv'
<1> SUFFICES ASSUME GoalsInv, GoalCheck PROVE GoalsInv' OBVIOUS
<1>1. goal.skip \in BOOLEAN BY GoalIs DEF GoalsInv, Types
<1>2. CASE goal.skip /\ Saved(AfterGoalCheck(goal, TRUE, TRUE, 0)) BY <1>1, <1>2, CheckKeeps DEF GoalCheck
<1>3. CASE ~goal.skip /\ Saved(AfterGoalCheck(goal, TRUE, FALSE, 0)) BY <1>1, <1>3, CheckKeeps DEF GoalCheck
<1>4. ASSUME NEW n \in 1..MaxBriefs, ~goal.skip, Saved(AfterGoalCheck(goal, FALSE, FALSE, n)) PROVE GoalsInv'
  <2>1. n \in Nat OBVIOUS
  <2>q. QED BY <1>1, <1>4, <2>1, CheckKeeps DEF GoalCheck
<1>q. QED BY <1>2, <1>3, <1>4 DEF GoalCheck

LEMMA FailedIsSeen ==
  ASSUME NEW n \in Nat, NEW s \in SeenType, NEW q, q = [s EXCEPT !.failed = n]
  PROVE  /\ q \in SeenType /\ q.crashes = s.crashes /\ q.retried = s.retried /\ q.skipFor = s.skipFor
         /\ q.failed = n
BY DEF SeenType

(* The next brief's run has ended, so it is not one that goes.             *)
LEMMA RunEnded ==
  ASSUME GoalsInv, NEW q, SettledFrom(q, goal), goal' = q, starting = Idle, starting' = Idle, runs' = runs,
         goal.step = "runs", Current(goal) # 0, goal.briefs[Current(goal)].run \notin Goings,
         labels' \subseteq labels, labels' = {} \/ (q.step = goal.step /\ q.round = goal.round),
         seen' \in SeenType, seen'.crashes = seen.crashes, seen'.retried = seen.retried,
         seen'.skipFor = seen.skipFor, seen'.failed <= q.failures,
         q.step = "runs" \/ Open(q) = {}, GoalFits(q)
  PROVE  GoalsInv'
<1>1. goal \in GoalType /\ Settled(goal', goal) BY DEF GoalsInv, Types, SettledFrom
<1>2. BriefsFit(goal') BY <1>1, SettledBriefs DEF GoalsInv
<1>3. Keeps(goal', goal, Goings) BY <1>1, SettledKeeps
<1>4. GoalStep BY <1>1 DEF GoalStep, Settled
<1>5. SeenFits' BY DEF SeenFits, GoalsInv, SettledFrom, Settled
<1>q. QED BY <1>2, <1>3, <1>4, <1>5, GoalStepKeeps DEF GoalsInv

LEMMA GoalRunKeeps == GoalsInv /\ GoalRun => GoalsInv'
<1> SUFFICES ASSUME GoalsInv, GoalRun PROVE GoalsInv' OBVIOUS
<1> DEFINE i == Current(goal)
           r == IF i = 0 THEN 0 ELSE goal.briefs[i].run
<1>1. /\ goal \in GoalType /\ seen \in SeenType /\ goal.step = "runs" /\ starting = Idle /\ starting' = Idle
      /\ runs' = runs /\ labels \subseteq {"requested", "skip"}
  BY DEF GoalsInv, Types, GoalRun
<1>2. goal.failures \in 0..MaxFailures /\ goal.failures < MaxFailures /\ goal.blockedAt = NoStep
      /\ goal.round \in Nat
  BY <1>1, GoalIs DEF GoalsInv, GoalFits, NoStep
<1>3. CASE i = 0 /\ Saved([Worked(goal) EXCEPT !.step = "check"]) /\ seen' = seen
  <2>1. "runs" \in GoalSteps /\ "runs" \notin Early /\ "check" \notin Early BY DEF GoalSteps, Early
  <2>q. QED BY <1>1, <1>3, <2>1, PassesOn
<1>4. CASE r # 0 /\ r \in DOMAIN runs /\ runs[r] = "done" /\ Saved(AfterRunDone(goal))
           /\ seen' = [seen EXCEPT !.failed = 0]
  <2>1. i # 0 /\ goal.briefs[i].run \notin Goings BY <1>4 DEF Goings
  <2>2. goal' = AfterRunDone(goal) BY <1>4 DEF Saved
  <2>3. RunDoneTo(goal', goal) BY <1>1, <2>1, <2>2, RunDoneIs
  <2>4. labels' \subseteq labels /\ (labels' = {} \/ (goal'.step = goal.step /\ goal'.round = goal.round))
    BY <1>1, <1>4, <2>2, SavedLabels
  <2>5. /\ seen' \in SeenType /\ seen'.crashes = seen.crashes /\ seen'.retried = seen.retried
        /\ seen'.skipFor = seen.skipFor /\ seen'.failed = 0
    BY <1>1, <1>4, FailedIsSeen
  <2>6. GoalFits(goal')
    BY <1>1, <1>2, <2>3, Caps DEF RunDoneTo, SettledFrom, Settled, GoalFits, BeforeRounds, Early, GoalsInv, NoStep
  <2>q. QED BY <1>1, <2>1, <2>3, <2>4, <2>5, <2>6, RunEnded DEF RunDoneTo
<1>5. CASE r # 0 /\ (r \in DOMAIN runs => runs[r] = "failed") /\ Saved(AfterRunFailed(goal))
           /\ seen' = [seen EXCEPT !.failed = @ + 1]
  <2>1. i # 0 /\ goal.briefs[i].run \notin Goings BY <1>5 DEF Goings
  <2>2. goal' = AfterRunFailed(goal) BY <1>5 DEF Saved
  <2>3. RunFailedTo(goal', goal) BY <1>1, <1>2, <2>1, <2>2, RunFailedIs DEF GoalsInv
  <2>4. labels' \subseteq labels /\ (labels' = {} \/ (goal'.step = goal.step /\ goal'.round = goal.round))
    BY <1>1, <1>5, <2>2, SavedLabels
  <2>n. seen.failed + 1 \in Nat /\ seen.failed <= goal.failures /\ seen.failed \in Nat
    BY <1>1, SeenIs DEF GoalsInv, SeenFits
  <2>5. /\ seen' \in SeenType /\ seen'.crashes = seen.crashes /\ seen'.retried = seen.retried
        /\ seen'.skipFor = seen.skipFor /\ seen'.failed = seen.failed + 1
    <3> DEFINE n == seen.failed + 1
    <3>1. n \in Nat /\ seen' = [seen EXCEPT !.failed = n] BY <1>5, <2>n
    <3> HIDE DEF n
    <3>2. /\ seen' \in SeenType /\ seen'.crashes = seen.crashes /\ seen'.retried = seen.retried
          /\ seen'.skipFor = seen.skipFor /\ seen'.failed = n
      BY <1>1, <3>1, FailedIsSeen
    <3>q. QED BY <3>2 DEF n
  <2>6. GoalFits(goal')
    BY <1>1, <1>2, <2>3 DEF RunFailedTo, SettledFrom, Settled, GoalFits, BeforeRounds, Early, GoalsInv, NoStep
  <2>7. seen'.failed <= goal'.failures BY <1>2, <2>3, <2>5, <2>n DEF RunFailedTo
  <2>q. QED BY <1>1, <2>1, <2>3, <2>4, <2>5, <2>6, <2>7, RunEnded DEF RunFailedTo
<1>q. QED BY <1>3, <1>4, <1>5 DEF GoalRun

(* The owner, and the runs by themselves.                                  *)
LEMMA LabelKeeps ==
  ASSUME GoalsInv, NEW l \in {"requested", "skip"}, Label(l)
  PROVE  GoalsInv'
<1>1. /\ goal' = goal /\ runs' = runs /\ starting' = starting /\ labels' = labels \cup {l}
      /\ goal \in GoalType /\ seen \in SeenType
  BY DEF Label, GoalsInv, Types
<1>2. /\ seen' \in SeenType /\ seen'.crashes = seen.crashes /\ seen'.retried = seen.retried
      /\ seen'.failed = seen.failed
      /\ seen'.skipFor = IF l = "skip" /\ goal.step = "check" THEN goal.round ELSE seen.skipFor
  <2>1. goal.round \in Nat BY <1>1, GoalIs
  <2>2. CASE l = "skip" /\ goal.step = "check"
    <3>1. seen' = [seen EXCEPT !.skipFor = goal.round] BY <2>2 DEF Label
    <3>q. QED BY <1>1, <2>1, <2>2, <3>1 DEF SeenType
  <2>3. CASE ~(l = "skip" /\ goal.step = "check") BY <1>1, <2>3 DEF Label
  <2>q. QED BY <2>2, <2>3
<1>3. Types' BY <1>1, <1>2 DEF GoalsInv, Types
<1>4. SeenFits'
  <2>1. seen'.failed <= goal'.failures BY <1>1, <1>2 DEF GoalsInv, SeenFits
  <2>2. "skip" \in labels' /\ goal'.step = "check" => seen'.skipFor = goal'.round
    BY <1>1, <1>2 DEF GoalsInv, SeenFits
  <2>3. goal'.skip \/ goal'.verdict = "skipped" => seen'.skipFor = goal'.round
    BY <1>1, <1>2 DEF GoalsInv, SeenFits
  <2>q. QED BY <2>1, <2>2, <2>3 DEF SeenFits
<1>5. RunsFit' BY <1>1, <1>2 DEF GoalsInv, RunsFit
<1>6. Lost' = Lost /\ Revived' = Revived BY <1>1 DEF Lost, Revived, Goings
<1>7. GoingsFit' BY <1>2, <1>3, <1>6, FewerGo DEF GoalsInv
<1>q. QED BY <1>1, <1>3, <1>4, <1>5, <1>7 DEF GoalsInv

LEMMA RunIs ==
  ASSUME Types, NEW r \in DOMAIN runs, NEW s \in RunStates, runs' = [runs EXCEPT ![r] = s]
  PROVE  /\ runs' \in Seq(RunStates) /\ Len(runs') = Len(runs) /\ DOMAIN runs' = DOMAIN runs
         /\ runs'[r] = s /\ \A j \in DOMAIN runs \ {r} : runs'[j] = runs[j]
<1>1. runs \in Seq(RunStates) BY DEF Types
<1>q. QED BY <1>1, ExceptSeq

LEMMA RunGoesKeeps ==
  ASSUME GoalsInv, NEW r \in DOMAIN runs, RunGoes(r)
  PROVE  GoalsInv'
<1>1. goal' = goal /\ starting' = starting /\ labels' = labels /\ seen' = seen BY DEF RunGoes
<1>2. PICK s \in {"merged", "done", "failed"} : runs' = [runs EXCEPT ![r] = s] /\ runs[r] \in {"going", "merged"}
  BY DEF RunGoes
<1>3. s \in RunStates BY DEF RunStates
<1>4. /\ runs' \in Seq(RunStates) /\ Len(runs') = Len(runs) /\ DOMAIN runs' = DOMAIN runs
      /\ runs'[r] = s /\ \A j \in DOMAIN runs \ {r} : runs'[j] = runs[j]
  BY <1>2, <1>3, RunIs DEF GoalsInv
<1>5. Types' BY <1>1, <1>4 DEF GoalsInv, Types
<1>6. Goings' \subseteq Goings BY <1>2, <1>4 DEF Goings
<1>7. Lost' = Lost BY <1>1, <1>4 DEF Lost
<1>8. Revived' \subseteq Revived BY <1>1, <1>6 DEF Revived
<1>9. GoingsFit' BY <1>1, <1>5, <1>7, <1>8, FewerGo DEF GoalsInv
<1>10. RunsFit' /\ SeenFits' BY <1>1, <1>4 DEF GoalsInv, RunsFit, SeenFits
<1>q. QED BY <1>1, <1>5, <1>9, <1>10 DEF GoalsInv

(* One more than before goes for a reason of its own.                      *)
LEMMA OneMore ==
  ASSUME NEW S, NEW T, NEW x, IsFiniteSet(S), T \subseteq S \cup {x}
  PROVE  IsFiniteSet(T) /\ Cardinality(T) \in Nat /\ Cardinality(T) <= Cardinality(S) + 1
<1>1. /\ IsFiniteSet(S \cup {x}) /\ Cardinality(S \cup {x}) \in Nat /\ Cardinality(S) \in Nat
      /\ Cardinality(S \cup {x}) <= Cardinality(S) + 1
  <2>1. IsFiniteSet(S \cup {x}) BY FS_AddElement
  <2>2. Cardinality(S \cup {x}) = IF x \in S THEN Cardinality(S) ELSE Cardinality(S) + 1 BY FS_AddElement
  <2>3. Cardinality(S \cup {x}) \in Nat /\ Cardinality(S) \in Nat BY <2>1, FS_CardinalityType
  <2>q. QED BY <2>1, <2>2, <2>3
<1>2. IsFiniteSet(T) /\ Cardinality(T) <= Cardinality(S \cup {x}) BY <1>1, FS_Subset
<1>3. Cardinality(T) \in Nat BY <1>2, FS_CardinalityType
<1>q. QED BY <1>1, <1>2, <1>3

LEMMA RunAgainKeeps ==
  ASSUME GoalsInv, NEW r \in DOMAIN runs, RunAgain(r)
  PROVE  GoalsInv'
<1>1. /\ goal' = goal /\ starting' = starting /\ labels' = labels /\ seen \in SeenType
      /\ runs' = [runs EXCEPT ![r] = "going"]
  BY DEF RunAgain, GoalsInv, Types
<1>2. /\ seen' \in SeenType /\ seen'.crashes = seen.crashes /\ seen'.retried = seen.retried + 1
      /\ seen'.failed = seen.failed /\ seen'.skipFor = seen.skipFor
  <2> DEFINE n == seen.retried + 1
  <2>1. n \in Nat /\ seen' = [seen EXCEPT !.retried = n] BY <1>1, SeenIs DEF RunAgain
  <2> HIDE DEF n
  <2>2. /\ seen' \in SeenType /\ seen'.crashes = seen.crashes /\ seen'.retried = n
        /\ seen'.failed = seen.failed /\ seen'.skipFor = seen.skipFor
    BY <1>1, <2>1 DEF SeenType
  <2>q. QED BY <2>2 DEF n
<1>3. /\ runs' \in Seq(RunStates) /\ Len(runs') = Len(runs) /\ DOMAIN runs' = DOMAIN runs
      /\ runs'[r] = "going" /\ \A j \in DOMAIN runs \ {r} : runs'[j] = runs[j]
  <2>1. "going" \in RunStates BY DEF RunStates
  <2>q. QED BY <1>1, <2>1, RunIs DEF GoalsInv
<1>4. Types' BY <1>1, <1>2, <1>3 DEF GoalsInv, Types
<1>5. Goings' \subseteq Goings \cup {r} BY <1>3 DEF Goings
<1>6. Lost' = Lost BY <1>1, <1>3 DEF Lost
<1>7. Revived' \subseteq Revived \cup {r} BY <1>1, <1>5 DEF Revived
<1>8. GoingsFit'
  <2>1. IsFiniteSet(Revived) BY RunsAre DEF GoalsInv
  <2>2. Cardinality(Revived') \in Nat /\ Cardinality(Revived') <= Cardinality(Revived) + 1
    BY <1>7, <2>1, OneMore
  <2>3. Cardinality(Revived) \in Nat BY RunsAre DEF GoalsInv
  <2>4. seen.retried \in Nat BY <1>1, SeenIs
  <2>q. QED BY <1>2, <1>6, <2>2, <2>3, <2>4 DEF GoalsInv, GoingsFit
<1>9. RunsFit' BY <1>1, <1>2, <1>3 DEF GoalsInv, RunsFit
<1>10. SeenFits' BY <1>1, <1>2 DEF GoalsInv, SeenFits
<1>q. QED BY <1>1, <1>4, <1>8, <1>9, <1>10 DEF GoalsInv

-----------------------------------------------------------------------------
(* Starting a run, and the crash that may come between its parts.          *)

LEMMA CreateHomeKeeps == GoalsInv /\ CreateHome => GoalsInv'
<1> SUFFICES ASSUME GoalsInv, CreateHome PROVE GoalsInv' OBVIOUS
<1>1. /\ goal' = goal /\ runs' = runs /\ labels' = labels /\ seen' = seen
      /\ starting = Idle /\ starting' = "homed" /\ goal.step = "runs"
  BY DEF CreateHome
<1>2. Types' BY <1>1 DEF GoalsInv, Types
<1>3. seen.failed < MaxFailures
  <2>1. goal.failures < MaxFailures BY <1>1 DEF GoalsInv, GoalFits, NoStep
  <2>2. seen.failed \in Nat /\ goal.failures \in 0..MaxFailures BY SeenIs, GoalIs DEF GoalsInv, Types
  <2>q. QED BY <2>1, <2>2, Caps DEF GoalsInv, SeenFits
<1>4. RunsFit' BY <1>1, <1>3 DEF GoalsInv, RunsFit, CreateHome, Idle
<1>5. Lost' = Lost /\ Revived' = Revived BY <1>1 DEF Lost, Revived, Goings, Idle
<1>6. GoingsFit' BY <1>1, <1>2, <1>5, FewerGo DEF GoalsInv
<1>7. SeenFits' BY <1>1 DEF GoalsInv, SeenFits
<1>q. QED BY <1>1, <1>2, <1>4, <1>6, <1>7 DEF GoalsInv

LEMMA SaveRunKeeps == GoalsInv /\ SaveRun => GoalsInv'
<1> SUFFICES ASSUME GoalsInv, SaveRun PROVE GoalsInv' OBVIOUS
<1>1. /\ goal' = goal /\ labels' = labels /\ seen' = seen /\ starting = "homed" /\ starting' = "runSaved"
      /\ runs' = Append(runs, "going") /\ runs \in Seq(RunStates)
  BY DEF SaveRun, GoalsInv, Types
<1>0. Len(runs) \in Nat /\ DOMAIN runs = 1 .. Len(runs) /\ Len(runs) < MaxHomes /\ MaxHomes \in Nat
  BY <1>1, RunsAre, Caps DEF GoalsInv, RunsFit
<1>2. /\ runs' \in Seq(RunStates) /\ Len(runs') = Len(runs) + 1
      /\ \A j \in DOMAIN runs : runs'[j] = runs[j]
  <2>1. "going" \in RunStates BY DEF RunStates
  <2>q. QED BY <1>0, <1>1, <2>1, AppendProperties
<1>3. DOMAIN runs' = DOMAIN runs \cup {Len(runs) + 1}
  <2>1. DOMAIN runs' = 1 .. Len(runs) + 1 BY <1>2, LenProperties
  <2>q. QED BY <1>0, <2>1
<1>4. Types' BY <1>0, <1>1, <1>2 DEF GoalsInv, Types
<1>5. ASSUME NEW i \in DOMAIN goal.briefs
      PROVE  goal.briefs[i].run # 0 => goal.briefs[i].run \in DOMAIN runs
  BY DEF GoalsInv, RunsFit
<1>6. ASSUME NEW i \in DOMAIN goal.briefs PROVE goal.briefs[i].run # Len(runs) + 1
  BY <1>0, <1>5
<1>7. RunsFit' BY <1>0, <1>1, <1>2, <1>3, <1>5, <1>6 DEF GoalsInv, RunsFit, Idle
<1>8. Lost' = Lost
  <2>1. ASSUME NEW r \in DOMAIN runs PROVE r # Len(runs') BY <1>0, <1>2
  <2>2. Lost' = {r \in DOMAIN runs' : ~NamedBy(goal.briefs, r) /\ r # Len(runs')} BY <1>1 DEF Lost
  <2>3. Lost = {r \in DOMAIN runs : ~NamedBy(goal.briefs, r)} BY <1>1 DEF Lost
  <2>q. QED BY <1>2, <1>3, <2>1, <2>2, <2>3
<1>9. ASSUME NEW r \in Revived' PROVE r \in Revived
  <2>1. PICK i \in DOMAIN goal.briefs : goal.briefs[i].run = r /\ goal.briefs[i].state # "running"
    BY <1>1 DEF Revived
  <2>2. r \in DOMAIN runs' /\ runs'[r] \in {"going", "merged"} BY DEF Revived, Goings
  <2>3. r \in DOMAIN runs BY <1>3, <1>6, <2>1, <2>2
  <2>4. r \in Goings BY <1>2, <2>2, <2>3 DEF Goings
  <2>q. QED BY <2>1, <2>4 DEF Revived
<1>10. GoingsFit' BY <1>1, <1>4, <1>8, <1>9, FewerGo DEF GoalsInv
<1>11. SeenFits' BY <1>1 DEF GoalsInv, SeenFits
<1>q. QED BY <1>1, <1>4, <1>7, <1>10, <1>11 DEF GoalsInv

StartedAs(b, i, r) == [b EXCEPT ![i].run = r, ![i].state = "running"]

LEMMA StartedAsIs ==
  ASSUME NEW b \in Seq(Brief), NEW i \in DOMAIN b, NEW r \in 0..MaxHomes, NEW c, c = StartedAs(b, i, r)
  PROVE  /\ c \in Seq(Brief) /\ DOMAIN c = DOMAIN b
         /\ c[i].run = r /\ c[i].state = "running" /\ c[i].round = b[i].round
         /\ \A j \in DOMAIN b \ {i} : c[j] = b[j]
<1>1. Len(b) \in Nat /\ DOMAIN b = 1 .. Len(b) BY BriefsAre
<1>2. b[i] \in Brief BY <1>1, ElementOfSeq
<1> DEFINE x == [b[i] EXCEPT !.run = r, !.state = "running"]
<1>3. x \in Brief /\ x.run = r /\ x.round = b[i].round /\ x.state = "running" BY <1>2 DEF Brief, BriefStates
<1>4. c = [b EXCEPT ![i] = x] BY DEF StartedAs
<1> HIDE DEF x
<1>5. c \in Seq(Brief) /\ DOMAIN c = DOMAIN b BY <1>3, <1>4, ExceptSeq
<1>q. QED BY <1>3, <1>4, <1>5

LEMMA SaveGoalKeeps == GoalsInv /\ SaveGoal => GoalsInv'
<1> SUFFICES ASSUME GoalsInv, SaveGoal PROVE GoalsInv' OBVIOUS
<1> DEFINE i == Current(goal)
           n == Len(runs)
           b == StartedAs(goal.briefs, i, n)
<1>1. /\ goal \in GoalType /\ runs' = runs /\ labels' = labels /\ seen' = seen /\ starting = "runSaved"
      /\ starting' = Idle
  BY DEF SaveGoal, GoalsInv, Types
<1>0. n \in Nat /\ n # 0 /\ DOMAIN runs = 1 .. n /\ n \in 0..MaxHomes
  BY <1>1, RunsAre, Caps DEF GoalsInv, RunsFit, Types
<1>2. /\ goal.step = "runs" /\ i # 0 /\ goal.briefs[i].run = 0
      /\ \A j \in DOMAIN goal.briefs : goal.briefs[j].run # n
  BY <1>1 DEF GoalsInv, RunsFit, Idle
<1>3. i \in Open(goal) /\ i \in DOMAIN goal.briefs /\ goal.briefs[i].round = goal.round
  BY <1>1, <1>2, CurrentIs DEF Open
<1>4. goal' = [goal EXCEPT !.briefs = b] BY DEF SaveGoal, StartedAs
<1>5. /\ b \in Seq(Brief) /\ DOMAIN b = DOMAIN goal.briefs
      /\ b[i].run = n /\ b[i].state = "running" /\ b[i].round = goal.briefs[i].round
      /\ \A j \in DOMAIN goal.briefs \ {i} : b[j] = goal.briefs[j]
  BY <1>0, <1>1, <1>3, StartedAsIs, GoalIs
<1> HIDE DEF b
<1>6. /\ goal' \in GoalType /\ goal'.briefs = b /\ goal'.step = goal.step /\ goal'.blockedAt = goal.blockedAt
      /\ goal'.round = goal.round /\ goal'.from = goal.from /\ goal'.failures = goal.failures
      /\ goal'.skip = goal.skip /\ goal'.verdict = goal.verdict /\ goal'.verdictOf = goal.verdictOf
  BY <1>1, <1>4, <1>5 DEF GoalType
<1>7. Types' BY <1>1, <1>6 DEF GoalsInv, Types
<1>8. GoalFits(goal')
  <2>1. ~BeforeRounds(goal)
    <3>1. goal.briefs # <<>> BY <1>3
    <3>q. QED BY <3>1 DEF GoalsInv, GoalFits
  <2>q. QED BY <1>6, <2>1 DEF GoalsInv, GoalFits, BeforeRounds
<1>9. Open(goal') = Open(goal) BY <1>3, <1>5, <1>6 DEF Open
<1>10. Current(goal') = i BY <1>9 DEF Current
<1>11. BriefsFit(goal')
  <2>1. ASSUME NEW j \in DOMAIN b PROVE b[j].round <= goal'.round /\ (b[j].state = "running" => j = i)
    <3>1. CASE j = i BY <1>3, <1>5, <1>6, <3>1 DEF GoalsInv, BriefsFit
    <3>2. CASE j # i
      <4>1. b[j] = goal.briefs[j] /\ j \in DOMAIN goal.briefs BY <1>5, <3>2
      <4>q. QED BY <1>6, <4>1 DEF GoalsInv, BriefsFit
    <3>q. QED BY <3>1, <3>2
  <2>2. ASSUME NEW j \in DOMAIN b, NEW k \in DOMAIN b, j # k, b[j].run # 0 PROVE b[j].run # b[k].run
    <3>1. j \in DOMAIN goal.briefs /\ k \in DOMAIN goal.briefs BY <1>5
    <3>2. CASE j = i BY <1>2, <1>5, <2>2, <3>1, <3>2
    <3>3. CASE k = i BY <1>2, <1>5, <2>2, <3>1, <3>3
    <3>4. CASE j # i /\ k # i
      <4>1. b[j] = goal.briefs[j] /\ b[k] = goal.briefs[k] BY <1>5, <3>1, <3>4
      <4>q. QED BY <2>2, <3>1, <4>1 DEF GoalsInv, BriefsFit
    <3>q. QED BY <3>2, <3>3, <3>4
  <2>q. QED BY <1>2, <1>6, <1>10, <2>1, <2>2 DEF BriefsFit
<1>12. RunsFit'
  <2>1. ASSUME NEW j \in DOMAIN b, b[j].run # 0 PROVE b[j].run \in DOMAIN runs
    <3>1. CASE j = i BY <1>0, <1>5, <3>1
    <3>2. CASE j # i
      <4>1. b[j] = goal.briefs[j] /\ j \in DOMAIN goal.briefs BY <1>5, <3>2
      <4>q. QED BY <2>1, <4>1 DEF GoalsInv, RunsFit
    <3>q. QED BY <3>1, <3>2
  <2>q. QED BY <1>1, <1>6, <2>1 DEF RunsFit, Idle
<1>13. Lost' \subseteq Lost
  <2>1. ASSUME NEW r \in Lost' PROVE r \in Lost
    <3>1. r \in DOMAIN runs /\ ~NamedBy(b, r) BY <1>1, <1>6 DEF Lost, Idle
    <3>2. r # n BY <1>3, <1>5, <3>1 DEF NamedBy
    <3>3. r # 0 BY <1>0, <3>1
    <3>4. ~NamedBy(goal.briefs, r) BY <1>2, <1>5, <3>1, <3>3 DEF NamedBy
    <3>q. QED BY <3>1, <3>2, <3>4 DEF Lost
  <2>q. QED BY <2>1
<1>14. Revived' \subseteq Revived
  <2>1. ASSUME NEW r \in Revived' PROVE r \in Revived
    <3>1. r \in Goings BY <1>1 DEF Revived, Goings
    <3>2. PICK j \in DOMAIN b : b[j].run = r /\ b[j].state # "running" BY <1>6 DEF Revived
    <3>3. j # i /\ j \in DOMAIN goal.briefs BY <1>5, <3>2
    <3>4. goal.briefs[j].run = r /\ goal.briefs[j].state # "running" BY <1>5, <3>2, <3>3
    <3>q. QED BY <3>1, <3>3, <3>4 DEF Revived
  <2>q. QED BY <2>1
<1>15. GoingsFit' BY <1>1, <1>7, <1>13, <1>14, FewerGo DEF GoalsInv
<1>16. SeenFits' BY <1>1, <1>6 DEF GoalsInv, SeenFits
<1>q. QED BY <1>7, <1>8, <1>11, <1>12, <1>15, <1>16 DEF GoalsInv

LEMMA GoalCrashKeeps == GoalsInv /\ GoalCrash => GoalsInv'
<1> SUFFICES ASSUME GoalsInv, GoalCrash PROVE GoalsInv' OBVIOUS
<1>1. /\ goal' = goal /\ runs' = runs /\ labels' = labels /\ starting' = Idle /\ seen \in SeenType
  BY DEF GoalCrash, GoalsInv, Types
<1>2. /\ seen' \in SeenType /\ seen'.crashes = seen.crashes + 1 /\ seen'.retried = seen.retried
      /\ seen'.failed = seen.failed /\ seen'.skipFor = seen.skipFor
  <2> DEFINE n == seen.crashes + 1
  <2>1. n \in Nat /\ seen' = [seen EXCEPT !.crashes = n] BY <1>1, SeenIs DEF GoalCrash
  <2> HIDE DEF n
  <2>2. /\ seen' \in SeenType /\ seen'.crashes = n /\ seen'.retried = seen.retried
        /\ seen'.failed = seen.failed /\ seen'.skipFor = seen.skipFor
    BY <1>1, <2>1 DEF SeenType
  <2>q. QED BY <2>2 DEF n
<1>3. Types' BY <1>1, <1>2 DEF GoalsInv, Types
<1>4. Lost' \subseteq Lost \cup {Len(runs)} BY <1>1 DEF Lost
<1>5. Revived' = Revived BY <1>1 DEF Revived, Goings
<1>6. GoingsFit'
  <2>1. IsFiniteSet(Lost) /\ Cardinality(Lost) \in Nat BY RunsAre DEF GoalsInv
  <2>2. Cardinality(Lost') \in Nat /\ Cardinality(Lost') <= Cardinality(Lost) + 1 BY <1>4, <2>1, OneMore
  <2>3. seen.crashes \in Nat BY <1>1, SeenIs
  <2>q. QED BY <1>2, <1>5, <2>1, <2>2, <2>3 DEF GoalsInv, GoingsFit
<1>7. RunsFit' BY <1>1 DEF GoalsInv, RunsFit, Idle
<1>8. SeenFits' BY <1>1, <1>2 DEF GoalsInv, SeenFits
<1>q. QED BY <1>1, <1>3, <1>6, <1>7, <1>8 DEF GoalsInv

-----------------------------------------------------------------------------
LEMMA GoalsInvInit == GoalsInit => GoalsInv
<1> SUFFICES ASSUME GoalsInit PROVE GoalsInv OBVIOUS
<1>1. /\ goal = NewGoal /\ runs = <<>> /\ starting = Idle /\ labels = {} /\ seen \in SeenType
      /\ seen.crashes = 0 /\ seen.retried = 0 /\ seen.failed = 0
  BY DEF GoalsInit, SeenType
<1>2. /\ goal \in GoalType /\ goal.step = "setup" /\ goal.blockedAt = NoStep /\ goal.round = 0
      /\ goal.failures = 0 /\ goal.skip = FALSE /\ goal.briefs = <<>> /\ goal.verdict = NoStep
  <2>1. 0 \in 0..MaxFailures /\ <<>> \in Seq(Brief) BY Caps
  <2>q. QED BY <1>1, <2>1 DEF NewGoal, GoalType, GoalSteps
<1>3. Types BY <1>1, <1>2, Caps DEF Types
<1>4. GoalFits(goal) BY <1>2, Caps DEF GoalFits, BeforeRounds, Early, NoStep
<1>5. BriefsFit(goal) /\ RunsFit BY <1>1, <1>2 DEF BriefsFit, Open, RunsFit, Idle
<1>6. SeenFits BY <1>1, <1>2 DEF SeenFits, NoStep
<1>7. Lost = {} /\ Revived = {} BY <1>1 DEF Lost, Revived, Goings
<1>8. GoingsFit BY <1>1, <1>7, FS_EmptySet DEF GoingsFit
<1>q. QED BY <1>3, <1>4, <1>5, <1>6, <1>8 DEF GoalsInv

LEMMA GoalsInvStutters == GoalsInv /\ UNCHANGED goalVars => GoalsInv'
<1> SUFFICES ASSUME GoalsInv, UNCHANGED goalVars PROVE GoalsInv' OBVIOUS
<1>1. goal' = goal /\ runs' = runs /\ starting' = starting /\ labels' = labels /\ seen' = seen
  BY DEF goalVars
<1>2. Lost' = Lost /\ Revived' = Revived BY <1>1 DEF Lost, Revived, Goings
<1>q. QED BY <1>1, <1>2 DEF GoalsInv, Types, RunsFit, SeenFits, GoingsFit

LEMMA GoalsInvNext == GoalsInv /\ [GoalsNext]_goalVars => GoalsInv'
<1> SUFFICES ASSUME GoalsInv, [GoalsNext]_goalVars PROVE GoalsInv' OBVIOUS
<1>1. ASSUME NEW l \in {"requested", "skip"}, Label(l) PROVE GoalsInv' BY <1>1, LabelKeeps
<1>2. ASSUME NEW r \in DOMAIN runs, RunAgain(r) PROVE GoalsInv' BY <1>2, RunAgainKeeps
<1>3. ASSUME NEW r \in DOMAIN runs, RunGoes(r) PROVE GoalsInv' BY <1>3, RunGoesKeeps
<1>4. CASE PickUpGoal BY <1>4, PickUpGoalKeeps
<1>5. CASE PickUpGoalSkip BY <1>5, PickUpGoalSkipKeeps
<1>6. CASE StepFails BY <1>6, StepFailsKeeps
<1>7. CASE Park BY <1>7, ParkKeeps
<1>8. CASE Setup BY <1>8, SetupKeeps
<1>9. ASSUME NEW n \in 1..MaxBriefs, Breakdown(n) PROVE GoalsInv' BY <1>9, BreakdownKeeps
<1>10. CASE CreateHome BY <1>10, CreateHomeKeeps
<1>11. CASE SaveRun BY <1>11, SaveRunKeeps
<1>12. CASE SaveGoal BY <1>12, SaveGoalKeeps
<1>13. CASE GoalRun BY <1>13, GoalRunKeeps
<1>14. CASE GoalCheck BY <1>14, GoalCheckKeeps
<1>15. CASE OpenPR BY <1>15, OpenPRKeeps
<1>16. ASSUME NEW result \in {"pass", "merged", "closed", "fail"}, PollCI(result) PROVE GoalsInv'
  BY <1>16, PollCIKeeps
<1>17. CASE GoalCrash BY <1>17, GoalCrashKeeps
<1>18. CASE UNCHANGED goalVars BY <1>18, GoalsInvStutters
<1>q. QED BY <1>1, <1>2, <1>3, <1>4, <1>5, <1>6, <1>7, <1>8, <1>9, <1>10, <1>11, <1>12, <1>13, <1>14,
             <1>15, <1>16, <1>17, <1>18 DEF GoalsNext

LEMMA GoalsInvariant == GoalsSpec => []GoalsInv
BY GoalsInvInit, GoalsInvNext, PTL DEF GoalsSpec

(* Every part of the goal's state has its type, at every step.             *)
THEOREM GoalTypeCorrect == GoalsSpec => []GoalTypeOK
<1>1. GoalsInv => GoalTypeOK BY DEF GoalsInv, Types, GoalType, Brief, GoalFits, GoalTypeOK
<1>q. QED BY <1>1, GoalsInvariant, PTL

(* One run goes for the next brief, and another only for a reason told.    *)
LEMMA WhatGoes ==
  ASSUME GoalsInv
  PROVE  Cardinality(Goings) <= 1 + seen.crashes + seen.retried
<1> DEFINE x == IF starting = "runSaved" THEN Len(runs) ELSE goal.briefs[Current(goal)].run
<1>1. ASSUME NEW r \in Goings PROVE r \in Lost \cup Revived \cup {x}
  <2>1. r \in DOMAIN runs /\ Len(runs) \in Nat /\ DOMAIN runs = 1 .. Len(runs)
    BY RunsAre DEF Goings, GoalsInv
  <2>2. CASE ~NamedBy(goal.briefs, r) BY <2>1, <2>2 DEF Lost
  <2>3. ASSUME NEW i \in DOMAIN goal.briefs, goal.briefs[i].run = r PROVE r \in Revived \cup {x}
    <3>1. CASE goal.briefs[i].state # "running" BY <2>3, <3>1 DEF Revived
    <3>2. CASE goal.briefs[i].state = "running"
      <4>1. i = Current(goal) BY <3>2 DEF GoalsInv, BriefsFit
      <4>2. r # 0 BY <2>1
      <4>3. starting # "runSaved" BY <2>3, <4>1, <4>2 DEF GoalsInv, RunsFit, Idle
      <4>q. QED BY <2>3, <4>1, <4>3
    <3>q. QED BY <3>1, <3>2
  <2>q. QED BY <2>2, <2>3 DEF NamedBy
<1> HIDE DEF x
<1>2. /\ IsFiniteSet(Lost) /\ IsFiniteSet(Revived) /\ IsFiniteSet(Goings)
      /\ Cardinality(Lost) \in Nat /\ Cardinality(Revived) \in Nat /\ Cardinality(Goings) \in Nat
  BY RunsAre DEF GoalsInv
<1>3. /\ IsFiniteSet(Lost \cup Revived) /\ Cardinality(Lost \cup Revived) \in Nat
      /\ Cardinality(Lost \cup Revived) <= Cardinality(Lost) + Cardinality(Revived)
  <2>1. IsFiniteSet(Lost \cup Revived) BY <1>2, FS_Union
  <2>2. Cardinality(Lost \cup Revived)
          = Cardinality(Lost) + Cardinality(Revived) - Cardinality(Lost \cap Revived)
    BY <1>2, FS_Union
  <2>3. IsFiniteSet(Lost \cap Revived) BY <1>2, FS_Intersection
  <2>4. Cardinality(Lost \cup Revived) \in Nat /\ Cardinality(Lost \cap Revived) \in Nat
    BY <2>1, <2>3, FS_CardinalityType
  <2>q. QED BY <1>2, <2>1, <2>2, <2>4
<1>4. Cardinality(Goings) <= Cardinality(Lost \cup Revived) + 1 BY <1>1, <1>3, OneMore
<1>5. seen.crashes \in Nat /\ seen.retried \in Nat BY SeenIs DEF GoalsInv, Types
<1>q. QED BY <1>2, <1>3, <1>4, <1>5 DEF GoalsInv, GoingsFit

(* A crash of the runner between making a run and saying so leaves every   *)
(* brief with a run that was saved, no run with two briefs, no round left  *)
(* with a brief open, and at most one run more that goes.                  *)
THEOREM GoalWhole == GoalsSpec => []GoalIsWhole
<1>1. ASSUME GoalsInv PROVE GoalIsWhole
  <2>1. goal.step \in {"check", "pr", "ci", "done"} => Open(goal) = {} BY <1>1 DEF GoalsInv, BriefsFit
  <2>2. Cardinality(Goings) <= 1 + seen.crashes + seen.retried BY <1>1, WhatGoes
  <2>q. QED BY <1>1, <2>1, <2>2 DEF GoalIsWhole, GoalsInv, RunsFit, BriefsFit
<1>q. QED BY <1>1, GoalsInvariant, PTL

(* The goal keeps to its rounds, starts no run after too many failed, and  *)
(* takes a skip only for the check the owner skipped.                      *)
THEOREM GoalStops == GoalsSpec => []GoalStopsInTime
<1>1. GoalsInv => GoalStopsInTime BY DEF GoalsInv, GoalFits, RunsFit, SeenFits, GoalStopsInTime
<1>q. QED BY <1>1, GoalsInvariant, PTL
=============================================================================
