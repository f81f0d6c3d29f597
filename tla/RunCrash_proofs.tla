---------------------------- MODULE RunCrash_proofs ---------------------------
(***************************************************************************)
(* Proofs about RunCrash, for every plan, every cap and any number of      *)
(* crashes.                                                                *)
(*                                                                         *)
(* The run is followed twice, as it is in memory and as it was saved: what *)
(* is true of the one must be true of the other when a crash puts it in    *)
(* its place.  A session is prompted once for a try because a try whose    *)
(* session was not prompted is counted and not used.                       *)
(***************************************************************************)
EXTENDS RunCrash, FiniteSetTheorems, SequenceTheorems, WellFoundedInduction, TLAPS

RunSteps == SessionStep \cup EndedStep \cup {"check", "revise", "final-review", "pr", "merge"}
Places == {"tick", "save", "created", "prompt", "stop", "judge"}
Logs == Seq({"prompt", "nudge", "answer"})
SessStates == {"idle", "running", "completed"}
RequestStates == {Absent, "committed", "untracked"}

RunType ==
  [step : RunSteps, attempt : Nat, waiting : BOOLEAN, session : Nat, prompted : BOOLEAN, nudged : Nat,
   stopped : BOOLEAN, fixes : 0..RunMaxFixes, revisions : 0..RunMaxRevisions, task : Nat,
   reviewed : BOOLEAN]
SessType == [log : Logs, state : SessStates, wrote : BOOLEAN]
FilesType == [tasks : Nat, ticked : SUBSET Nat, request : RequestStates]
GithubType == [opened : 0..1, merged : BOOLEAN]
PastType == [crashes : Nat, tries : Nat, reviews : Nat]

CrashTypes ==
  /\ mem \in RunType /\ disk \in RunType /\ at \in Places
  /\ sess \in Seq(SessType) /\ files \in FilesType /\ github \in GithubType /\ past \in PastType
  /\ files.ticked \subseteq 1..files.tasks

(* What holds of a run, in memory and on disk, as the world is.            *)
UntickedOf(F) == 1..F.tasks \ F.ticked
WasJudged(r, S) == r.stopped /\ r.session # 0 /\ S[r.session].wrote

RunFits(r, S, F, G) ==
  /\ r.session \in 0..Len(S)
  /\ r.step \notin SessionStep => r.session = 0
  /\ r.waiting <=> r.step \in SessionStep /\ r.session = 0
  /\ r.prompted => r.session # 0 /\ S[r.session].log # <<>>
  /\ r.stopped => r.prompted
  /\ r.step = "work" /\ ~WasJudged(r, S) => UntickedOf(F) # {}
  /\ r.step = "work" /\ r.prompted => r.task \in 1..F.tasks
  /\ r.step = "revise" => r.revisions < RunMaxRevisions
  /\ r.step = "done" => G.merged

(* Where the runner is in its handler says what is saved.                  *)
AtFits ==
  /\ at \notin {"save", "created"} => mem = disk
  /\ at \in {"created", "prompt", "stop", "judge"} => mem.step \in SessionStep /\ mem.session # 0
  /\ at \in {"created", "prompt"} => ~mem.prompted
  /\ at \in {"stop", "judge"} => mem.stopped
  /\ at = "judge" => sess[mem.session].state = "completed"

(* A session is at work for the run as it is and as it is saved.           *)
SessFits ==
  \A s \in DOMAIN sess : sess[s].state = "running" =>
     sess[s].log # <<>> /\ s = mem.session /\ s = disk.session

(* A try whose session was not prompted is one that Prompted may grow by.  *)
Unused(r, S) == r.step \in SessionStep /\ (r.session = 0 \/ S[r.session].log = <<>>)
TriesFit ==
  /\ Cardinality(Prompted) <= past.tries
  /\ Unused(mem, sess) \/ Unused(disk, sess) => Cardinality(Prompted) < past.tries

CrashInv ==
  /\ CrashTypes
  /\ RunFits(mem, sess, files, github) /\ RunFits(disk, sess, files, github)
  /\ AtFits /\ SessFits /\ TriesFit

-----------------------------------------------------------------------------
LEMMA RunCaps ==
  /\ RunTasks \in Nat \ {0} /\ RunMaxFixes \in Nat /\ RunMaxRevisions \in Nat
BY RunCrashAssumption

LEMMA RunFields ==
  ASSUME NEW r \in RunType
  PROVE  /\ r.step \in RunSteps /\ r.attempt \in Nat /\ r.waiting \in BOOLEAN /\ r.session \in Nat
         /\ r.prompted \in BOOLEAN /\ r.nudged \in Nat /\ r.stopped \in BOOLEAN
         /\ r.fixes \in 0..RunMaxFixes /\ r.revisions \in 0..RunMaxRevisions /\ r.task \in Nat
         /\ r.reviewed \in BOOLEAN
BY DEF RunType

LEMMA SessAre ==
  ASSUME NEW S \in Seq(SessType)
  PROVE  /\ Len(S) \in Nat /\ DOMAIN S = 1 .. Len(S)
         /\ \A s \in DOMAIN S : S[s] \in SessType /\ S[s].log \in Logs /\ S[s].state \in SessStates
                                /\ S[s].wrote \in BOOLEAN
<1>1. Len(S) \in Nat /\ DOMAIN S = 1 .. Len(S) BY LenProperties
<1>2. ASSUME NEW s \in DOMAIN S PROVE S[s] \in SessType BY <1>1, ElementOfSeq
<1>q. QED BY <1>1, <1>2 DEF SessType

LEMMA FilesAre ==
  ASSUME NEW F \in FilesType
  PROVE  F.tasks \in Nat /\ F.ticked \in SUBSET Nat /\ F.request \in RequestStates
BY DEF FilesType

LEMMA PastIs ==
  ASSUME NEW p \in PastType
  PROVE  p.crashes \in Nat /\ p.tries \in Nat /\ p.reviews \in Nat
BY DEF PastType

LEMMA PromptedIs ==
  ASSUME CrashTypes
  PROVE  Prompted \subseteq DOMAIN sess /\ IsFiniteSet(Prompted) /\ Cardinality(Prompted) \in Nat
<1>1. Len(sess) \in Nat /\ DOMAIN sess = 1 .. Len(sess) BY SessAre DEF CrashTypes
<1>2. IsFiniteSet(DOMAIN sess) BY <1>1, FS_Interval
<1>3. Prompted \subseteq DOMAIN sess BY DEF Prompted
<1>q. QED BY <1>2, <1>3, FS_Subset, FS_CardinalityType

(* A step entered is one of which nothing was done yet.                    *)
EnteredTo(q, s) ==
  /\ q \in RunType /\ q.step = s /\ (q.waiting <=> s \in SessionStep) /\ q.session = 0
  /\ q.prompted = FALSE /\ q.stopped = FALSE

Entry(r, s, n, c) ==
  [r EXCEPT !.step = s, !.attempt = n, !.waiting = c, !.session = 0, !.prompted = FALSE, !.nudged = 0,
            !.stopped = FALSE]

IsEntry(q, r, s, c) ==
  /\ q \in RunType /\ q.step = s /\ q.waiting = c /\ q.session = 0
  /\ q.prompted = FALSE /\ q.stopped = FALSE /\ q.revisions = r.revisions

LEMMA EntryIs ==
  ASSUME NEW r \in RunType, NEW s \in RunSteps, NEW n \in Nat, NEW c \in BOOLEAN, NEW q, q = Entry(r, s, n, c)
  PROVE  IsEntry(q, r, s, c)
<1>1. q \in RunType BY DEF RunType, Entry
<1>2. /\ q.step = s /\ q.waiting = c /\ q.session = 0
      /\ q.prompted = FALSE /\ q.stopped = FALSE /\ q.revisions = r.revisions
  BY DEF RunType, Entry
<1>q. QED BY <1>1, <1>2 DEF IsEntry

LEMMA EnterStepIs ==
  ASSUME NEW r \in RunType, NEW s \in RunSteps, NEW fresh \in BOOLEAN, NEW q, q = EnterStep(r, s, fresh)
  PROVE  EnteredTo(q, s) /\ q.revisions = r.revisions
<1> DEFINE n == IF fresh THEN 0 ELSE r.attempt
           c == s \in SessionStep
<1>1. n \in Nat BY RunFields
<1>2. c \in BOOLEAN /\ (c <=> s \in SessionStep) OBVIOUS
<1>3. q = Entry(r, s, n, c) BY DEF EnterStep, Entry
<1> HIDE DEF n, c
<1>4. /\ q \in RunType /\ q.step = s /\ q.waiting = c /\ q.session = 0
      /\ q.prompted = FALSE /\ q.stopped = FALSE /\ q.revisions = r.revisions
  <2>1. IsEntry(q, r, s, c) BY <1>1, <1>2, <1>3, EntryIs
  <2>q. QED BY <2>1 DEF IsEntry
<1>5. q.waiting <=> s \in SessionStep BY <1>2, <1>4, Zenon
<1>q. QED BY <1>4, <1>5 DEF EnteredTo

LEMMA StepFailedIs ==
  ASSUME NEW r \in RunType, NEW q, q = StepFailed(r)
  PROVE  EnteredTo(q, "failed") \/ (EnteredTo(q, r.step) /\ q.revisions = r.revisions)
<1> DEFINE n == r.attempt + 1
           f == [r EXCEPT !.attempt = n]
<1>1. n \in Nat /\ r.step \in RunSteps /\ "failed" \in RunSteps BY RunFields DEF RunSteps, EndedStep
<1>2. q = EnterStep(r, "failed", TRUE) \/ q = EnterStep(f, r.step, FALSE) BY DEF StepFailed
<1> HIDE DEF n
<1>3. f \in RunType /\ f.revisions = r.revisions BY <1>1 DEF RunType
<1> HIDE DEF f
<1>4. CASE q = EnterStep(r, "failed", TRUE) BY <1>1, <1>4, EnterStepIs
<1>5. CASE q = EnterStep(f, r.step, FALSE)
  <2>1. EnteredTo(q, r.step) /\ q.revisions = f.revisions BY <1>1, <1>3, <1>5, EnterStepIs
  <2>q. QED BY <1>3, <2>1
<1>q. QED BY <1>2, <1>4, <1>5

(* What must be true of the world for a step to be entered.                *)
MayEnter(r, F, G) ==
  /\ r.step = "work" => UntickedOf(F) # {}
  /\ r.step = "revise" => r.revisions < RunMaxRevisions
  /\ r.step = "done" => G.merged

LEMMA EnteredFits ==
  ASSUME NEW q, NEW s, EnteredTo(q, s), NEW S \in Seq(SessType), NEW F, NEW G, MayEnter(q, F, G)
  PROVE  RunFits(q, S, F, G)
<1>1. Len(S) \in Nat BY SessAre
<1>q. QED BY <1>1 DEF RunFits, EnteredTo, MayEnter, WasJudged

(* The world goes on under a run that stays as it is.                      *)
Forward(S, T) ==
  /\ S \in Seq(SessType) /\ T \in Seq(SessType) /\ Len(S) <= Len(T)
  /\ \A s \in DOMAIN S : (S[s].log # <<>> => T[s].log # <<>>) /\ (S[s].wrote => T[s].wrote)

LEMMA FitsOn ==
  ASSUME NEW r \in RunType, NEW S, NEW T, Forward(S, T), NEW F, NEW E, NEW G, NEW H,
         RunFits(r, S, F, G), F.tasks \in Nat, E.tasks \in Nat, F.tasks <= E.tasks,
         r.step = "work" /\ ~WasJudged(r, T) /\ UntickedOf(F) # {} => UntickedOf(E) # {},
         G.merged => H.merged
  PROVE  RunFits(r, T, E, H)
<1>1. Len(S) \in Nat /\ Len(T) \in Nat /\ DOMAIN S = 1 .. Len(S) /\ Len(S) <= Len(T) BY SessAre DEF Forward
<1>2. r.session \in 0..Len(S) /\ r.session \in Nat BY RunFields DEF RunFits
<1>3. r.session # 0 => r.session \in DOMAIN S BY <1>1, <1>2
<1>4. r.session \in 0..Len(T) BY <1>1, <1>2
<1>5. r.prompted => r.session # 0 /\ T[r.session].log # <<>> BY <1>3 DEF RunFits, Forward
<1>6. WasJudged(r, S) => WasJudged(r, T) BY <1>3 DEF WasJudged, Forward
<1>7. r.step = "work" /\ ~WasJudged(r, T) => UntickedOf(E) # {} BY <1>6 DEF RunFits
<1>8. r.step = "work" /\ r.prompted => r.task \in 1..E.tasks
  <2>1. r.task \in Nat BY RunFields
  <2>2. r.step = "work" /\ r.prompted => r.task \in 1..F.tasks BY DEF RunFits
  <2>q. QED BY <2>1, <2>2
<1>q. QED BY <1>4, <1>5, <1>7, <1>8 DEF RunFits

LEMMA ForwardSame ==
  ASSUME NEW S \in Seq(SessType)
  PROVE  Forward(S, S)
BY SessAre DEF Forward

LEMMA SessPut ==
  ASSUME NEW S \in Seq(SessType), NEW s \in DOMAIN S, NEW x \in SessType, NEW T, T = [S EXCEPT ![s] = x]
  PROVE  /\ T \in Seq(SessType) /\ Len(T) = Len(S) /\ DOMAIN T = DOMAIN S
         /\ T[s] = x /\ \A i \in DOMAIN S \ {s} : T[i] = S[i]
BY ExceptSeq

LEMMA ForwardPut ==
  ASSUME NEW S \in Seq(SessType), NEW s \in DOMAIN S, NEW x \in SessType, NEW T, T = [S EXCEPT ![s] = x],
         S[s].log # <<>> => x.log # <<>>, S[s].wrote => x.wrote
  PROVE  Forward(S, T)
<1>1. /\ T \in Seq(SessType) /\ Len(T) = Len(S) /\ DOMAIN T = DOMAIN S
      /\ T[s] = x /\ \A i \in DOMAIN S \ {s} : T[i] = S[i]
  BY SessPut
<1>2. Len(S) \in Nat BY SessAre
<1>q. QED BY <1>1, <1>2 DEF Forward

-----------------------------------------------------------------------------
(* A step is left for another: nothing of it is at work, and a try of a    *)
(* session is counted as it begins.                                        *)
LEMMA MovesOn ==
  ASSUME CrashInv, NEW s, EnteredTo(mem', s), at' = "save", disk' = disk, sess' = sess,
         mem.session = 0 \/ sess[mem.session].state # "running",
         files' \in FilesType, files'.ticked \subseteq 1..files'.tasks, github' \in GithubType,
         RunFits(disk, sess, files', github'), MayEnter(mem', files', github'),
         past' \in PastType, past'.tries >= past.tries,
         s \in SessionStep => past'.tries > past.tries
  PROVE  CrashInv'
<1>1. /\ sess \in Seq(SessType) /\ mem \in RunType /\ disk \in RunType /\ past \in PastType
      /\ past.tries \in Nat /\ past'.tries \in Nat /\ DOMAIN sess = 1 .. Len(sess) /\ Len(sess) \in Nat
  BY SessAre, PastIs DEF CrashInv, CrashTypes
<1>2. CrashTypes' BY <1>1 DEF CrashTypes, Places, EnteredTo
<1>3. RunFits(mem', sess', files', github') BY <1>1, EnteredFits
<1>4. AtFits' BY DEF AtFits
<1>5. ASSUME NEW x \in DOMAIN sess PROVE sess[x].state # "running" BY <1>1 DEF CrashInv, SessFits
<1>6. SessFits' BY <1>5 DEF SessFits
<1>7. Prompted' = Prompted BY DEF Prompted
<1>8. Cardinality(Prompted) \in Nat BY PromptedIs DEF CrashInv
<1>9. Unused(mem', sess) => s \in SessionStep BY DEF Unused, EnteredTo
<1>10. TriesFit' BY <1>1, <1>7, <1>8, <1>9 DEF CrashInv, TriesFit
<1>q. QED BY <1>2, <1>3, <1>4, <1>6, <1>10 DEF CrashInv

LEMMA MovesCounts ==
  ASSUME NEW r, NEW s, EnteredTo(r, s), Moves(r), past \in PastType
  PROVE  /\ mem' = r /\ at' = "save" /\ past' \in PastType /\ past'.tries >= past.tries
         /\ s \in SessionStep => past'.tries > past.tries
<1> DEFINE n == past.tries + 1
<1>1. past.tries \in Nat /\ n \in Nat /\ n > past.tries BY PastIs
<1>2. CASE r.step \in SessionStep /\ r.waiting
  <2>1. past' = [past EXCEPT !.tries = n] BY <1>2 DEF Moves
  <2> HIDE DEF n
  <2>2. past' \in PastType /\ past'.tries = n BY <1>1, <2>1 DEF PastType
  <2>q. QED BY <1>1, <2>2 DEF Moves
<1>3. CASE ~(r.step \in SessionStep /\ r.waiting)
  <2>1. past' = past /\ s \notin SessionStep BY <1>3 DEF Moves, EnteredTo
  <2>q. QED BY <1>1, <2>1 DEF Moves
<1>q. QED BY <1>2, <1>3

(* A handler that moves on and leaves the world but for its files and what *)
(* is on GitHub.                                                           *)
LEMMA HandlerMoves ==
  ASSUME CrashInv, NEW r, NEW s, EnteredTo(r, s), Moves(r), disk' = disk, sess' = sess,
         mem.session = 0 \/ sess[mem.session].state # "running",
         files' \in FilesType, files'.ticked = files.ticked, files'.tasks = files.tasks,
         github' \in GithubType, github.merged => github'.merged,
         MayEnter(r, files, github')
  PROVE  CrashInv'
<1>1. past \in PastType /\ disk \in RunType /\ sess \in Seq(SessType) /\ files.tasks \in Nat
  BY FilesAre DEF CrashInv, CrashTypes
<1>2. /\ mem' = r /\ at' = "save" /\ past' \in PastType /\ past'.tries >= past.tries
      /\ s \in SessionStep => past'.tries > past.tries
  BY <1>1, MovesCounts
<1>3. UntickedOf(files') = UntickedOf(files) BY DEF UntickedOf
<1>4. RunFits(disk, sess, files', github')
  <2>1. Forward(sess, sess) BY <1>1, ForwardSame
  <2>2. RunFits(disk, sess, files, github) /\ files.tasks <= files'.tasks BY <1>1 DEF CrashInv
  <2>q. QED BY <1>1, <1>3, <2>1, <2>2, FitsOn
<1>5. MayEnter(mem', files', github') BY <1>2, <1>3 DEF MayEnter
<1>6. files'.ticked \subseteq 1..files'.tasks BY DEF CrashInv, CrashTypes
<1>q. QED BY <1>2, <1>4, <1>5, <1>6, MovesOn

(* The same step again, or the end.                                        *)
LEMMA FailsOn ==
  ASSUME CrashInv, Moves(StepFailed(mem)), disk' = disk, sess' = sess,
         mem.session = 0 \/ sess[mem.session].state # "running",
         files' \in FilesType, files'.ticked = files.ticked, files'.tasks = files.tasks,
         github' \in GithubType, github.merged => github'.merged,
         mem.step = "work" => UntickedOf(files) # {}, mem.step # "done"
  PROVE  CrashInv'
<1>1. mem \in RunType BY DEF CrashInv, CrashTypes
<1> DEFINE r == StepFailed(mem)
<1>2. EnteredTo(r, "failed") \/ (EnteredTo(r, mem.step) /\ r.revisions = mem.revisions)
  BY <1>1, StepFailedIs
<1>r. Moves(r) OBVIOUS
<1> HIDE DEF r
<1>3. CASE EnteredTo(r, "failed")
  <2>1. MayEnter(r, files, github') BY <1>3 DEF MayEnter, EnteredTo
  <2>q. QED BY <1>r, <1>3, <2>1, HandlerMoves
<1>4. CASE EnteredTo(r, mem.step) /\ r.revisions = mem.revisions
  <2>1. MayEnter(r, files, github') BY <1>4 DEF MayEnter, EnteredTo, CrashInv, RunFits
  <2>q. QED BY <1>r, <1>4, <2>1, HandlerMoves
<1>q. QED BY <1>2, <1>3, <1>4

-----------------------------------------------------------------------------
(* The steps the runner does itself. *)

LEMMA OwnStep ==
  ASSUME CrashInv, mem.step \notin SessionStep
  PROVE  /\ mem.session = 0 /\ mem \in RunType /\ files \in FilesType /\ github \in GithubType
         /\ past \in PastType /\ sess \in Seq(SessType)
BY DEF CrashInv, CrashTypes, RunFits

LEMMA OwnStepFailsKeeps == CrashInv /\ OwnStepFails => CrashInv'
<1> SUFFICES ASSUME CrashInv, OwnStepFails PROVE CrashInv' OBVIOUS
<1>1. mem.step \notin SessionStep /\ mem.step # "work" /\ mem.step # "done" BY DEF OwnStepFails, SessionStep
<1>q. QED BY <1>1, OwnStep, FailsOn DEF OwnStepFails

LEMMA RunCheckKeeps == CrashInv /\ RunCheck => CrashInv'
<1> SUFFICES ASSUME CrashInv, RunCheck PROVE CrashInv' OBVIOUS
<1>1. mem.step \notin SessionStep BY DEF RunCheck, SessionStep
<1>2. PICK passed \in BOOLEAN : Moves(AfterRunCheck(mem, passed)) BY DEF RunCheck
<1>w. /\ mem.session = 0 /\ mem \in RunType /\ files' \in FilesType /\ files' = files
      /\ github' \in GithubType /\ github' = github /\ disk' = disk /\ sess' = sess
  BY <1>1, OwnStep DEF RunCheck
<1> DEFINE r == AfterRunCheck(mem, passed)
           n == mem.fixes + 1
           f == [mem EXCEPT !.fixes = n]
<1>r. Moves(r) BY <1>2
<1>s. {"pr", "final-review", "failed", "fix"} \subseteq RunSteps BY DEF RunSteps, SessionStep, EndedStep
<1>3. \/ r = EnterStep(mem, "pr", TRUE) \/ r = EnterStep(mem, "final-review", TRUE)
      \/ r = EnterStep(mem, "failed", TRUE)
      \/ ~(mem.fixes >= RunMaxFixes) /\ r = EnterStep(f, "fix", TRUE)
  BY DEF AfterRunCheck
<1> HIDE DEF r
<1>4. ASSUME NEW s \in {"pr", "final-review", "failed", "fix"}, EnteredTo(r, s) PROVE CrashInv'
  <2>1. MayEnter(r, files, github') BY <1>4 DEF MayEnter, EnteredTo
  <2>q. QED BY <1>r, <1>w, <1>4, <2>1, HandlerMoves
<1>5. ASSUME NEW s \in {"pr", "final-review", "failed"}, r = EnterStep(mem, s, TRUE) PROVE CrashInv'
  <2>1. EnteredTo(r, s) BY <1>s, <1>w, <1>5, EnterStepIs
  <2>q. QED BY <1>4, <2>1
<1>6. CASE ~(mem.fixes >= RunMaxFixes) /\ r = EnterStep(f, "fix", TRUE)
  <2>1. n \in 0..RunMaxFixes BY <1>w, <1>6, RunFields, RunCaps
  <2> HIDE DEF n
  <2>2. f \in RunType BY <1>w, <2>1 DEF RunType
  <2> HIDE DEF f
  <2>3. EnteredTo(r, "fix") BY <1>s, <1>6, <2>2, EnterStepIs
  <2>q. QED BY <1>4, <2>3
<1>q. QED BY <1>3, <1>5, <1>6

LEMMA ReviseKeeps == CrashInv /\ Revise => CrashInv'
<1> SUFFICES ASSUME CrashInv, Revise PROVE CrashInv' OBVIOUS
<1>1. mem.step = "revise" /\ mem.step \notin SessionStep BY DEF Revise, SessionStep
<1>2. /\ mem.session = 0 /\ mem \in RunType /\ files \in FilesType /\ github' \in GithubType
      /\ github' = github /\ disk' = disk /\ sess' = sess
  BY <1>1, OwnStep DEF Revise
<1>3. files' \in FilesType /\ files'.ticked = files.ticked /\ files'.tasks = files.tasks
  BY <1>2 DEF Revise, FilesType, RequestStates
<1> DEFINE n == mem.revisions + 1
           f == [mem EXCEPT !.revisions = n]
           r == EnterStep(f, "check", TRUE)
<1>4. n \in 0..RunMaxRevisions
  <2>1. mem.revisions < RunMaxRevisions BY <1>1 DEF CrashInv, RunFits
  <2>q. QED BY <1>2, <2>1, RunFields, RunCaps
<1>5. Moves(r) BY DEF Revise
<1> HIDE DEF n
<1>6. f \in RunType BY <1>2, <1>4 DEF RunType
<1> HIDE DEF f
<1>7. EnteredTo(r, "check")
  <2>1. "check" \in RunSteps BY DEF RunSteps
  <2>q. QED BY <1>6, <2>1, EnterStepIs
<1> HIDE DEF r
<1>8. MayEnter(r, files, github') BY <1>7 DEF MayEnter, EnteredTo
<1>q. QED BY <1>2, <1>3, <1>5, <1>7, <1>8, HandlerMoves

LEMMA FinalReviewKeeps == CrashInv /\ FinalReview => CrashInv'
<1> SUFFICES ASSUME CrashInv, FinalReview PROVE CrashInv' OBVIOUS
<1>1. mem.step = "final-review" /\ mem.step \notin SessionStep BY DEF FinalReview, SessionStep
<1>2. /\ mem.session = 0 /\ mem \in RunType /\ files \in FilesType /\ github' \in GithubType
      /\ github' = github /\ disk' = disk /\ sess' = sess /\ past \in PastType /\ sess \in Seq(SessType)
      /\ github \in GithubType
  BY <1>1, OwnStep DEF FinalReview
<1> DEFINE f == [mem EXCEPT !.reviewed = TRUE]
<1>3. f \in RunType BY <1>2 DEF RunType
<1>4. CASE /\ files' = [files EXCEPT !.tasks = @ + 1]
           /\ mem' = EnterStep(f, "work", TRUE) /\ at' = "save"
           /\ past' = [past EXCEPT !.tries = @ + 1, !.reviews = @ + 1]
  <2> HIDE DEF f
  <2>1. EnteredTo(mem', "work")
    <3>1. "work" \in RunSteps BY DEF RunSteps, SessionStep
    <3>q. QED BY <1>3, <1>4, <3>1, EnterStepIs
  <2>2. past' \in PastType /\ past'.tries = past.tries + 1 /\ past.tries \in Nat
    <3> DEFINE a == past.tries + 1
               b == past.reviews + 1
    <3>1. a \in Nat /\ b \in Nat /\ past.tries \in Nat BY <1>2, PastIs
    <3>2. past' = [past EXCEPT !.tries = a, !.reviews = b] BY <1>4
    <3> HIDE DEF a, b
    <3>3. past' \in PastType /\ past'.tries = a BY <1>2, <3>1, <3>2 DEF PastType
    <3>q. QED BY <3>1, <3>3 DEF a
  <2>3. files' \in FilesType /\ files'.ticked = files.ticked /\ files'.tasks = files.tasks + 1 /\ files.tasks \in Nat
    <3> DEFINE a == files.tasks + 1
    <3>1. a \in Nat /\ files.tasks \in Nat BY <1>2, FilesAre
    <3>2. files' = [files EXCEPT !.tasks = a] BY <1>4
    <3> HIDE DEF a
    <3>3. files' \in FilesType /\ files'.ticked = files.ticked /\ files'.tasks = a BY <1>2, <3>1, <3>2 DEF FilesType
    <3>q. QED BY <3>1, <3>3 DEF a
  <2>4. files.ticked \subseteq 1..files.tasks BY DEF CrashInv, CrashTypes
  <2>5. files'.ticked \subseteq 1..files'.tasks BY <2>3, <2>4
  <2>6. files.tasks + 1 \in UntickedOf(files') BY <2>3, <2>4 DEF UntickedOf
  <2>7. MayEnter(mem', files', github') BY <2>1, <2>6 DEF MayEnter, EnteredTo
  <2>8. RunFits(disk, sess, files', github')
    <3>1. Forward(sess, sess) BY <1>2, ForwardSame
    <3>2. RunFits(disk, sess, files, github) /\ disk \in RunType BY DEF CrashInv, CrashTypes
    <3>q. QED BY <1>2, <2>3, <2>6, <3>1, <3>2, FitsOn
  <2>9. past'.tries >= past.tries /\ past'.tries > past.tries BY <2>2
  <2>q. QED BY <1>2, <1>4, <2>1, <2>2, <2>3, <2>5, <2>7, <2>8, <2>9, MovesOn
<1>5. CASE Moves(EnterStep(f, "pr", TRUE)) /\ files' = files
  <2> DEFINE r == EnterStep(f, "pr", TRUE)
  <2>r. Moves(r) BY <1>5
  <2> HIDE DEF f
  <2>1. EnteredTo(r, "pr")
    <3>1. "pr" \in RunSteps BY DEF RunSteps
    <3>q. QED BY <1>3, <3>1, EnterStepIs
  <2> HIDE DEF r
  <2>2. MayEnter(r, files, github') BY <2>1 DEF MayEnter, EnteredTo
  <2>q. QED BY <1>2, <1>5, <2>r, <2>1, <2>2, HandlerMoves
<1>q. QED BY <1>4, <1>5 DEF FinalReview

LEMMA OpenRunPRKeeps == CrashInv /\ OpenRunPR => CrashInv'
<1> SUFFICES ASSUME CrashInv, OpenRunPR PROVE CrashInv' OBVIOUS
<1>1. mem.step \notin SessionStep BY DEF OpenRunPR, SessionStep
<1>2. /\ mem.session = 0 /\ mem \in RunType /\ files' \in FilesType /\ files' = files
      /\ disk' = disk /\ sess' = sess /\ github \in GithubType
  BY <1>1, OwnStep DEF OpenRunPR
<1>3. github' \in GithubType /\ github'.merged = github.merged
  <2> DEFINE n == IF github.opened = 0 THEN 1 ELSE github.opened
  <2>1. n \in 0..1 BY <1>2 DEF GithubType
  <2>2. github' = [github EXCEPT !.opened = n] BY DEF OpenRunPR
  <2> HIDE DEF n
  <2>q. QED BY <1>2, <2>1, <2>2 DEF GithubType
<1> DEFINE r == EnterStep(mem, "merge", TRUE)
<1>4. Moves(r) BY DEF OpenRunPR
<1>5. EnteredTo(r, "merge")
  <2>1. "merge" \in RunSteps BY DEF RunSteps
  <2>q. QED BY <1>2, <2>1, EnterStepIs
<1> HIDE DEF r
<1>6. MayEnter(r, files, github') BY <1>5 DEF MayEnter, EnteredTo
<1>q. QED BY <1>2, <1>3, <1>4, <1>5, <1>6, HandlerMoves

LEMMA MergePRKeeps == CrashInv /\ MergePR => CrashInv'
<1> SUFFICES ASSUME CrashInv, MergePR PROVE CrashInv' OBVIOUS
<1>1. mem.step \notin SessionStep /\ mem.step = "merge" BY DEF MergePR, SessionStep
<1>2. /\ mem.session = 0 /\ mem \in RunType /\ files' \in FilesType /\ files' = files
      /\ disk' = disk /\ sess' = sess /\ github \in GithubType
  BY <1>1, OwnStep DEF MergePR
<1>3. github' \in GithubType /\ github'.merged = TRUE BY <1>2 DEF MergePR, GithubType
<1>4. CASE Moves(EnterStep(mem, "done", TRUE))
  <2> DEFINE r == EnterStep(mem, "done", TRUE)
  <2>r. Moves(r) BY <1>4
  <2>1. EnteredTo(r, "done")
    <3>1. "done" \in RunSteps BY DEF RunSteps, EndedStep
    <3>q. QED BY <1>2, <3>1, EnterStepIs
  <2> HIDE DEF r
  <2>2. MayEnter(r, files, github') BY <1>3, <2>1 DEF MayEnter, EnteredTo
  <2>q. QED BY <1>2, <1>3, <2>r, <2>1, <2>2, HandlerMoves
<1>5. CASE Moves(StepFailed(mem)) BY <1>1, <1>2, <1>3, <1>5, FailsOn
<1>q. QED BY <1>4, <1>5 DEF MergePR

-----------------------------------------------------------------------------
(* Saving, and losing what was not saved. *)

LEMMA SaveRunStateKeeps == CrashInv /\ SaveRunState => CrashInv'
<1> SUFFICES ASSUME CrashInv, SaveRunState PROVE CrashInv' OBVIOUS
<1>1. /\ disk' = mem /\ mem' = mem /\ at' = "tick" /\ sess' = sess /\ files' = files /\ github' = github
      /\ past' = past
  BY DEF SaveRunState
<1>2. CrashTypes' BY <1>1 DEF CrashInv, CrashTypes, Places
<1>3. RunFits(mem, sess, files, github)' /\ RunFits(disk, sess, files, github)' BY <1>1 DEF CrashInv
<1>4. AtFits' BY <1>1 DEF AtFits
<1>5. SessFits' BY <1>1 DEF CrashInv, SessFits
<1>6. TriesFit' BY <1>1 DEF CrashInv, TriesFit, Prompted
<1>q. QED BY <1>2, <1>3, <1>4, <1>5, <1>6 DEF CrashInv

LEMMA SaveSessionIdKeeps == CrashInv /\ SaveSessionId => CrashInv'
<1> SUFFICES ASSUME CrashInv, SaveSessionId PROVE CrashInv' OBVIOUS
<1>1. /\ disk' = mem /\ mem' = mem /\ at' = "prompt" /\ at = "created" /\ sess' = sess /\ files' = files
      /\ github' = github /\ past' = past
  BY DEF SaveSessionId
<1>2. CrashTypes' BY <1>1 DEF CrashInv, CrashTypes, Places
<1>3. RunFits(mem, sess, files, github)' /\ RunFits(disk, sess, files, github)' BY <1>1 DEF CrashInv
<1>4. AtFits' BY <1>1 DEF CrashInv, AtFits
<1>5. SessFits' BY <1>1 DEF CrashInv, SessFits
<1>6. TriesFit' BY <1>1 DEF CrashInv, TriesFit, Prompted
<1>q. QED BY <1>2, <1>3, <1>4, <1>5, <1>6 DEF CrashInv

LEMMA RunnerCrashKeeps == CrashInv /\ RunnerCrash => CrashInv'
<1> SUFFICES ASSUME CrashInv, RunnerCrash PROVE CrashInv' OBVIOUS
<1>1. /\ disk' = disk /\ mem' = disk /\ at' = "tick" /\ sess' = sess /\ files' = files /\ github' = github
      /\ past \in PastType
  BY DEF RunnerCrash, CrashInv, CrashTypes
<1>2. past' \in PastType /\ past'.tries = past.tries
  <2> DEFINE n == past.crashes + 1
  <2>1. n \in Nat BY <1>1, PastIs
  <2>2. past' = [past EXCEPT !.crashes = n] BY DEF RunnerCrash
  <2> HIDE DEF n
  <2>q. QED BY <1>1, <2>1, <2>2 DEF PastType
<1>3. CrashTypes' BY <1>1, <1>2 DEF CrashInv, CrashTypes, Places
<1>4. RunFits(mem, sess, files, github)' /\ RunFits(disk, sess, files, github)' BY <1>1 DEF CrashInv
<1>5. AtFits' BY <1>1 DEF AtFits
<1>6. SessFits' BY <1>1 DEF CrashInv, SessFits
<1>7. TriesFit' BY <1>1, <1>2 DEF CrashInv, TriesFit, Prompted
<1>q. QED BY <1>3, <1>4, <1>5, <1>6, <1>7 DEF CrashInv

-----------------------------------------------------------------------------
(* The session of a step. *)

LEMMA SessionThere ==
  ASSUME CrashInv, mem.step \in SessionStep, mem.session # 0
  PROVE  /\ mem.session \in DOMAIN sess /\ sess[mem.session] \in SessType /\ mem \in RunType
         /\ mem.waiting = FALSE /\ sess \in Seq(SessType) /\ files \in FilesType
<1>1. /\ sess \in Seq(SessType) /\ mem \in RunType /\ mem.session \in 0..Len(sess) /\ mem.waiting \in BOOLEAN
      /\ files \in FilesType
  BY RunFields DEF CrashInv, CrashTypes, RunFits
<1>2. mem.session \in DOMAIN sess BY <1>1, SessAre
<1>3. ~mem.waiting BY DEF CrashInv, RunFits
<1>q. QED BY <1>1, <1>2, <1>3, SessAre

LEMMA OpenSessionKeeps == CrashInv /\ OpenSession => CrashInv'
<1> SUFFICES ASSUME CrashInv, OpenSession PROVE CrashInv' OBVIOUS
<1> DEFINE n == Len(sess) + 1
<1>1. /\ disk' = disk /\ at' = "created" /\ files' = files /\ github' = github /\ past' = past
      /\ sess' = Append(sess, NewSession) /\ mem' = [mem EXCEPT !.session = n, !.waiting = FALSE]
      /\ mem.step \in SessionStep /\ mem.waiting /\ mem \in RunType /\ disk \in RunType
      /\ sess \in Seq(SessType) /\ files \in FilesType
  BY DEF OpenSession, CrashInv, CrashTypes
<1>2. Len(sess) \in Nat /\ DOMAIN sess = 1 .. Len(sess) /\ n \in Nat /\ n # 0 /\ n \in 0..n BY <1>1, SessAre
<1>3. NewSession \in SessType /\ NewSession.log = <<>> /\ NewSession.state = "idle"
  BY DEF NewSession, SessType, Logs, SessStates
<1>4. /\ sess' \in Seq(SessType) /\ Len(sess') = n /\ sess'[n] = NewSession
      /\ \A i \in DOMAIN sess : sess'[i] = sess[i]
  BY <1>1, <1>2, <1>3, AppendProperties
<1>5. DOMAIN sess' = DOMAIN sess \cup {n}
  <2>1. DOMAIN sess' = 1..n BY <1>4, SessAre
  <2>q. QED BY <1>2, <2>1
<1>6. Forward(sess, sess') BY <1>1, <1>2, <1>4 DEF Forward
<1> HIDE DEF n
<1>7. /\ mem' \in RunType /\ mem'.session = n /\ mem'.waiting = FALSE /\ mem'.step = mem.step
      /\ mem'.prompted = mem.prompted /\ mem'.stopped = mem.stopped /\ mem'.task = mem.task
      /\ mem'.revisions = mem.revisions
  BY <1>1, <1>2 DEF RunType
<1>8. mem.session = 0 /\ ~mem.prompted /\ ~mem.stopped /\ (mem.step = "work" => UntickedOf(files) # {})
  BY <1>1 DEF CrashInv, RunFits, WasJudged
<1>9. RunFits(mem', sess', files', github')
  BY <1>1, <1>2, <1>4, <1>7, <1>8 DEF RunFits, WasJudged, SessionStep
<1>10. RunFits(disk, sess', files', github')
  <2>1. RunFits(disk, sess, files, github) BY DEF CrashInv
  <2>2. files.tasks \in Nat /\ files.tasks <= files.tasks BY <1>1, FilesAre
  <2>q. QED BY <1>1, <1>6, <2>1, <2>2, FitsOn
<1>11. CrashTypes' BY <1>1, <1>4, <1>7 DEF CrashInv, CrashTypes, Places
<1>12. AtFits' BY <1>1, <1>2, <1>7, <1>8 DEF AtFits
<1>13. SessFits'
  <2>1. ASSUME NEW s \in DOMAIN sess' PROVE sess'[s].state # "running"
    <3>1. CASE s = n BY <1>3, <1>4, <3>1
    <3>2. CASE s # n
      <4>1. s \in DOMAIN sess /\ s # 0 /\ sess'[s] = sess[s] BY <1>2, <1>4, <1>5, <3>2
      <4>q. QED BY <1>8, <4>1 DEF CrashInv, SessFits
    <3>q. QED BY <3>1, <3>2
  <2>q. QED BY <2>1 DEF SessFits
<1>14. Prompted' = Prompted
  <2>1. sess'[n].log = <<>> BY <1>3, <1>4
  <2>q. QED BY <1>4, <1>5, <2>1 DEF Prompted
<1>15. TriesFit'
  <2>1. Unused(mem, sess) BY <1>1, <1>8 DEF Unused
  <2>q. QED BY <1>1, <1>14, <2>1 DEF CrashInv, TriesFit
<1>q. QED BY <1>1, <1>9, <1>10, <1>11, <1>12, <1>13, <1>15 DEF CrashInv

LEMMA ToldIs ==
  ASSUME NEW s \in SessType, NEW m \in {"prompt", "nudge"}, NEW q, q = Told(s, m)
  PROVE  /\ q \in SessType /\ q.log # <<>> /\ q.wrote = s.wrote
<1>l. s.log \in Logs BY DEF SessType
<1>1. CASE m \in {s.log[i] : i \in DOMAIN s.log}
  <2>1. q = s BY <1>1 DEF Told
  <2>2. s.log # <<>> BY <1>1
  <2>q. QED BY <2>1, <2>2
<1>2. CASE m \notin {s.log[i] : i \in DOMAIN s.log}
  <2> DEFINE l == Append(s.log, m)
  <2>1. l \in Logs /\ l # <<>> BY <1>l DEF Logs
  <2>2. q = [s EXCEPT !.log = l, !.state = "running"] BY <1>2 DEF Told
  <2> HIDE DEF l
  <2>q. QED BY <2>1, <2>2 DEF SessType, SessStates
<1>q. QED BY <1>1, <1>2

(* The session is told something and the run goes on with it.              *)
LEMMA Tells ==
  ASSUME CrashInv, mem.step \in SessionStep, mem.session # 0, mem = disk,
         NEW m \in {"prompt", "nudge"}, sess' = [sess EXCEPT ![mem.session] = Told(@, m)],
         mem' \in RunType, mem'.session = mem.session, mem'.step = mem.step, mem'.waiting = mem.waiting,
         mem'.prompted = TRUE, mem'.stopped = mem.stopped, mem'.revisions = mem.revisions,
         mem.step = "work" => mem'.task \in 1..files.tasks,
         at' = "save", UNCHANGED <<disk, files, github, past>>
  PROVE  CrashInv'
<1> DEFINE i == mem.session
           x == Told(sess[i], m)
<1>1. /\ i \in DOMAIN sess /\ sess[i] \in SessType /\ sess \in Seq(SessType) /\ disk \in RunType
      /\ files.tasks \in Nat /\ past \in PastType
  BY SessionThere, FilesAre DEF CrashInv, CrashTypes
<1>2. x \in SessType /\ x.log # <<>> /\ x.wrote = sess[i].wrote BY <1>1, ToldIs
<1>x. sess' = [sess EXCEPT ![i] = x] OBVIOUS
<1> HIDE DEF x
<1>3. /\ sess' \in Seq(SessType) /\ Len(sess') = Len(sess) /\ DOMAIN sess' = DOMAIN sess
      /\ sess'[i] = x /\ \A s \in DOMAIN sess \ {i} : sess'[s] = sess[s]
  BY <1>1, <1>2, <1>x, SessPut
<1>4. Forward(sess, sess') BY <1>1, <1>2, <1>x, ForwardPut
<1>5. RunFits(disk, sess', files, github)
  <2>1. RunFits(disk, sess, files, github) /\ files.tasks <= files.tasks BY <1>1 DEF CrashInv
  <2>q. QED BY <1>1, <1>4, <2>1, FitsOn
<1>6. RunFits(mem', sess', files, github) BY <1>2, <1>3, <1>5 DEF RunFits, WasJudged
<1>7. CrashTypes' BY <1>3 DEF CrashInv, CrashTypes, Places
<1>8. AtFits' BY DEF AtFits
<1>9. SessFits'
  <2>1. ASSUME NEW s \in DOMAIN sess, sess'[s].state = "running" PROVE sess'[s].log # <<>> /\ s = i
    <3>1. CASE s = i BY <1>2, <1>3, <3>1
    <3>2. CASE s # i BY <1>3, <2>1, <3>2 DEF CrashInv, SessFits
    <3>q. QED BY <3>1, <3>2
  <2>q. QED BY <1>3, <2>1 DEF SessFits
<1>10. TriesFit'
  <2>1. IsFiniteSet(Prompted) /\ Cardinality(Prompted) \in Nat /\ past.tries \in Nat
    BY <1>1, PromptedIs, PastIs DEF CrashInv
  <2>2. ~Unused(mem', sess') /\ ~Unused(disk', sess') BY <1>2, <1>3 DEF Unused
  <2>3. CASE sess[i].log = <<>>
    <3>1. Prompted' \subseteq Prompted \cup {i} BY <1>3 DEF Prompted
    <3>2. Cardinality(Prompted') \in Nat /\ Cardinality(Prompted') <= Cardinality(Prompted) + 1
      <4>1. IsFiniteSet(Prompted \cup {i}) BY <2>1, FS_AddElement
      <4>2. Cardinality(Prompted \cup {i}) \in Nat /\ Cardinality(Prompted \cup {i}) <= Cardinality(Prompted) + 1
        <5>1. Cardinality(Prompted \cup {i}) = IF i \in Prompted THEN Cardinality(Prompted) ELSE Cardinality(Prompted) + 1
          BY <2>1, FS_AddElement
        <5>q. QED BY <2>1, <5>1
      <4>3. IsFiniteSet(Prompted') /\ Cardinality(Prompted') <= Cardinality(Prompted \cup {i})
        BY <3>1, <4>1, FS_Subset
      <4>4. Cardinality(Prompted') \in Nat BY <4>3, FS_CardinalityType
      <4>q. QED BY <2>1, <4>2, <4>3, <4>4
    <3>3. Cardinality(Prompted) < past.tries BY <2>3 DEF CrashInv, TriesFit, Unused
    <3>q. QED BY <2>1, <2>2, <3>2, <3>3 DEF TriesFit
  <2>4. CASE sess[i].log # <<>>
    <3>1. Prompted' = Prompted BY <1>2, <1>3, <2>4 DEF Prompted
    <3>q. QED BY <2>2, <3>1 DEF CrashInv, TriesFit
  <2>q. QED BY <2>3, <2>4
<1>q. QED BY <1>5, <1>6, <1>7, <1>8, <1>9, <1>10 DEF CrashInv

LEMMA LeastTask ==
  ASSUME NEW T \in SUBSET Nat, T # {}
  PROVE  \E x \in T : \A y \in T : x <= y
<1>1. PICK x \in T : \A y \in T : ~(<<y, x>> \in OpToRel(<, Nat))
  BY WFMin, NatLessThanWellFounded, Zenon
<1>2. ASSUME NEW y \in T, y < x PROVE FALSE
  <2>1. <<y, x>> \in OpToRel(<, Nat) BY <1>2, Zenon DEF OpToRel
  <2>q. QED BY <1>1, <2>1, Zenon
<1>3. x \in Nat /\ \A y \in T : y \in Nat /\ ~(y < x) BY <1>2, Zenon
<1> HIDE <1>1
<1>q. QED BY <1>3

LEMMA NextTaskIs ==
  ASSUME files \in FilesType, UntickedOf(files) # {}
  PROVE  NextTask \in 1..files.tasks
<1>1. UntickedOf(files) \in SUBSET Nat /\ UntickedOf(files) \subseteq 1..files.tasks
  BY FilesAre DEF UntickedOf
<1>2. \E x \in UntickedOf(files) : \A y \in UntickedOf(files) : x <= y BY <1>1, LeastTask
<1>3. NextTask \in UntickedOf(files) BY <1>2 DEF NextTask, UntickedOf
<1>q. QED BY <1>1, <1>3

LEMMA SendFirstKeeps == CrashInv /\ SendFirst => CrashInv'
<1> SUFFICES ASSUME CrashInv, SendFirst PROVE CrashInv' OBVIOUS
<1> DEFINE t == IF mem.step = "work" THEN NextTask ELSE mem.task
<1>1. /\ mem = disk /\ mem.step \in SessionStep /\ mem.session # 0 /\ ~mem.prompted
  BY DEF SendFirst, CrashInv, AtFits
<1>2. mem \in RunType /\ mem.waiting = FALSE /\ files \in FilesType BY <1>1, SessionThere
<1>3. mem.step = "work" => t \in 1..files.tasks
  <2>1. mem.step = "work" => UntickedOf(files) # {} BY <1>1 DEF CrashInv, RunFits, WasJudged
  <2>q. QED BY <1>2, <2>1, NextTaskIs
<1>4. t \in Nat BY <1>2, <1>3, RunFields, FilesAre
<1>5. mem' = [mem EXCEPT !.prompted = TRUE, !.task = t] BY DEF SendFirst
<1> HIDE DEF t
<1>6. /\ mem' \in RunType /\ mem'.session = mem.session /\ mem'.step = mem.step /\ mem'.waiting = mem.waiting
      /\ mem'.prompted = TRUE /\ mem'.stopped = mem.stopped /\ mem'.revisions = mem.revisions /\ mem'.task = t
  BY <1>2, <1>4, <1>5 DEF RunType
<1>q. QED BY <1>1, <1>3, <1>6, Tells DEF SendFirst

LEMMA ObservingThere ==
  ASSUME CrashInv, Observing
  PROVE  /\ mem = disk /\ mem.step \in SessionStep /\ mem.session # 0
         /\ mem.session \in DOMAIN sess /\ sess[mem.session] \in SessType /\ mem \in RunType
         /\ mem.waiting = FALSE /\ sess \in Seq(SessType) /\ files \in FilesType
<1>1. mem = disk /\ mem.step \in SessionStep /\ mem.session # 0 BY DEF Observing, CrashInv, AtFits, RunFits
<1>q. QED BY <1>1, SessionThere

LEMMA NudgeKeeps == CrashInv /\ Nudge => CrashInv'
<1> SUFFICES ASSUME CrashInv, Nudge PROVE CrashInv' OBVIOUS
<1> DEFINE n == Len(Session.log)
<1>1. /\ mem = disk /\ mem.step \in SessionStep /\ mem.session # 0 /\ mem \in RunType
      /\ sess[mem.session] \in SessType
  BY ObservingThere DEF Nudge
<1>2. n \in Nat
  <2>1. Session.log \in Logs BY <1>1 DEF Session, SessType
  <2>q. QED BY <2>1, LenProperties DEF Logs
<1>3. mem' = [mem EXCEPT !.nudged = n] /\ mem.prompted BY DEF Nudge
<1> HIDE DEF n
<1>4. /\ mem' \in RunType /\ mem'.session = mem.session /\ mem'.step = mem.step /\ mem'.waiting = mem.waiting
      /\ mem'.prompted = mem.prompted /\ mem'.stopped = mem.stopped /\ mem'.revisions = mem.revisions
      /\ mem'.task = mem.task
  BY <1>1, <1>2, <1>3 DEF RunType
<1>5. mem.step = "work" => mem'.task \in 1..files.tasks BY <1>3, <1>4 DEF CrashInv, RunFits
<1>6. mem'.prompted = TRUE BY <1>1, <1>3, <1>4, RunFields
<1>q. QED BY <1>1, <1>4, <1>5, <1>6, Tells DEF Nudge

LEMMA PromptLateKeeps == CrashInv /\ PromptLate => CrashInv'
<1> SUFFICES ASSUME CrashInv, PromptLate PROVE CrashInv' OBVIOUS
<1>1. /\ mem' = mem /\ disk' = disk /\ at' = "prompt" /\ sess' = sess /\ files' = files /\ github' = github
      /\ past' = past /\ ~mem.prompted
  BY DEF PromptLate
<1>2. mem = disk /\ mem.step \in SessionStep /\ mem.session # 0 BY ObservingThere DEF PromptLate
<1>3. CrashTypes' BY <1>1 DEF CrashInv, CrashTypes, Places
<1>4. RunFits(mem, sess, files, github)' /\ RunFits(disk, sess, files, github)' BY <1>1 DEF CrashInv
<1>5. AtFits' BY <1>1, <1>2 DEF AtFits
<1>6. SessFits' BY <1>1 DEF CrashInv, SessFits
<1>7. TriesFit' BY <1>1 DEF CrashInv, TriesFit, Prompted
<1>q. QED BY <1>3, <1>4, <1>5, <1>6, <1>7 DEF CrashInv

LEMMA MarkStoppedKeeps == CrashInv /\ MarkStopped => CrashInv'
<1> SUFFICES ASSUME CrashInv, MarkStopped PROVE CrashInv' OBVIOUS
<1>1. /\ disk' = mem' /\ at' = "stop" /\ sess' = sess /\ files' = files /\ github' = github
      /\ past' = past /\ mem' = [mem EXCEPT !.stopped = TRUE] /\ mem.prompted
  BY DEF MarkStopped
<1>2. mem = disk /\ mem.step \in SessionStep /\ mem.session # 0 /\ mem \in RunType
  BY ObservingThere DEF MarkStopped
<1>3. /\ mem' \in RunType /\ mem'.session = mem.session /\ mem'.step = mem.step /\ mem'.waiting = mem.waiting
      /\ mem'.prompted = mem.prompted /\ mem'.stopped = TRUE /\ mem'.revisions = mem.revisions
      /\ mem'.task = mem.task
  BY <1>1, <1>2 DEF RunType
<1>4. CrashTypes' BY <1>1, <1>3 DEF CrashInv, CrashTypes, Places
<1>5. RunFits(mem', sess, files, github)
  <2>1. RunFits(mem, sess, files, github) BY DEF CrashInv
  <2>2. WasJudged(mem, sess) => WasJudged(mem', sess) BY <1>3 DEF WasJudged
  <2>q. QED BY <1>1, <1>3, <2>1, <2>2 DEF RunFits
<1>6. AtFits' BY <1>1, <1>2, <1>3 DEF AtFits
<1>7. SessFits' BY <1>1, <1>2, <1>3 DEF CrashInv, SessFits
<1>8. TriesFit'
  <2>1. Unused(mem', sess) <=> Unused(mem, sess) BY <1>3 DEF Unused
  <2>2. Prompted' = Prompted BY <1>1 DEF Prompted
  <2>q. QED BY <1>1, <2>1, <2>2 DEF CrashInv, TriesFit
<1>q. QED BY <1>1, <1>4, <1>5, <1>6, <1>7, <1>8 DEF CrashInv

(* A session changes while the run stays as it is.                         *)
LEMMA SessionPut ==
  ASSUME CrashInv, UNCHANGED <<mem, disk, github, past>>,
         files' \in FilesType, files'.ticked = files.ticked, files'.tasks = files.tasks,
         NEW s \in DOMAIN sess, NEW x \in SessType, sess' = [sess EXCEPT ![s] = x], x.state # "running",
         x.log # <<>> <=> sess[s].log # <<>>, sess[s].wrote => x.wrote,
         at' \in Places, AtFits'
  PROVE  CrashInv'
<1>1. sess \in Seq(SessType) /\ mem \in RunType /\ disk \in RunType /\ files.tasks \in Nat
  BY FilesAre DEF CrashInv, CrashTypes
<1>2. /\ sess' \in Seq(SessType) /\ Len(sess') = Len(sess) /\ DOMAIN sess' = DOMAIN sess
      /\ sess'[s] = x /\ \A i \in DOMAIN sess \ {s} : sess'[i] = sess[i]
  BY <1>1, SessPut
<1>3. Forward(sess, sess') BY <1>1, ForwardPut
<1>4. UntickedOf(files') = UntickedOf(files) /\ files.tasks <= files'.tasks BY <1>1 DEF UntickedOf
<1>5. RunFits(mem, sess', files', github)
  <2>1. RunFits(mem, sess, files, github) BY DEF CrashInv
  <2>q. QED BY <1>1, <1>3, <1>4, <2>1, FitsOn
<1>6. RunFits(disk, sess', files', github)
  <2>1. RunFits(disk, sess, files, github) BY DEF CrashInv
  <2>q. QED BY <1>1, <1>3, <1>4, <2>1, FitsOn
<1>7. CrashTypes' BY <1>2 DEF CrashInv, CrashTypes
<1>8. SessFits'
  <2>1. ASSUME NEW i \in DOMAIN sess, sess'[i].state = "running"
        PROVE  sess'[i].log # <<>> /\ i = mem.session /\ i = disk.session
    <3>1. i # s BY <1>2, <2>1
    <3>2. sess'[i] = sess[i] BY <1>2, <3>1
    <3>q. QED BY <2>1, <3>2 DEF CrashInv, SessFits
  <2>q. QED BY <1>2, <2>1 DEF SessFits
<1>9. \A i \in DOMAIN sess : sess'[i].log # <<>> <=> sess[i].log # <<>> BY <1>2
<1>10. TriesFit'
  <2>1. Prompted' = Prompted BY <1>2, <1>9 DEF Prompted
  <2>2. ASSUME NEW r \in RunType, RunFits(r, sess, files, github) PROVE Unused(r, sess') => Unused(r, sess)
    <3>1. r.session # 0 => r.session \in DOMAIN sess
      <4>1. r.session \in 0..Len(sess) /\ r.session \in Nat BY <2>2, RunFields DEF RunFits
      <4>q. QED BY <1>1, <4>1, SessAre
    <3>q. QED BY <1>9, <3>1 DEF Unused
  <2>3. (Unused(mem, sess') => Unused(mem, sess)) /\ (Unused(disk, sess') => Unused(disk, sess))
    BY <1>1, <2>2 DEF CrashInv
  <2>q. QED BY <2>1, <2>3 DEF CrashInv, TriesFit
<1>q. QED BY <1>5, <1>6, <1>7, <1>8, <1>10 DEF CrashInv

LEMMA StateTo ==
  ASSUME NEW y \in SessType, NEW st \in SessStates, NEW x, x = [y EXCEPT !.state = st]
  PROVE  x \in SessType /\ x.state = st /\ x.log = y.log /\ x.wrote = y.wrote
BY DEF SessType

LEMMA StopSessionKeeps == CrashInv /\ StopSession => CrashInv'
<1> SUFFICES ASSUME CrashInv, StopSession PROVE CrashInv' OBVIOUS
<1> DEFINE i == mem.session
           x == [sess[i] EXCEPT !.state = "completed"]
<1>1. /\ mem = disk /\ mem.step \in SessionStep /\ i # 0 /\ mem.stopped
  BY DEF StopSession, CrashInv, AtFits
<1>2. i \in DOMAIN sess /\ sess[i] \in SessType /\ sess \in Seq(SessType) /\ files \in FilesType
  BY <1>1, SessionThere
<1>3. /\ mem' = mem /\ disk' = disk /\ at' = "judge" /\ files' = files /\ github' = github
      /\ past' = past /\ sess' = [sess EXCEPT ![i] = x]
  BY DEF StopSession
<1>4. x \in SessType /\ x.state = "completed" /\ x.log = sess[i].log /\ x.wrote = sess[i].wrote
  <2>1. "completed" \in SessStates BY DEF SessStates
  <2>q. QED BY <1>2, <2>1, StateTo
<1> HIDE DEF x
<1>5. sess'[i].state = "completed" BY <1>2, <1>3, <1>4
<1>6. AtFits' BY <1>1, <1>3, <1>5 DEF AtFits
<1>7. at' \in Places BY <1>3 DEF Places
<1>q. QED BY <1>2, <1>3, <1>4, <1>6, <1>7, SessionPut

LEMMA StoppedByOtherKeeps ==
  ASSUME CrashInv, NEW s \in DOMAIN sess, StoppedByOther(s)
  PROVE  CrashInv'
<1> DEFINE x == [sess[s] EXCEPT !.state = "completed"]
<1>1. sess \in Seq(SessType) /\ sess[s] \in SessType /\ files \in FilesType /\ at \in Places
  BY SessAre DEF CrashInv, CrashTypes
<1>2. /\ mem' = mem /\ disk' = disk /\ at' = at /\ files' = files /\ github' = github
      /\ past' = past /\ sess' = [sess EXCEPT ![s] = x] /\ sess[s].state = "running"
  BY DEF StoppedByOther
<1>3. x \in SessType /\ x.state = "completed" /\ x.log = sess[s].log /\ x.wrote = sess[s].wrote
  <2>1. "completed" \in SessStates BY DEF SessStates
  <2>q. QED BY <1>1, <2>1, StateTo
<1> HIDE DEF x
<1>4. ASSUME at = "judge" PROVE sess'[mem.session].state = "completed"
  <2>1. sess[mem.session].state = "completed" BY <1>4 DEF CrashInv, AtFits
  <2>2. mem.session # s BY <1>2, <2>1
  <2>q. QED BY <1>1, <1>2, <2>1, <2>2
<1>5. AtFits' BY <1>2, <1>4 DEF CrashInv, AtFits
<1>q. QED BY <1>1, <1>2, <1>3, <1>5, SessionPut

LEMMA TurnKeeps ==
  ASSUME CrashInv, NEW s \in DOMAIN sess, Turn(s)
  PROVE  CrashInv'
<1>1. sess \in Seq(SessType) /\ sess[s] \in SessType /\ files \in FilesType /\ at \in Places
  BY SessAre DEF CrashInv, CrashTypes
<1>2. /\ mem' = mem /\ disk' = disk /\ at' = at /\ github' = github /\ past' = past
      /\ sess[s].state = "running"
  BY DEF Turn
<1>3. PICK wrote \in BOOLEAN :
        sess' = [sess EXCEPT ![s] = [log |-> Append(sess[s].log, "answer"), state |-> "idle",
                                     wrote |-> sess[s].wrote \/ wrote]]
  BY DEF Turn
<1> DEFINE l == Append(sess[s].log, "answer")
           v == sess[s].wrote \/ wrote
           x == [log |-> l, state |-> "idle", wrote |-> v]
<1>4. sess' = [sess EXCEPT ![s] = x] BY <1>3
<1>5. l \in Logs /\ l # <<>>
  <2>1. sess[s].log \in Logs BY <1>1 DEF SessType
  <2>q. QED BY <2>1 DEF Logs
<1>6. v \in BOOLEAN /\ (sess[s].wrote => v) OBVIOUS
<1> HIDE DEF l, v
<1>7. x \in SessType /\ x.state = "idle" /\ x.log = l /\ x.wrote = v BY <1>5, <1>6 DEF SessType, SessStates
<1> HIDE DEF x
<1>8. sess[s].log # <<>> BY <1>2 DEF CrashInv, SessFits
<1>9. files' \in FilesType /\ files'.ticked = files.ticked /\ files'.tasks = files.tasks
  <2>1. files' = files \/ \E q \in {"committed", "untracked"} : files' = [files EXCEPT !.request = q]
    BY DEF Turn
  <2>q. QED BY <1>1, <2>1 DEF FilesType, RequestStates
<1>10. ASSUME at = "judge" PROVE sess'[mem.session].state = "completed"
  <2>1. sess[mem.session].state = "completed" BY <1>10 DEF CrashInv, AtFits
  <2>2. mem.session # s BY <1>2, <2>1
  <2>q. QED BY <1>1, <1>4, <2>1, <2>2
<1>11. AtFits' BY <1>2, <1>10 DEF CrashInv, AtFits
<1>12. sess[s].wrote => x.wrote BY <1>6, <1>7
<1>13. x.state # "running" /\ (x.log # <<>> <=> sess[s].log # <<>>) BY <1>5, <1>7, <1>8
<1>q. QED BY <1>1, <1>2, <1>4, <1>7, <1>9, <1>11, <1>12, <1>13, SessionPut

LEMMA FoundStoppedKeeps == CrashInv /\ FoundStopped => CrashInv'
<1> SUFFICES ASSUME CrashInv, FoundStopped PROVE CrashInv' OBVIOUS
<1>1. /\ mem = disk /\ mem.step \in SessionStep /\ mem.session # 0 /\ mem \in RunType /\ files \in FilesType
      /\ sess[mem.session].state = "completed" /\ disk' = disk /\ sess' = sess /\ github' = github
      /\ github \in GithubType
  BY ObservingThere DEF FoundStopped, Session, CrashInv, CrashTypes
<1>2. CASE mem.stopped
  <2>1. mem' = mem /\ at' = "judge" /\ past' = past /\ files' = files BY <1>2 DEF FoundStopped
  <2>2. CrashTypes' BY <1>1, <2>1 DEF CrashInv, CrashTypes, Places
  <2>3. RunFits(mem, sess, files, github)' /\ RunFits(disk, sess, files, github)' BY <1>1, <2>1 DEF CrashInv
  <2>4. AtFits' BY <1>1, <1>2, <2>1 DEF AtFits
  <2>5. SessFits' BY <1>1, <2>1 DEF CrashInv, SessFits
  <2>6. TriesFit' BY <1>1, <2>1 DEF CrashInv, TriesFit, Prompted
  <2>q. QED BY <2>2, <2>3, <2>4, <2>5, <2>6 DEF CrashInv
<1>3. CASE ~mem.stopped
  <2>1. Moves(StepFailed(mem)) /\ files' = [files EXCEPT !.request = Absent] BY <1>3 DEF FoundStopped
  <2>2. files' \in FilesType /\ files'.ticked = files.ticked /\ files'.tasks = files.tasks
    BY <1>1, <2>1 DEF FilesType, RequestStates
  <2>3. mem.step = "work" => UntickedOf(files) # {} BY <1>3 DEF CrashInv, RunFits, WasJudged
  <2>4. mem.step # "done" BY <1>1 DEF SessionStep
  <2>q. QED BY <1>1, <2>1, <2>2, <2>3, <2>4, FailsOn
<1>q. QED BY <1>2, <1>3

LEMMA JudgeKeeps == CrashInv /\ Judge => CrashInv'
<1> SUFFICES ASSUME CrashInv, Judge PROVE CrashInv' OBVIOUS
<1>1. /\ mem = disk /\ mem.step \in SessionStep /\ mem.session # 0 /\ mem.stopped
      /\ sess[mem.session].state = "completed" /\ disk' = disk /\ sess' = sess /\ github' = github
  BY DEF Judge, CrashInv, AtFits
<1>2. /\ mem \in RunType /\ files \in FilesType /\ github \in GithubType /\ past \in PastType
      /\ sess \in Seq(SessType) /\ files.ticked \subseteq 1..files.tasks /\ files.tasks \in Nat
  BY FilesAre DEF CrashInv, CrashTypes
<1>3. CASE mem.step = "work" /\ ~Session.wrote /\ Moves(StepFailed(mem)) /\ files' = files
  <2>1. UntickedOf(files) # {} BY <1>3 DEF CrashInv, RunFits, WasJudged, Session
  <2>q. QED BY <1>1, <1>2, <1>3, <2>1, FailsOn
<1>4. CASE /\ mem.step = "work" /\ Session.wrote
           /\ files' = [files EXCEPT !.ticked = @ \cup {mem.task}]
           /\ Moves(EnterStep(mem, IF files'.ticked = 1..files.tasks THEN "check" ELSE "work", TRUE))
  <2> DEFINE d == files.ticked \cup {mem.task}
             s == IF files'.ticked = 1..files.tasks THEN "check" ELSE "work"
             r == EnterStep(mem, s, TRUE)
  <2>1. mem.prompted /\ mem.task \in 1..files.tasks BY <1>1, <1>4 DEF CrashInv, RunFits
  <2>2. d \in SUBSET Nat /\ d \subseteq 1..files.tasks BY <1>2, <2>1, FilesAre
  <2>3. files' = [files EXCEPT !.ticked = d] BY <1>4
  <2> HIDE DEF d
  <2>4. files' \in FilesType /\ files'.ticked = d /\ files'.tasks = files.tasks BY <1>2, <2>2, <2>3 DEF FilesType
  <2>5. Moves(r) BY <1>4
  <2>6. s \in RunSteps BY DEF RunSteps, SessionStep
  <2>7. s = "work" => d # 1..files.tasks BY <2>4
  <2>8. s # "revise" /\ s # "done" OBVIOUS
  <2> HIDE DEF s
  <2>9. EnteredTo(r, s) BY <1>2, <2>6, EnterStepIs
  <2> HIDE DEF r
  <2>10. /\ mem' = r /\ at' = "save" /\ past' \in PastType /\ past'.tries >= past.tries
         /\ s \in SessionStep => past'.tries > past.tries
    BY <1>2, <2>5, <2>9, MovesCounts
  <2>11. MayEnter(mem', files', github')
    <3>1. s = "work" => UntickedOf(files') # {} BY <2>2, <2>4, <2>7 DEF UntickedOf
    <3>q. QED BY <2>8, <2>9, <2>10, <3>1 DEF MayEnter, EnteredTo
  <2>12. RunFits(disk, sess, files', github')
    <3>1. Forward(sess, sess) BY <1>2, ForwardSame
    <3>2. RunFits(disk, sess, files, github) /\ files.tasks <= files'.tasks BY <1>2, <2>4 DEF CrashInv
    <3>3. WasJudged(disk, sess) BY <1>1, <1>4 DEF WasJudged, Session
    <3>q. QED BY <1>1, <1>2, <2>4, <3>1, <3>2, <3>3, FitsOn
  <2>q. QED BY <1>1, <1>2, <2>2, <2>4, <2>9, <2>10, <2>11, <2>12, MovesOn
<1>5. CASE mem.step = "fix" /\ Moves(AfterRunFix(mem, files.request)) /\ files' = files
  <2> DEFINE r == AfterRunFix(mem, files.request)
  <2>1. Moves(r) BY <1>5
  <2>2. \/ r = EnterStep(mem, "check", TRUE) \/ r = EnterStep(mem, "failed", TRUE)
        \/ ~(mem.revisions >= RunMaxRevisions) /\ r = EnterStep(mem, "revise", TRUE)
    BY DEF AfterRunFix
  <2> HIDE DEF r
  <2>s. {"check", "failed", "revise"} \subseteq RunSteps BY DEF RunSteps, EndedStep
  <2>3. ASSUME NEW s \in {"check", "failed"}, r = EnterStep(mem, s, TRUE) PROVE CrashInv'
    <3>1. EnteredTo(r, s) BY <1>2, <2>s, <2>3, EnterStepIs
    <3>2. MayEnter(r, files, github') BY <3>1 DEF MayEnter, EnteredTo
    <3>q. QED BY <1>1, <1>2, <1>5, <2>1, <3>1, <3>2, HandlerMoves
  <2>4. CASE ~(mem.revisions >= RunMaxRevisions) /\ r = EnterStep(mem, "revise", TRUE)
    <3>1. EnteredTo(r, "revise") /\ r.revisions = mem.revisions BY <1>2, <2>s, <2>4, EnterStepIs
    <3>2. mem.revisions < RunMaxRevisions BY <1>2, <2>4, RunFields, RunCaps
    <3>3. MayEnter(r, files, github') BY <3>1, <3>2 DEF MayEnter, EnteredTo
    <3>q. QED BY <1>1, <1>2, <1>5, <2>1, <3>1, <3>3, HandlerMoves
  <2>q. QED BY <2>2, <2>3, <2>4
<1>q. QED BY <1>3, <1>4, <1>5 DEF Judge

-----------------------------------------------------------------------------
LEMMA CrashInvInit == RunCrashInit => CrashInv
<1> SUFFICES ASSUME RunCrashInit PROVE CrashInv OBVIOUS
<1>1. /\ mem = FreshRun /\ disk = FreshRun /\ at = "tick" /\ sess = <<>>
      /\ files = [tasks |-> RunTasks, ticked |-> {}, request |-> Absent]
      /\ github = [opened |-> 0, merged |-> FALSE] /\ past = [crashes |-> 0, tries |-> 1, reviews |-> 0]
  BY DEF RunCrashInit
<1>2. /\ mem \in RunType /\ mem.step = "work" /\ mem.waiting = TRUE /\ mem.session = 0
      /\ mem.prompted = FALSE /\ mem.stopped = FALSE
  BY <1>1, RunCaps DEF FreshRun, RunType, RunSteps, SessionStep
<1>3. /\ files \in FilesType /\ files.tasks = RunTasks /\ files.ticked = {}
  BY <1>1, RunCaps DEF FilesType, RequestStates
<1>4. github \in GithubType /\ past \in PastType /\ past.tries = 1 BY <1>1 DEF GithubType, PastType
<1>5. CrashTypes BY <1>1, <1>2, <1>3, <1>4 DEF CrashTypes, Places
<1>6. 1 \in UntickedOf(files) BY <1>3, RunCaps DEF UntickedOf
<1>7. RunFits(mem, sess, files, github) BY <1>1, <1>2, <1>6 DEF RunFits, SessionStep
<1>8. AtFits /\ SessFits BY <1>1 DEF AtFits, SessFits
<1>9. TriesFit
  <2>1. Prompted = {} BY <1>1 DEF Prompted
  <2>q. QED BY <1>4, <2>1, FS_EmptySet DEF TriesFit
<1>q. QED BY <1>1, <1>5, <1>7, <1>8, <1>9 DEF CrashInv

LEMMA CrashInvStutters == CrashInv /\ UNCHANGED runCrashVars => CrashInv'
<1> SUFFICES ASSUME CrashInv, UNCHANGED runCrashVars PROVE CrashInv' OBVIOUS
<1>1. /\ mem' = mem /\ disk' = disk /\ at' = at /\ sess' = sess /\ files' = files /\ github' = github
      /\ past' = past
  BY DEF runCrashVars
<1>2. CrashTypes' BY <1>1 DEF CrashInv, CrashTypes
<1>3. RunFits(mem, sess, files, github)' /\ RunFits(disk, sess, files, github)' BY <1>1 DEF CrashInv
<1>4. AtFits' BY <1>1 DEF CrashInv, AtFits
<1>5. SessFits' BY <1>1 DEF CrashInv, SessFits
<1>6. TriesFit' BY <1>1 DEF CrashInv, TriesFit, Prompted
<1>q. QED BY <1>2, <1>3, <1>4, <1>5, <1>6 DEF CrashInv

LEMMA CrashInvNext == CrashInv /\ [RunCrashNext]_runCrashVars => CrashInv'
<1> SUFFICES ASSUME CrashInv, [RunCrashNext]_runCrashVars PROVE CrashInv' OBVIOUS
<1>1. CASE RunnerStep
  BY <1>1, SaveRunStateKeeps, OpenSessionKeeps, SaveSessionIdKeeps, SendFirstKeeps, PromptLateKeeps,
     NudgeKeeps, MarkStoppedKeeps, StopSessionKeeps, FoundStoppedKeeps, JudgeKeeps, RunCheckKeeps,
     ReviseKeeps, FinalReviewKeeps, OpenRunPRKeeps, MergePRKeeps DEF RunnerStep
<1>2. CASE OwnStepFails BY <1>2, OwnStepFailsKeeps
<1>3. CASE RunnerCrash BY <1>3, RunnerCrashKeeps
<1>4. ASSUME NEW s \in DOMAIN sess, Turn(s) \/ StoppedByOther(s) PROVE CrashInv'
  BY <1>4, TurnKeeps, StoppedByOtherKeeps
<1>5. CASE UNCHANGED runCrashVars BY <1>5, CrashInvStutters
<1>q. QED BY <1>1, <1>2, <1>3, <1>4, <1>5 DEF RunCrashNext

LEMMA CrashInvariant == RunCrashSpec => []CrashInv
BY CrashInvInit, CrashInvNext, PTL DEF RunCrashSpec

(* The run has its type in memory and on disk, whenever the runner dies.   *)
THEOREM RunCrashTypeCorrect == RunCrashSpec => []RunCrashTypeOK
<1>1. ASSUME CrashInv PROVE RunCrashTypeOK
  <2>1. ASSUME NEW r \in RunType, RunFits(r, sess, files, github)
        PROVE  r \in [step : SessionStep \cup EndedStep \cup {"check", "revise", "final-review", "pr", "merge"},
                      attempt : Nat, waiting : BOOLEAN, session : 0..Len(sess), prompted : BOOLEAN, nudged : Nat,
                      stopped : BOOLEAN, fixes : 0..RunMaxFixes, revisions : 0..RunMaxRevisions,
                      task : Nat, reviewed : BOOLEAN]
    <3>1. r.session \in 0..Len(sess) BY <2>1 DEF RunFits
    <3>q. QED BY <2>1, <3>1 DEF RunType, RunSteps
  <2>2. files.request \in {Absent, "committed", "untracked"}
    BY <1>1, FilesAre DEF CrashInv, CrashTypes, RequestStates
  <2>3. mem \in RunType /\ disk \in RunType /\ at \in Places BY <1>1 DEF CrashInv, CrashTypes
  <2>q. QED BY <1>1, <2>1, <2>2, <2>3 DEF CrashInv, RunCrashTypeOK, Places
<1>q. QED BY <1>1, CrashInvariant, PTL

(* Wherever the runner dies, no try of a step has two sessions at work,    *)
(* the branch has one pull request, and a run that is done is merged.      *)
THEOREM DoneOnce == RunCrashSpec => []NothingIsDoneTwice
<1>1. ASSUME CrashInv PROVE NothingIsDoneTwice
  <2> DEFINE R == {s \in DOMAIN sess : sess[s].state = "running"}
  <2>1. Cardinality(R) <= 1
    <3>1. R \subseteq {mem.session} BY <1>1 DEF CrashInv, SessFits
    <3>2. IsFiniteSet({mem.session}) /\ Cardinality({mem.session}) = 1 BY FS_Singleton
    <3>3. IsFiniteSet(R) /\ Cardinality(R) <= Cardinality({mem.session}) BY <3>1, <3>2, FS_Subset
    <3>q. QED BY <3>2, <3>3
  <2>2. Cardinality(Prompted) <= past.tries BY <1>1 DEF CrashInv, TriesFit
  <2>3. github.opened <= 1
    <3>1. github.opened \in 0..1 BY <1>1 DEF CrashInv, CrashTypes, GithubType
    <3>q. QED BY <3>1
  <2>4. mem.step = "done" => github.merged BY <1>1 DEF CrashInv, RunFits
  <2>q. QED BY <2>1, <2>2, <2>3, <2>4 DEF NothingIsDoneTwice
<1>q. QED BY <1>1, CrashInvariant, PTL
=============================================================================
