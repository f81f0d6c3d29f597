---------------------------- MODULE Turn_proofs ----------------------------
(***************************************************************************)
(* Proofs about a turn: the gate on done tasks and the stop gate's talk,   *)
(* for any snapshots of tasks and any bounds; the walk of a batch of tool  *)
(* calls, for any gates, batches, replies and failed appends; the asks for *)
(* a stuck session, for any pace, allowance and number of restarts; the    *)
(* reports of changed files, for any files and changes; the guard, for any *)
(* commands and rules; the calls to the model, for any callers, parts,     *)
(* failures and retries; and what the model is sent, for any log.          *)
(***************************************************************************)
EXTENDS Verify, ToolCalls, StuckAsk, WorkspaceWatch, Guard, ModelCall, ModelView, FiniteSetTheorems, SequenceTheorems, WellFoundedInduction, NaturalsInduction, TLAPS

(* A list is a sequence of tasks under ids of their own, and what counts   *)
(* as evidence is a check that passed.                                     *)
Listed(l) == Len(l) \in Nat /\ l \in [1..Len(l) -> Task]
Distinct(l) == \A i, j \in DOMAIN l : i # j => l[i].id # l[j].id
Evidenced(l, pr) == \A i \in DOMAIN l : l[i].ev => l[i].status = "done" /\ l[i].id \in pr
Kept(t, pr) ==
  t = [rev |-> t.rev, list |-> t.list] /\ t.rev \in Nat /\ Listed(t.list) /\ Distinct(t.list) /\ Evidenced(t.list, pr)

(* What an update has read before it appends.                              *)
Reads(job, pr) ==
  /\ job.inc \in Snapshots /\ ~Duplicated(job.inc) /\ Kept(job.prev, pr) /\ job.passed \subseteq pr

Reasons(rs) == Len(rs) \in Nat /\ DOMAIN rs = 1..Len(rs) /\ rs \in Seq({rs[i] : i \in DOMAIN rs})

(* The job of the session's loop, with the rounds and the proofs there are.*)
WorkFits(w, rs, pr) ==
  /\ w.at \in {"idle", "model", "paused", "blocked", "checks", "update", "append", "stopping"}
  /\ w.at = "checks" =>
       /\ w = [at |-> "checks", inc |-> w.inc, ids |-> w.ids, todo |-> w.todo]
       /\ w.inc \in Snapshots /\ w.todo \subseteq DOMAIN w.inc
       /\ \A i \in DOMAIN w.inc : w.ids[i] \in Ids
  /\ w.at = "update" => w.inc \in Snapshots
  /\ w.at = "append" => Reads(w, pr)
  /\ w.at = "stopping" =>
       /\ w = [at |-> "stopping", tasks |-> w.tasks, goal |-> w.goal, rounds |-> w.rounds, heard |-> w.heard]
       /\ w.goal \in BOOLEAN /\ w.heard \in BOOLEAN
       /\ w.heard \/ w.rounds = rs
       /\ Reasons(w.rounds)
ClientFits(c, pr) == c = NoJob \/ (c.at = "append" /\ Reads(c, pr) /\ Fits(c.prev.list, c.inc))

VerifyTypes ==
  /\ check \in [Ids -> Results] /\ proven \subseteq Ids /\ gateCheck \in Results
  /\ goal \in {"none", "set", "met", "impossible"}
  /\ spoke \in [ask : BOOLEAN, changed : BOOLEAN, reminded : BOOLEAN]
  /\ tree \in [dirty : SUBSET Dirt, built : BOOLEAN, moved : BOOLEAN]
  /\ baseline \in [known : BOOLEAN, dirty : SUBSET Dirt]
  /\ verifyOff \in BOOLEAN /\ nags \in Nat /\ talks \in Nat /\ Reasons(rounds)

(* A session that goes on is not over its vetoes, nor vetoed again and     *)
(* again for one reason; and it was reminded if it was.                    *)
TalkFits ==
  /\ nags <= 1 /\ (nags = 1 => spoke.reminded)
  /\ talks <= Len(rounds)
  /\ Len(rounds) <= MaxVetoes + 1
  /\ work.at # "blocked" =>
       /\ Len(rounds) <= MaxVetoes
       /\ NoProgress >= 2 /\ Len(rounds) >= NoProgress =>
            \E i, j \in (Len(rounds) - NoProgress + 1) .. Len(rounds) : rounds[i] # rounds[j]

VerifyInv ==
  VerifyTypes /\ Kept(tasks, proven) /\ WorkFits(work, rounds, proven) /\ ClientFits(client, proven) /\ TalkFits

-----------------------------------------------------------------------------
LEMMA VerifyBounds ==
  /\ MaxVetoes \in Nat /\ MaxVetoes # 0 /\ NoProgress \in Nat /\ MaxId \in Nat
  /\ Snapshots \subseteq Seq(Sendable)
BY VerifyAssumption

LEMMA SnapshotIs ==
  ASSUME NEW inc \in Snapshots
  PROVE  /\ Len(inc) \in Nat /\ inc \in [1..Len(inc) -> Sendable] /\ DOMAIN inc = 1..Len(inc)
         /\ \A i \in DOMAIN inc :
              /\ inc[i].id \in Nat /\ inc[i].title \in STRING /\ inc[i].status \in Statuses
              /\ inc[i].dw \in BOOLEAN /\ inc[i].check \in BOOLEAN /\ inc[i].note \in BOOLEAN
<1>1. inc \in Seq(Sendable) BY VerifyBounds
<1>2. Len(inc) \in Nat /\ inc \in [1..Len(inc) -> Sendable] /\ DOMAIN inc = 1..Len(inc) BY <1>1
<1>3. ASSUME NEW i \in DOMAIN inc PROVE inc[i] \in Sendable BY <1>2
<1>q. QED BY <1>2, <1>3 DEF Sendable

(* The least and the greatest of some numbers. *)
LEMMA MinIs ==
  ASSUME NEW S \in SUBSET Nat, S # {}
  PROVE  Min(S) \in S /\ \A y \in S : Min(S) <= y
<1>1. \E x \in S : \A y \in S : ~(<<y, x>> \in OpToRel(<, Nat))
  BY WFMin, NatLessThanWellFounded, Zenon
<1>2. PICK x \in S : \A y \in S : ~(<<y, x>> \in OpToRel(<, Nat)) BY <1>1
<1>3. ASSUME NEW y \in S, y < x PROVE FALSE
  <2>1. <<y, x>> \in OpToRel(<, Nat) BY <1>3, Zenon DEF OpToRel
  <2>q. QED BY <1>2, <2>1, Zenon
<1> HIDE <1>2
<1>4. \A y \in S : x <= y BY <1>3
<1>q. QED BY <1>4 DEF Min

LEMMA MaxIs ==
  ASSUME NEW n \in Nat, NEW S \in SUBSET (0..n), S # {}
  PROVE  Max(S) \in S /\ \A y \in S : y <= Max(S)
<1> DEFINE D == {n - c : c \in S}
<1>0. \A c \in S : c \in Nat /\ n - c \in Nat OBVIOUS
<1>1. D \subseteq Nat /\ D # {} BY <1>0
<1>2. PICK m \in D : \A y \in D : m <= y BY <1>1, MinIs
<1>3. PICK c \in S : m = n - c BY <1>2
<1>4. \A d \in S : n - c <= n - d BY <1>2, <1>3
<1>5. \A d \in S : d <= c BY <1>4
<1>6. \A d \in S : c >= d BY <1>5
<1>q. QED BY <1>6 DEF Max

(* What TaskIDs gives: an id sent, an earlier one by its title, or a fresh *)
(* one, beyond all there are.                                              *)
SentOne(inc, i) == inc[i].id # 0
TitledOne(prev, inc, i) == inc[i].id = 0 /\ ~Fresh(prev, inc, i)

LEMMA ByTitleIs ==
  ASSUME NEW prev, Listed(prev), NEW inc, NEW title, ByTitle(prev, inc, title) # 0
  PROVE  \E k \in DOMAIN prev : /\ ByTitle(prev, inc, title) = prev[k].id
                                /\ prev[k].title = title /\ prev[k].id \notin Sent(inc)
<1> DEFINE these == {i \in DOMAIN prev : prev[i].title = title /\ prev[i].id \notin Sent(inc)}
<1>1. these # {} /\ ByTitle(prev, inc, title) = prev[Min(these)].id BY DEF ByTitle
<1>2. these \subseteq Nat BY DEF Listed
<1>3. Min(these) \in these BY <1>1, <1>2, MinIs
<1>q. QED BY <1>1, <1>3

Fresher(prev, inc, i) == {j \in 1 .. i : Fresh(prev, inc, j)}
Newest(prev, inc) == Highest(IdsOf(prev) \cup Sent(inc))

LEMMA TaskIDsIs ==
  ASSUME NEW prev, NEW inc, NEW i \in DOMAIN inc
  PROVE  /\ SentOne(inc, i) => TaskIDs(prev, inc)[i] = inc[i].id
         /\ TitledOne(prev, inc, i) => TaskIDs(prev, inc)[i] = ByTitle(prev, inc, inc[i].title)
                                       /\ ByTitle(prev, inc, inc[i].title) # 0 /\ ~TitleTaken(inc, i)
         /\ Fresh(prev, inc, i) =>
              TaskIDs(prev, inc)[i] = Newest(prev, inc) + Cardinality(Fresher(prev, inc, i))
         /\ SentOne(inc, i) \/ TitledOne(prev, inc, i) \/ Fresh(prev, inc, i)
         /\ DOMAIN TaskIDs(prev, inc) = DOMAIN inc
BY DEF SentOne, TitledOne, TaskIDs, Newest, Fresher, Fresh

LEMMA FresherIs ==
  ASSUME NEW prev, NEW inc, NEW i \in Nat
  PROVE  /\ Cardinality(Fresher(prev, inc, i)) \in Nat
         /\ i >= 1 /\ Fresh(prev, inc, i) => Cardinality(Fresher(prev, inc, i)) > 0
         /\ \A k \in Nat : k < i /\ Fresh(prev, inc, i) =>
              Cardinality(Fresher(prev, inc, k)) < Cardinality(Fresher(prev, inc, i))
<1>1. ASSUME NEW k \in Nat PROVE IsFiniteSet(Fresher(prev, inc, k)) /\ Cardinality(Fresher(prev, inc, k)) \in Nat
  <2>1. IsFiniteSet(1..k) BY FS_Interval
  <2>2. Fresher(prev, inc, k) \subseteq 1..k BY DEF Fresher
  <2>q. QED BY <2>1, <2>2, FS_Subset, FS_CardinalityType
<1>2. ASSUME NEW k \in Nat, k < i, Fresh(prev, inc, i)
      PROVE  Cardinality(Fresher(prev, inc, k)) < Cardinality(Fresher(prev, inc, i))
  <2> DEFINE A == Fresher(prev, inc, k)
             B == Fresher(prev, inc, i)
  <2>1. A \subseteq B /\ i \in B /\ i \notin A BY <1>2 DEF Fresher
  <2>2. IsFiniteSet(B) /\ Cardinality(A) \in Nat /\ Cardinality(B) \in Nat BY <1>1, <1>2
  <2> HIDE DEF A, B
  <2>3. Cardinality(A) <= Cardinality(B) /\ (Cardinality(A) = Cardinality(B) => A = B) BY <2>1, <2>2, FS_Subset
  <2>4. Cardinality(A) < Cardinality(B) BY <2>1, <2>2, <2>3
  <2>q. QED BY <2>4 DEF A, B
<1>3. ASSUME i >= 1, Fresh(prev, inc, i) PROVE Cardinality(Fresher(prev, inc, i)) > 0
  <2>1. i \in Fresher(prev, inc, i) BY <1>3 DEF Fresher
  <2>2. Cardinality(Fresher(prev, inc, i)) # 0 BY <1>1, <2>1, FS_EmptySet
  <2>q. QED BY <1>1, <2>2
<1>q. QED BY <1>1, <1>2, <1>3

LEMMA NewestIs ==
  ASSUME NEW prev, Listed(prev), NEW inc \in Snapshots, Fits(prev, inc)
  PROVE  /\ Newest(prev, inc) \in Nat
         /\ \A x \in IdsOf(prev) \cup Sent(inc) : x \in Nat /\ x <= Newest(prev, inc)
<1> DEFINE S == IdsOf(prev) \cup Sent(inc)
<1>1. IdsOf(prev) \subseteq Ids
  <2>1. \A i \in DOMAIN prev : prev[i].id \in Ids BY DEF Listed, Task
  <2>q. QED BY <2>1 DEF IdsOf
<1>2. Sent(inc) \subseteq Ids
  <2>1. \A i \in DOMAIN inc : inc[i].id # 0 => TaskIDs(prev, inc)[i] = inc[i].id BY DEF TaskIDs
  <2>q. QED BY <2>1 DEF Sent, Fits
<1>3. S \cup {0} \in SUBSET (0..MaxId) /\ S \cup {0} # {} BY <1>1, <1>2, VerifyBounds DEF Ids
<1>4. Newest(prev, inc) = Max(S \cup {0}) BY DEF Newest, Highest
<1> HIDE DEF S
<1>5. Max(S \cup {0}) \in S \cup {0} /\ \A y \in S \cup {0} : y <= Max(S \cup {0}) BY <1>3, VerifyBounds, MaxIs
<1>q. QED BY <1>3, <1>4, <1>5 DEF S

(* However ids are sent, found by title and made up, no two are the same.  *)
LEMMA IdsDiffer ==
  ASSUME NEW prev, Listed(prev), Distinct(prev), NEW inc \in Snapshots, ~Duplicated(inc), Fits(prev, inc),
         NEW i \in DOMAIN inc, NEW j \in DOMAIN inc, i < j
  PROVE  TaskIDs(prev, inc)[i] # TaskIDs(prev, inc)[j]
<1> DEFINE ids == TaskIDs(prev, inc)
           n == Newest(prev, inc)
<1>1. /\ i \in Nat /\ j \in Nat /\ i >= 1 /\ j >= 1 /\ i \in 1..(j - 1)
      /\ \A k \in DOMAIN inc : inc[k].id \in Nat
  BY SnapshotIs
<1>2. n \in Nat /\ \A x \in IdsOf(prev) \cup Sent(inc) : x \in Nat /\ x <= n BY NewestIs
<1>3. ASSUME NEW k \in DOMAIN inc, SentOne(inc, k)
      PROVE  ids[k] = inc[k].id /\ ids[k] \in Sent(inc) /\ ids[k] \in Nat /\ ids[k] <= n
  <2>1. ids[k] = inc[k].id BY <1>3, TaskIDsIs
  <2>2. ids[k] \in Sent(inc) BY <2>1, <1>3 DEF Sent, SentOne
  <2>q. QED BY <2>1, <2>2, <1>2
<1>4. ASSUME NEW k \in DOMAIN inc, TitledOne(prev, inc, k)
      PROVE  \E m \in DOMAIN prev : /\ ids[k] = prev[m].id /\ prev[m].title = inc[k].title
                                    /\ ids[k] \notin Sent(inc) /\ ids[k] \in Nat /\ ids[k] <= n
  <2>1. ids[k] = ByTitle(prev, inc, inc[k].title) /\ ByTitle(prev, inc, inc[k].title) # 0 BY <1>4, TaskIDsIs
  <2>2. PICK m \in DOMAIN prev : /\ ByTitle(prev, inc, inc[k].title) = prev[m].id
                                 /\ prev[m].title = inc[k].title /\ prev[m].id \notin Sent(inc)
    BY <2>1, ByTitleIs
  <2>3. prev[m].id \in IdsOf(prev) BY DEF IdsOf
  <2>q. QED BY <2>1, <2>2, <2>3, <1>2
<1>5. ASSUME NEW k \in DOMAIN inc, Fresh(prev, inc, k)
      PROVE  /\ ids[k] = n + Cardinality(Fresher(prev, inc, k)) /\ ids[k] > n
             /\ Cardinality(Fresher(prev, inc, k)) \in Nat
  <2>1. ids[k] = n + Cardinality(Fresher(prev, inc, k)) BY <1>5, TaskIDsIs
  <2>2. k \in Nat /\ k >= 1 BY SnapshotIs
  <2>3. Cardinality(Fresher(prev, inc, k)) \in Nat /\ Cardinality(Fresher(prev, inc, k)) > 0 BY <2>2, <1>5, FresherIs
  <2>q. QED BY <2>1, <2>3, <1>2
<1> SUFFICES ids[i] # ids[j] OBVIOUS
<1> HIDE DEF ids, n
<1>6. CASE SentOne(inc, i) /\ SentOne(inc, j) BY <1>3, <1>6, <1>1 DEF Duplicated, SentOne
<1>7. CASE SentOne(inc, i) /\ TitledOne(prev, inc, j) BY <1>3, <1>4, <1>7
<1>8. CASE TitledOne(prev, inc, i) /\ SentOne(inc, j) BY <1>3, <1>4, <1>8
<1>9. CASE ~Fresh(prev, inc, i) /\ Fresh(prev, inc, j)
  <2>1. ids[i] \in Nat /\ ids[i] <= n BY <1>3, <1>4, <1>9, TaskIDsIs
  <2>q. QED BY <2>1, <1>2, <1>5, <1>9
<1>10. CASE Fresh(prev, inc, i) /\ ~Fresh(prev, inc, j)
  <2>1. ids[j] \in Nat /\ ids[j] <= n BY <1>3, <1>4, <1>10, TaskIDsIs
  <2>q. QED BY <2>1, <1>2, <1>5, <1>10
<1>11. CASE Fresh(prev, inc, i) /\ Fresh(prev, inc, j)
  <2>1. Cardinality(Fresher(prev, inc, i)) < Cardinality(Fresher(prev, inc, j)) BY <1>1, <1>11, FresherIs
  <2>q. QED BY <2>1, <1>2, <1>5, <1>11
<1>12. CASE TitledOne(prev, inc, i) /\ TitledOne(prev, inc, j)
  <2>1. inc[i].id = 0 /\ ~TitleTaken(inc, j) BY <1>12, TaskIDsIs DEF TitledOne
  <2>2. inc[i].title # inc[j].title BY <2>1, <1>1 DEF TitleTaken
  <2>3. PICK a \in DOMAIN prev : ids[i] = prev[a].id /\ prev[a].title = inc[i].title BY <1>4, <1>12
  <2>4. PICK b \in DOMAIN prev : ids[j] = prev[b].id /\ prev[b].title = inc[j].title BY <1>4, <1>12
  <2>q. QED BY <2>2, <2>3, <2>4 DEF Distinct
<1>13. (SentOne(inc, i) \/ TitledOne(prev, inc, i) \/ Fresh(prev, inc, i))
       /\ (SentOne(inc, j) \/ TitledOne(prev, inc, j) \/ Fresh(prev, inc, j))
  BY TaskIDsIs
<1>q. QED BY <1>6, <1>7, <1>8, <1>9, <1>10, <1>11, <1>12, <1>13

LEMMA ByIdIs ==
  ASSUME NEW l, NEW id \in IdsOf(l)
  PROVE  \E k \in DOMAIN l : ById(l, id) = l[k] /\ l[k].id = id
<1>1. \E k \in DOMAIN l : l[k].id = id BY DEF IdsOf
<1>q. QED BY <1>1 DEF ById

(* What a merge makes of each task. *)
MergedTask(prev, inc, passed, i) ==
  LET id  == TaskIDs(prev.list, inc)[i]
      had == id \in IdsOf(prev.list)
      p   == ById(prev.list, id)
  IN  [id     |-> id,
       title  |-> inc[i].title,
       status |-> inc[i].status,
       dw     |-> inc[i].dw \/ (had /\ p.dw),
       check  |-> inc[i].check \/ (had /\ p.check),
       note   |-> inc[i].note \/ (had /\ p.note),
       ev     |-> inc[i].status = "done"
                  /\ ((had /\ p.status = "done" /\ p.ev) \/ id \in passed)]

LEMMA MergedTaskIs ==
  ASSUME NEW pr, NEW prev, Kept(prev, pr), NEW inc \in Snapshots, Fits(prev.list, inc), NEW passed \in SUBSET pr,
         NEW i \in DOMAIN inc, NEW t, t = MergedTask(prev, inc, passed, i)
  PROVE  t \in Task /\ t.id = TaskIDs(prev.list, inc)[i] /\ (t.ev => t.status = "done" /\ t.id \in pr)
<1> DEFINE id == TaskIDs(prev.list, inc)[i]
           had == id \in IdsOf(prev.list)
           p == ById(prev.list, id)
           ev == inc[i].status = "done" /\ ((had /\ p.status = "done" /\ p.ev) \/ id \in passed)
<1>1. id \in Ids BY DEF Fits
<1>2. /\ inc[i].title \in STRING /\ inc[i].status \in Statuses /\ inc[i].dw \in BOOLEAN /\ inc[i].check \in BOOLEAN
      /\ inc[i].note \in BOOLEAN
  BY SnapshotIs
<1>3. had => p.dw \in BOOLEAN /\ p.check \in BOOLEAN /\ p.note \in BOOLEAN /\ p.ev \in BOOLEAN
             /\ (p.ev => id \in pr)
  <2>1. ASSUME had
        PROVE  p.dw \in BOOLEAN /\ p.check \in BOOLEAN /\ p.note \in BOOLEAN /\ p.ev \in BOOLEAN
               /\ (p.ev => id \in pr)
    <3>1. PICK k \in DOMAIN prev.list : p = prev.list[k] /\ prev.list[k].id = id BY <2>1, ByIdIs
    <3>2. prev.list[k] \in Task BY DEF Kept, Listed
    <3>3. p.ev => p.id \in pr BY <3>1 DEF Kept, Evidenced
    <3>q. QED BY <3>1, <3>2, <3>3 DEF Task
  <2>q. QED BY <2>1
<1>4. t = [id |-> id, title |-> inc[i].title, status |-> inc[i].status, dw |-> inc[i].dw \/ (had /\ p.dw),
           check |-> inc[i].check \/ (had /\ p.check), note |-> inc[i].note \/ (had /\ p.note), ev |-> ev]
  BY DEF MergedTask
<1>5. ev => inc[i].status = "done" /\ id \in pr BY <1>3
<1>6. (inc[i].dw \/ (had /\ p.dw)) \in BOOLEAN /\ (inc[i].check \/ (had /\ p.check)) \in BOOLEAN
      /\ (inc[i].note \/ (had /\ p.note)) \in BOOLEAN /\ ev \in BOOLEAN
  BY <1>2, <1>3
<1> HIDE DEF id, had, p, ev
<1>7. t \in Task BY <1>1, <1>2, <1>4, <1>6 DEF Task
<1>8. t.id = id /\ t.ev = ev /\ t.status = inc[i].status BY <1>4
<1>q. QED BY <1>5, <1>7, <1>8 DEF id

(* A merge keeps ids apart, and takes as evidence only what passed.        *)
LEMMA MergeIs ==
  ASSUME NEW pr, NEW prev, Kept(prev, pr), NEW inc \in Snapshots, ~Duplicated(inc), Fits(prev.list, inc),
         NEW passed \in SUBSET pr, NEW t, t = Merge(prev, inc, passed)
  PROVE  Kept(t, pr)
<1> DEFINE l == [i \in DOMAIN inc |-> MergedTask(prev, inc, passed, i)]
<1>1. t = [rev |-> prev.rev + 1, list |-> l] BY DEF Merge, MergedTask
<1>2. DOMAIN inc = 1..Len(inc) /\ Len(inc) \in Nat BY SnapshotIs
<1>3. ASSUME NEW i \in DOMAIN inc
      PROVE  /\ l[i] \in Task /\ l[i].id = TaskIDs(prev.list, inc)[i]
             /\ l[i].ev => l[i].status = "done" /\ l[i].id \in pr
  <2> DEFINE m == MergedTask(prev, inc, passed, i)
  <2>1. l[i] = m BY <1>3
  <2> HIDE DEF m, l
  <2>q. QED BY <2>1, <1>3, MergedTaskIs DEF m
<1>4. DOMAIN l = DOMAIN inc OBVIOUS
<1>5. l = [i \in DOMAIN inc |-> l[i]] OBVIOUS
<1> HIDE DEF l
<1>6. l \in [1..Len(inc) -> Task] BY <1>2, <1>3, <1>4, <1>5
<1>7. Len(l) = Len(inc) /\ Listed(l)
  <2>1. l \in Seq(Task) BY <1>2, <1>6
  <2>2. Len(l) = Len(inc) BY <1>2, <1>6, <2>1
  <2>q. QED BY <1>2, <1>6, <2>2 DEF Listed
<1>8. Distinct(l)
  <2>1. ASSUME NEW i \in DOMAIN inc, NEW j \in DOMAIN inc, i < j PROVE l[i].id # l[j].id
    <3>1. Listed(prev.list) /\ Distinct(prev.list) BY DEF Kept
    <3>2. TaskIDs(prev.list, inc)[i] # TaskIDs(prev.list, inc)[j] BY <2>1, <3>1, IdsDiffer
    <3>q. QED BY <3>2, <1>3
  <2>2. ASSUME NEW i \in DOMAIN inc, NEW j \in DOMAIN inc, i # j PROVE l[i].id # l[j].id
    <3>1. i < j \/ j < i BY <2>2, <1>2
    <3>q. QED BY <3>1, <2>1
  <2>q. QED BY <2>2, <1>4 DEF Distinct
<1>9. Evidenced(l, pr) BY <1>3, <1>4 DEF Evidenced
<1>10. t.rev = prev.rev + 1 /\ t.list = l BY <1>1
<1>11. prev.rev \in Nat BY DEF Kept
<1>q. QED BY <1>1, <1>7, <1>8, <1>9, <1>10, <1>11 DEF Kept

(* More proofs undo nothing. *)
LEMMA KeptStays == ASSUME NEW t, NEW pr, NEW qr, pr \subseteq qr, Kept(t, pr) PROVE Kept(t, qr)
BY DEF Kept, Evidenced
LEMMA ReadsStays == ASSUME NEW t, NEW pr, NEW qr, pr \subseteq qr, Reads(t, pr) PROVE Reads(t, qr)
BY KeptStays DEF Reads
LEMMA ClientStays == ASSUME NEW t, NEW pr, NEW qr, pr \subseteq qr, ClientFits(t, pr) PROVE ClientFits(t, qr)
BY ReadsStays DEF ClientFits

LEMMA NoJobFits == ASSUME NEW rs, NEW pr PROVE WorkFits(NoJob, rs, pr) /\ ClientFits(NoJob, pr) /\ NoJob.at = "model"
BY DEF WorkFits, ClientFits, NoJob

LEMMA AtRest ==
  ASSUME NEW rs, NEW pr, NEW place \in {"idle", "paused", "blocked"}, NEW w, w = [at |-> place]
  PROVE  WorkFits(w, rs, pr) /\ w.at = place
BY DEF WorkFits

LEMMA NoReasons == Reasons(<<>>) /\ Len(<<>>) = 0
<1>1. <<>> \in Seq({<<>>[i] : i \in DOMAIN <<>>}) OBVIOUS
<1>2. Len(<<>>) = 0 /\ DOMAIN <<>> = 1..0 OBVIOUS
<1>q. QED BY <1>1, <1>2 DEF Reasons

LEMMA SeqIs ==
  ASSUME NEW S, NEW s \in Seq(S) PROVE Len(s) \in Nat /\ DOMAIN s = 1..Len(s) /\ s \in [1..Len(s) -> S]
OBVIOUS
LEMMA IsSeq == ASSUME NEW S, NEW n \in Nat, NEW s \in [1..n -> S] PROVE s \in Seq(S)
OBVIOUS

LEMMA AnotherReason ==
  ASSUME NEW rs, Reasons(rs), NEW r, NEW new, new = Append(rs, r)
  PROVE  /\ Reasons(new) /\ Len(new) = Len(rs) + 1 /\ new[Len(rs) + 1] = r
         /\ \A i \in 1..Len(rs) : new[i] = rs[i]
<1> DEFINE S == {rs[i] : i \in DOMAIN rs} \cup {r}
           N == {new[i] : i \in DOMAIN new}
<1>1. rs \in Seq(S) /\ r \in S BY DEF Reasons
<1> HIDE DEF S
<1>2. /\ new \in Seq(S) /\ Len(new) = Len(rs) + 1 /\ new[Len(rs) + 1] = r
      /\ \A i \in 1..Len(rs) : new[i] = rs[i]
  BY <1>1
<1>3. Len(new) \in Nat /\ DOMAIN new = 1..Len(new) /\ new \in [1..Len(new) -> S] BY <1>2, SeqIs
<1>4. new \in [1..Len(new) -> N] BY <1>3
<1> HIDE DEF N
<1>5. new \in Seq(N) BY <1>3, <1>4, IsSeq
<1>q. QED BY <1>2, <1>3, <1>5 DEF N, Reasons

LEMMA InvIs ==
  ASSUME VerifyInv
  PROVE  /\ VerifyTypes /\ Kept(tasks, proven) /\ WorkFits(work, rounds, proven)
         /\ ClientFits(client, proven) /\ TalkFits
BY DEF VerifyInv

LEMMA InvNext ==
  ASSUME VerifyTypes', Kept(tasks', proven'), WorkFits(work', rounds', proven'), ClientFits(client', proven'), TalkFits'
  PROVE  VerifyInv'
BY DEF VerifyInv

LEMMA VerifyInitInv == VerifyInit => VerifyInv
<1> SUFFICES ASSUME VerifyInit PROVE VerifyInv OBVIOUS
<1> USE DEF VerifyInit
<1>1. VerifyTypes
  <2>1. \E d \in SUBSET Dirt, known \in BOOLEAN :
          tree = [dirty |-> d, built |-> FALSE, moved |-> FALSE] /\ baseline = [known |-> known, dirty |-> d]
    OBVIOUS
  <2>2. /\ tree \in [dirty : SUBSET Dirt, built : BOOLEAN, moved : BOOLEAN]
        /\ baseline \in [known : BOOLEAN, dirty : SUBSET Dirt]
    BY <2>1
  <2>3. check \in [Ids -> Results] /\ gateCheck \in Results BY DEF Results
  <2>4. Reasons(rounds) BY NoReasons
  <2>5. spoke \in [ask : BOOLEAN, changed : BOOLEAN, reminded : BOOLEAN] OBVIOUS
  <2>q. QED BY <2>2, <2>3, <2>4, <2>5 DEF VerifyTypes
<1>2. Kept(tasks, proven)
  <2>1. tasks.list = <<>> /\ tasks.rev = 0 /\ tasks = [rev |-> tasks.rev, list |-> tasks.list] OBVIOUS
  <2>2. Listed(<<>>) /\ Distinct(<<>>) /\ Evidenced(<<>>, proven) BY DEF Listed, Distinct, Evidenced
  <2>q. QED BY <2>1, <2>2 DEF Kept
<1>3. WorkFits(work, rounds, proven) BY AtRest
<1>4. ClientFits(client, proven) BY NoJobFits
<1>5. TalkFits BY NoReasons, VerifyBounds DEF TalkFits
<1>q. QED BY <1>1, <1>2, <1>3, <1>4, <1>5 DEF VerifyInv

(* What the session's person, its machine and its restarts do.             *)
LEMMA TalkFresh ==
  ASSUME VerifyInv, nags' = 0 \/ (nags' = nags /\ spoke'.reminded = spoke.reminded),
         talks' = 0, rounds' = <<>>
  PROVE  TalkFits'
<1>1. nags \in Nat /\ nags <= 1 /\ (nags = 1 => spoke.reminded) BY InvIs DEF VerifyTypes, TalkFits
<1>2. Len(rounds') = 0 BY NoReasons
<1>q. QED BY <1>1, <1>2, VerifyBounds DEF TalkFits

LEMMA TalkStays ==
  ASSUME VerifyInv, UNCHANGED <<nags, talks, rounds>>, spoke'.reminded = spoke.reminded,
         work'.at = "blocked" \/ work.at # "blocked"
  PROVE  TalkFits'
BY InvIs DEF TalkFits

LEMMA HeardIs ==
  ASSUME NEW a, NEW t, NEW g, NEW r, NEW h, NEW w, w = [at |-> a, tasks |-> t, goal |-> g, rounds |-> r, heard |-> h]
  PROVE  [w EXCEPT !.heard = TRUE] = [at |-> a, tasks |-> t, goal |-> g, rounds |-> r, heard |-> TRUE]
<1> DEFINE u == [w EXCEPT !.heard = TRUE]
           v == [at |-> a, tasks |-> t, goal |-> g, rounds |-> r, heard |-> TRUE]
<1>1. /\ DOMAIN u = {"at", "tasks", "goal", "rounds", "heard"} /\ u = [x \in DOMAIN u |-> u[x]]
      /\ u.at = a /\ u.tasks = t /\ u.goal = g /\ u.rounds = r /\ u.heard = TRUE
  OBVIOUS
<1> DEFINE D == {"at", "tasks", "goal", "rounds", "heard"}
<1>2. v = [x \in D |-> v[x]] OBVIOUS
<1>3. u = [x \in D |-> u[x]] BY <1>1
<1> HIDE DEF u
<1>4. \A x \in D : u[x] = v[x] BY <1>1
<1> HIDE DEF v, D
<1>5. u = v BY <1>2, <1>3, <1>4
<1>q. QED BY <1>5 DEF u, v

LEMMA PromptKeeps == ASSUME VerifyInv, NEW ask \in BOOLEAN, Prompt(ask) PROVE VerifyInv'
<1>0. /\ spoke' = [ask |-> ask, changed |-> FALSE, reminded |-> FALSE]
      /\ rounds' = <<>> /\ talks' = 0 /\ nags' = 0
      /\ work' = CASE work.at \in {"idle", "blocked"} -> NoJob
                   [] work.at = "stopping" -> [work EXCEPT !.heard = TRUE]
                   [] OTHER -> work
      /\ UNCHANGED <<tasks, check, proven, gateCheck, goal, tree, baseline, verifyOff, client>>
      /\ WorkFits(work, rounds, proven)
  BY InvIs DEF Prompt
<1>1. VerifyTypes' BY <1>0, InvIs, NoReasons DEF VerifyTypes
<1>2. WorkFits(work', rounds', proven')
  <2>1. CASE work.at \in {"idle", "blocked"} BY <1>0, <2>1, NoJobFits
  <2>2. CASE work.at = "stopping"
    <3>1. work' = [work EXCEPT !.heard = TRUE] BY <1>0, <2>2
    <3>2. work = [at |-> "stopping", tasks |-> work.tasks, goal |-> work.goal, rounds |-> work.rounds, heard |-> work.heard]
          /\ work.goal \in BOOLEAN /\ Reasons(work.rounds)
      BY <1>0, <2>2 DEF WorkFits
    <3>3. work' = [at |-> "stopping", tasks |-> work.tasks, goal |-> work.goal, rounds |-> work.rounds, heard |-> TRUE]
      BY <3>1, <3>2, HeardIs
    <3>q. QED BY <3>2, <3>3 DEF WorkFits
  <2>3. CASE work.at \notin {"idle", "blocked", "stopping"}
    <3>1. work' = work /\ proven' = proven BY <1>0, <2>3
    <3>q. QED BY <1>0, <2>3, <3>1 DEF WorkFits
  <2>q. QED BY <2>1, <2>2, <2>3
<1>3. TalkFits' BY <1>0, InvIs, TalkFresh
<1>q. QED BY <1>0, <1>1, <1>2, <1>3, InvIs, InvNext

LEMMA SetGoalKeeps == ASSUME VerifyInv, SetGoal PROVE VerifyInv'
<1>1. /\ goal' = "set" /\ work' = IF work.at = "idle" THEN NoJob ELSE work
      /\ UNCHANGED <<tasks, check, proven, gateCheck, spoke, rounds, tree, baseline, verifyOff, client, talks, nags>>
  BY DEF SetGoal
<1>2. VerifyTypes' BY <1>1, InvIs DEF VerifyTypes
<1>3. WorkFits(work', rounds', proven') BY <1>1, InvIs, NoJobFits
<1>4. TalkFits' BY <1>1, InvIs, NoJobFits, TalkStays
<1>q. QED BY <1>1, <1>2, <1>3, <1>4, InvIs, InvNext

LEMMA PauseKeeps == ASSUME VerifyInv, Pause PROVE VerifyInv'
<1>1. /\ work' = [at |-> "paused"] /\ work.at = "model"
      /\ UNCHANGED <<tasks, check, proven, gateCheck, goal, spoke, rounds, tree, baseline, verifyOff, client, talks, nags>>
  BY DEF Pause
<1>2. VerifyTypes' BY <1>1, InvIs DEF VerifyTypes
<1>3. WorkFits(work', rounds', proven') BY <1>1, AtRest
<1>4. TalkFits' BY <1>1, InvIs, TalkStays
<1>q. QED BY <1>1, <1>2, <1>3, <1>4, InvIs, InvNext

LEMMA ResumeKeeps == ASSUME VerifyInv, Resume PROVE VerifyInv'
<1>1. /\ work' = NoJob /\ work.at = "paused"
      /\ UNCHANGED <<tasks, check, proven, gateCheck, goal, spoke, rounds, verifyOff, client, talks, nags>>
      /\ IF verifyOff THEN UNCHANGED <<tree, baseline>>
         ELSE /\ baseline' = [known |-> TRUE, dirty |-> tree.dirty]
              /\ tree' = [tree EXCEPT !.moved = FALSE, !.built = FALSE]
  BY DEF Resume
<1>2. VerifyTypes'
  <2>1. tree' \in [dirty : SUBSET Dirt, built : BOOLEAN, moved : BOOLEAN]
        /\ baseline' \in [known : BOOLEAN, dirty : SUBSET Dirt]
    <3>1. tree \in [dirty : SUBSET Dirt, built : BOOLEAN, moved : BOOLEAN]
          /\ baseline \in [known : BOOLEAN, dirty : SUBSET Dirt]
      BY InvIs DEF VerifyTypes
    <3>2. CASE verifyOff BY <1>1, <3>1, <3>2
    <3>3. CASE ~verifyOff
      <4>1. baseline' = [known |-> TRUE, dirty |-> tree.dirty] BY <1>1, <3>3
      <4>2. tree' = [tree EXCEPT !.moved = FALSE, !.built = FALSE] BY <1>1, <3>3
      <4>3. tree' \in [dirty : SUBSET Dirt, built : BOOLEAN, moved : BOOLEAN] BY <3>1, <4>2
      <4>q. QED BY <3>1, <4>1, <4>3
    <3>q. QED BY <3>2, <3>3
  <2>q. QED BY <2>1, <1>1, InvIs DEF VerifyTypes
<1>3. WorkFits(work', rounds', proven') BY <1>1, NoJobFits
<1>4. TalkFits' BY <1>1, InvIs, NoJobFits, TalkStays
<1>q. QED BY <1>1, <1>2, <1>3, <1>4, InvIs, InvNext

LEMMA RestartKeeps == ASSUME VerifyInv, Restart PROVE VerifyInv'
<1>1. /\ baseline' = [baseline EXCEPT !.known = FALSE] /\ verifyOff' = FALSE
      /\ work' = IF work.at \in {"idle", "blocked"} THEN work ELSE [at |-> "paused"]
      /\ client' = NoJob
      /\ UNCHANGED <<tasks, check, proven, gateCheck, goal, spoke, rounds, tree, talks, nags>>
  BY DEF Restart
<1>2. VerifyTypes' BY <1>1, InvIs DEF VerifyTypes
<1>3. WorkFits(work', rounds', proven') BY <1>1, InvIs, AtRest
<1>4. TalkFits' BY <1>1, InvIs, AtRest, TalkStays
<1>5. ClientFits(client', proven') BY <1>1, NoJobFits
<1>q. QED BY <1>1, <1>2, <1>3, <1>4, <1>5, InvIs, InvNext

LEMMA ChangeKeeps == ASSUME VerifyInv, ChangeWorkspace PROVE VerifyInv'
<1>1. /\ rounds' = <<>> /\ talks' = 0 /\ spoke' = [spoke EXCEPT !.changed = TRUE] /\ work.at = "model"
      /\ \/ \E f \in Dirt : tree' = [tree EXCEPT !.dirty = @ \cup {f}]
         \/ \E b \in BOOLEAN : tree' = [dirty |-> {}, moved |-> TRUE, built |-> b]
      /\ UNCHANGED <<tasks, check, proven, gateCheck, goal, baseline, verifyOff, work, client, nags>>
  BY DEF ChangeWorkspace, ToolCalled
<1>2. tree' \in [dirty : SUBSET Dirt, built : BOOLEAN, moved : BOOLEAN]
  <2>1. CASE \E f \in Dirt : tree' = [tree EXCEPT !.dirty = @ \cup {f}] BY <2>1, InvIs DEF VerifyTypes
  <2>2. CASE \E b \in BOOLEAN : tree' = [dirty |-> {}, moved |-> TRUE, built |-> b] BY <2>2
  <2>q. QED BY <1>1, <2>1, <2>2
<1>3. spoke' \in [ask : BOOLEAN, changed : BOOLEAN, reminded : BOOLEAN] /\ spoke'.reminded = spoke.reminded
  BY <1>1, InvIs DEF VerifyTypes
<1>4. VerifyTypes' BY <1>1, <1>2, <1>3, InvIs, NoReasons DEF VerifyTypes
<1>5. WorkFits(work', rounds', proven') BY <1>1, InvIs DEF WorkFits
<1>6. TalkFits' BY <1>1, <1>3, InvIs, TalkFresh
<1>q. QED BY <1>1, <1>4, <1>5, <1>6, InvIs, InvNext

-----------------------------------------------------------------------------
(* Updating the task list.                                                 *)
LEMMA TaskCallKeeps == ASSUME VerifyInv, NEW inc \in Snapshots, TaskCall(inc) PROVE VerifyInv'
<1> DEFINE ids == IF Duplicated(inc) THEN [i \in DOMAIN inc |-> inc[i].id] ELSE TaskIDs(tasks.list, inc)
<1>1. /\ rounds' = <<>> /\ talks' = 0 /\ Fits(tasks.list, inc) /\ work.at = "model"
      /\ work' = IF verifyOff THEN [at |-> "update", inc |-> inc]
                 ELSE IF RequireDoneWhen /\ LacksDoneWhen(inc, ids) THEN NoJob
                 ELSE [at |-> "checks", inc |-> inc, ids |-> ids, todo |-> ToRun(inc, ids)]
      /\ UNCHANGED <<tasks, check, proven, gateCheck, goal, spoke, tree, baseline, verifyOff, client, nags>>
  BY DEF TaskCall, ToolCalled
<1>2. \A i \in DOMAIN inc : ids[i] \in Ids
  <2>1. CASE Duplicated(inc)
    <3>1. \A i \in DOMAIN inc : inc[i].id # 0 BY <2>1, VerifyAssumption DEF Duplicated
    <3>2. \A i \in DOMAIN inc : TaskIDs(tasks.list, inc)[i] = inc[i].id BY <3>1 DEF TaskIDs
    <3>q. QED BY <2>1, <3>2, <1>1 DEF Fits
  <2>2. CASE ~Duplicated(inc) BY <2>2, <1>1 DEF Fits
  <2>q. QED BY <2>1, <2>2
<1>3. ToRun(inc, ids) \subseteq DOMAIN inc BY DEF ToRun
<1> HIDE DEF ids
<1>4. WorkFits(work', rounds', proven')
  <2>1. CASE work' = [at |-> "update", inc |-> inc] BY <2>1 DEF WorkFits
  <2>2. CASE work' = NoJob BY <2>2, NoJobFits
  <2>3. CASE work' = [at |-> "checks", inc |-> inc, ids |-> ids, todo |-> ToRun(inc, ids)]
    BY <2>3, <1>2, <1>3 DEF WorkFits
  <2>q. QED BY <1>1, <2>1, <2>2, <2>3
<1>5. VerifyTypes' BY <1>1, InvIs, NoReasons DEF VerifyTypes
<1>6. TalkFits' BY <1>1, InvIs, TalkFresh
<1>q. QED BY <1>1, <1>4, <1>5, <1>6, InvIs, InvNext

LEMMA TodoIs ==
  ASSUME NEW a, NEW n, NEW d, NEW t, NEW u, NEW w, w = [at |-> a, inc |-> n, ids |-> d, todo |-> t]
  PROVE  [w EXCEPT !.todo = u] = [at |-> a, inc |-> n, ids |-> d, todo |-> u]
OBVIOUS

LEMMA RunCheckKeeps == ASSUME VerifyInv, RunCheck PROVE VerifyInv'
<1> DEFINE i == Min(work.todo)
           id == work.ids[i]
<1>1. /\ work.at = "checks"
      /\ UNCHANGED <<tasks, gateCheck, goal, spoke, rounds, tree, baseline, verifyOff, client, talks, nags>>
      /\ IF work.todo = {}
         THEN work' = [at |-> "update", inc |-> work.inc] /\ UNCHANGED <<check, proven>>
         ELSE \/ /\ check' = [check EXCEPT ![id] = "pass"] /\ proven' = proven \cup {id}
                 /\ work' = [work EXCEPT !.todo = @ \ {i}]
              \/ /\ check' = [check EXCEPT ![id] = "fail"] /\ work' = NoJob /\ UNCHANGED proven
  BY DEF RunCheck
<1>2. /\ work = [at |-> "checks", inc |-> work.inc, ids |-> work.ids, todo |-> work.todo]
      /\ work.inc \in Snapshots /\ work.todo \subseteq DOMAIN work.inc
      /\ \A k \in DOMAIN work.inc : work.ids[k] \in Ids
  BY <1>1, InvIs DEF WorkFits
<1>3. work.todo # {} => i \in work.todo /\ id \in Ids
  <2>1. work.todo \subseteq Nat BY <1>2, SnapshotIs
  <2>q. QED BY <2>1, <1>2, MinIs
<1>4. work.at # "blocked" BY <1>1
<1>5. check \in [Ids -> Results] /\ proven \subseteq Ids BY InvIs DEF VerifyTypes
<1>6. CASE work.todo = {}
  <2>1. work' = [at |-> "update", inc |-> work.inc] /\ UNCHANGED <<check, proven>> BY <1>1, <1>6
  <2>2. WorkFits(work', rounds', proven') BY <2>1, <1>2 DEF WorkFits
  <2>3. VerifyTypes' BY <1>1, <2>1, InvIs DEF VerifyTypes
  <2>4. TalkFits' BY <1>1, <1>4, TalkStays
  <2>q. QED BY <1>1, <2>1, <2>2, <2>3, <2>4, InvIs, InvNext
<1>7. ASSUME /\ check' = [check EXCEPT ![id] = "pass"] /\ proven' = proven \cup {id}
             /\ work' = [work EXCEPT !.todo = @ \ {i}]
             /\ work.todo # {}
      PROVE  VerifyInv'
  <2> HIDE DEF id, i
  <2>1. id \in Ids BY <1>3, <1>7
  <2>2. check' \in [Ids -> Results] /\ proven' \subseteq Ids /\ proven \subseteq proven'
    BY <2>1, <1>5, <1>7 DEF Results
  <2>3. work' = [at |-> "checks", inc |-> work.inc, ids |-> work.ids, todo |-> work.todo \ {i}]
    BY <1>2, <1>7, TodoIs
  <2>4. WorkFits(work', rounds', proven') BY <2>3, <1>2 DEF WorkFits
  <2>5. VerifyTypes' BY <1>1, <2>2, InvIs DEF VerifyTypes
  <2>6. TalkFits' BY <1>1, <1>4, TalkStays
  <2>7. Kept(tasks', proven') /\ ClientFits(client', proven') BY <1>1, <2>2, InvIs, KeptStays, ClientStays
  <2>q. QED BY <2>4, <2>5, <2>6, <2>7, InvNext
<1>8. ASSUME check' = [check EXCEPT ![id] = "fail"], work' = NoJob, UNCHANGED proven, work.todo # {}
      PROVE  VerifyInv'
  <2>1. check' \in [Ids -> Results] BY <1>3, <1>5, <1>8 DEF Results
  <2>2. WorkFits(work', rounds', proven') BY <1>8, NoJobFits
  <2>3. VerifyTypes' BY <1>1, <1>8, <2>1, InvIs DEF VerifyTypes
  <2>4. TalkFits' BY <1>1, <1>4, TalkStays
  <2>q. QED BY <1>1, <1>8, <2>2, <2>3, <2>4, InvIs, InvNext
<1>q. QED BY <1>1, <1>6, <1>7, <1>8

LEMMA GateHookKeeps == ASSUME VerifyInv, GateHookFails PROVE VerifyInv'
<1>1. /\ work' = [at |-> "update", inc |-> work.inc] /\ verifyOff' = TRUE /\ work.at = "checks"
      /\ UNCHANGED <<tasks, check, proven, gateCheck, goal, spoke, rounds, tree, baseline, client, talks, nags>>
  BY DEF GateHookFails
<1>2. VerifyTypes' BY <1>1, InvIs DEF VerifyTypes
<1>3. work.inc \in Snapshots BY <1>1, InvIs DEF WorkFits
<1>4. WorkFits(work', rounds', proven') BY <1>1, <1>3 DEF WorkFits
<1>5. TalkFits' BY <1>1, InvIs, TalkStays
<1>q. QED BY <1>1, <1>2, <1>4, <1>5, InvIs, InvNext

LEMMA ReadIs ==
  ASSUME NEW inc \in Snapshots, ~Duplicated(inc), NEW pr, NEW prev, Kept(prev, pr), NEW w,
         w = [at |-> "append", inc |-> inc, prev |-> prev, passed |-> pr]
  PROVE  Reads(w, pr) /\ w.at = "append" /\ w.inc = inc /\ w.prev = prev
BY DEF Reads

LEMMA UpdateReadKeeps == ASSUME VerifyInv, UpdateRead PROVE VerifyInv'
<1>1. /\ work.at = "update"
      /\ work' = IF work.inc = <<>> \/ Duplicated(work.inc) THEN NoJob
                 ELSE [at |-> "append", inc |-> work.inc, prev |-> tasks, passed |-> proven]
      /\ UNCHANGED <<tasks, check, proven, gateCheck, goal, spoke, rounds, tree, baseline, verifyOff, client, talks, nags>>
  BY DEF UpdateRead
<1>2. VerifyTypes' BY <1>1, InvIs DEF VerifyTypes
<1>3. work.inc \in Snapshots BY <1>1, InvIs DEF WorkFits
<1>4. WorkFits(work', rounds', proven')
  <2>1. CASE work.inc = <<>> \/ Duplicated(work.inc) BY <2>1, <1>1, NoJobFits
  <2>2. CASE ~(work.inc = <<>> \/ Duplicated(work.inc))
    <3>1. work' = [at |-> "append", inc |-> work.inc, prev |-> tasks, passed |-> proven] BY <2>2, <1>1
    <3>2. Reads(work', proven) /\ work'.at = "append" BY <3>1, <2>2, <1>3, InvIs, ReadIs
    <3>q. QED BY <3>2, <1>1 DEF WorkFits
  <2>q. QED BY <2>1, <2>2
<1>5. TalkFits' BY <1>1, InvIs, TalkStays
<1>q. QED BY <1>1, <1>2, <1>4, <1>5, InvIs, InvNext

LEMMA UpdateAppendKeeps == ASSUME VerifyInv, UpdateAppend PROVE VerifyInv'
<1>1. /\ work.at = "append" /\ Fits(work.prev.list, work.inc)
      /\ tasks' = Merge(work.prev, work.inc, work.passed) /\ work' = NoJob
      /\ UNCHANGED <<check, proven, gateCheck, goal, spoke, rounds, tree, baseline, verifyOff, client, talks, nags>>
  BY DEF UpdateAppend
<1>2. VerifyTypes' BY <1>1, InvIs DEF VerifyTypes
<1>3. Reads(work, proven) BY <1>1, InvIs DEF WorkFits
<1>4. Kept(tasks', proven)
  <2>1. work.inc \in Snapshots /\ ~Duplicated(work.inc) /\ Kept(work.prev, proven) /\ work.passed \in SUBSET proven
    BY <1>3 DEF Reads
  <2>q. QED BY <2>1, <1>1, MergeIs
<1>5. TalkFits' BY <1>1, InvIs, TalkStays
<1>q. QED BY <1>1, <1>2, <1>4, <1>5, InvIs, InvNext, NoJobFits

LEMMA ClientReadKeeps == ASSUME VerifyInv, NEW inc \in Snapshots, ClientRead(inc) PROVE VerifyInv'
<1>1. /\ ~Duplicated(inc) /\ Fits(tasks.list, inc)
      /\ client' = [at |-> "append", inc |-> inc, prev |-> tasks, passed |-> proven]
      /\ UNCHANGED <<tasks, check, proven, gateCheck, goal, spoke, rounds, tree, baseline, verifyOff, work, talks, nags>>
  BY DEF ClientRead
<1>2. VerifyTypes' BY <1>1, InvIs DEF VerifyTypes
<1>3. Reads(client', proven) /\ client'.at = "append" /\ client'.inc = inc /\ client'.prev = tasks BY <1>1, InvIs, ReadIs
<1>4. ClientFits(client', proven') BY <1>1, <1>3 DEF ClientFits
<1>5. TalkFits' BY <1>1, InvIs, TalkStays
<1>q. QED BY <1>1, <1>2, <1>4, <1>5, InvIs, InvNext

LEMMA ClientAppendKeeps == ASSUME VerifyInv, ClientAppend PROVE VerifyInv'
<1>1. /\ client.at = "append" /\ tasks' = Merge(client.prev, client.inc, client.passed) /\ client' = NoJob
      /\ UNCHANGED <<check, proven, gateCheck, goal, spoke, rounds, tree, baseline, verifyOff, work, talks, nags>>
  BY DEF ClientAppend
<1>2. VerifyTypes' BY <1>1, InvIs DEF VerifyTypes
<1>3. Reads(client, proven) /\ Fits(client.prev.list, client.inc) BY <1>1, InvIs DEF ClientFits, NoJob
<1>4. Kept(tasks', proven)
  <2>1. client.inc \in Snapshots /\ ~Duplicated(client.inc) /\ Kept(client.prev, proven)
        /\ client.passed \in SUBSET proven
    BY <1>3 DEF Reads
  <2>q. QED BY <2>1, <1>1, <1>3, MergeIs
<1>5. TalkFits' BY <1>1, InvIs, TalkStays
<1>q. QED BY <1>1, <1>2, <1>4, <1>5, InvIs, InvNext, NoJobFits

-----------------------------------------------------------------------------
(* The stop gate.                                                          *)
LEMMA StopBeginKeeps == ASSUME VerifyInv, StopBegin PROVE VerifyInv'
<1>1. /\ work' = [at |-> "stopping", tasks |-> {tasks.list[i] : i \in DOMAIN tasks.list},
                  goal |-> GoalActive, rounds |-> rounds, heard |-> FALSE]
      /\ work.at = "model"
      /\ UNCHANGED <<tasks, check, proven, gateCheck, goal, spoke, rounds, tree, baseline, verifyOff, client, talks, nags>>
  BY DEF StopBegin
<1>2. VerifyTypes' BY <1>1, InvIs DEF VerifyTypes
<1>3. Reasons(rounds) /\ GoalActive \in BOOLEAN BY InvIs DEF VerifyTypes, GoalActive
<1>4. WorkFits(work', rounds', proven')
  <2> DEFINE ts == {tasks.list[i] : i \in DOMAIN tasks.list}
             g == GoalActive
  <2>1. work' = [at |-> "stopping", tasks |-> ts, goal |-> g, rounds |-> rounds, heard |-> FALSE] BY <1>1
  <2>2. g \in BOOLEAN BY <1>3
  <2> HIDE DEF ts, g
  <2>q. QED BY <2>1, <2>2, <1>1, <1>3 DEF WorkFits
<1>5. TalkFits' BY <1>1, InvIs, TalkStays
<1>q. QED BY <1>1, <1>2, <1>4, <1>5, InvIs, InvNext

(* A stop that is let through ends the talk.                               *)
LEMMA AllowedKeeps ==
  ASSUME VerifyInv, work.at = "stopping", Allowed, UNCHANGED <<tasks, check, proven, tree, baseline, client>>,
         gateCheck' \in Results, goal' \in {"none", "set", "met", "impossible"}, verifyOff' \in BOOLEAN
  PROVE  VerifyInv'
<1>1. work' = [at |-> "idle"] /\ talks' = 0 /\ UNCHANGED <<rounds, spoke, nags>> BY DEF Allowed
<1>2. VerifyTypes' BY <1>1, InvIs DEF VerifyTypes
<1>3. WorkFits(work', rounds', proven') BY <1>1, AtRest
<1>4. TalkFits'
  <2>1. Len(rounds) \in Nat BY InvIs DEF VerifyTypes, Reasons
  <2>q. QED BY <1>1, <2>1, InvIs DEF TalkFits
<1>q. QED BY <1>1, <1>2, <1>3, <1>4, InvIs, InvNext

(* A veto is counted, and the last one of the talk blocks the session.     *)
LEMMA VetoedKeeps ==
  ASSUME VerifyInv, work.at = "stopping", NEW reason, Vetoed(reason), ~GoalActive => ~spoke.reminded,
         UNCHANGED <<tasks, check, proven, tree, baseline, client>>, gateCheck' \in Results,
         goal' \in {"none", "set", "met", "impossible"}, verifyOff' \in BOOLEAN
  PROVE  VerifyInv'
<1>1. /\ rounds' = IF work.heard THEN <<>> ELSE Append(work.rounds, reason)
      /\ talks' = IF work.heard THEN 0 ELSE talks + 1
      /\ spoke' = [spoke EXCEPT !.reminded = TRUE]
      /\ nags' = IF GoalActive THEN nags ELSE nags + 1
      /\ work' = IF StalledBy(work.rounds, reason) \/ Len(work.rounds) + 1 > MaxVetoes
                 THEN [at |-> "blocked"] ELSE NoJob
  BY DEF Vetoed
<1>2. Reasons(work.rounds) /\ (work.heard \/ work.rounds = rounds) /\ work.heard \in BOOLEAN BY InvIs DEF WorkFits
<1>3. spoke' \in [ask : BOOLEAN, changed : BOOLEAN, reminded : BOOLEAN] /\ spoke'.reminded
  BY <1>1, InvIs DEF VerifyTypes
<1>4. nags \in Nat /\ nags <= 1 /\ (nags = 1 => spoke.reminded) /\ talks \in Nat /\ talks <= Len(rounds)
      /\ Len(rounds) \in Nat /\ Len(rounds) <= MaxVetoes
  BY InvIs DEF VerifyTypes, TalkFits, Reasons
<1>5. nags' \in Nat /\ nags' <= 1 BY <1>1, <1>4
<1>6. Reasons(rounds') /\ talks' \in Nat /\ talks' <= Len(rounds') /\ Len(rounds') <= MaxVetoes + 1
  <2>1. CASE work.heard BY <2>1, <1>1, NoReasons, VerifyBounds
  <2>2. CASE ~work.heard
    <3>1. rounds' = Append(rounds, reason) /\ Reasons(rounds) BY <2>2, <1>1, <1>2
    <3>2. Reasons(rounds') /\ Len(rounds') = Len(rounds) + 1 BY <3>1, AnotherReason
    <3>q. QED BY <3>2, <2>2, <1>1, <1>4, VerifyBounds
  <2>q. QED BY <2>1, <2>2
<1>7. VerifyTypes' BY <1>3, <1>5, <1>6, InvIs DEF VerifyTypes
<1>8. WorkFits(work', rounds', proven') BY <1>1, AtRest, NoJobFits
<1>9. ASSUME work'.at # "blocked"
      PROVE  /\ Len(rounds') <= MaxVetoes
             /\ NoProgress >= 2 /\ Len(rounds') >= NoProgress =>
                  \E i, j \in (Len(rounds') - NoProgress + 1) .. Len(rounds') : rounds'[i] # rounds'[j]
  <2>1. ~StalledBy(work.rounds, reason) /\ ~(Len(work.rounds) + 1 > MaxVetoes) BY <1>1, <1>9
  <2>2. CASE work.heard BY <2>2, <1>1, NoReasons, VerifyBounds
  <2>3. CASE ~work.heard
    <3>1. rounds' = Append(rounds, reason) /\ Reasons(rounds) /\ work.rounds = rounds BY <2>3, <1>1, <1>2
    <3>2. /\ Len(rounds') = Len(rounds) + 1 /\ rounds'[Len(rounds) + 1] = reason
          /\ \A i \in 1..Len(rounds) : rounds'[i] = rounds[i]
      BY <3>1, AnotherReason
    <3>3. Len(rounds') <= MaxVetoes BY <2>1, <3>1, <3>2, <1>4, VerifyBounds
    <3>4. ASSUME NoProgress >= 2, Len(rounds') >= NoProgress
          PROVE  \E i, j \in (Len(rounds') - NoProgress + 1) .. Len(rounds') : rounds'[i] # rounds'[j]
      <4>1. Len(rounds) >= NoProgress - 1 BY <3>2, <3>4, <1>4, VerifyBounds
      <4>2. PICK i \in (Len(rounds) - NoProgress + 2) .. Len(rounds) : rounds[i] # reason
        BY <2>1, <3>1, <3>4, <4>1 DEF StalledBy
      <4>3. i \in 1..Len(rounds) /\ i \in (Len(rounds') - NoProgress + 1) .. Len(rounds')
            /\ Len(rounds) + 1 \in (Len(rounds') - NoProgress + 1) .. Len(rounds')
        BY <4>1, <4>2, <3>2, <3>4, <1>4, VerifyBounds
      <4>4. rounds'[i] # rounds'[Len(rounds) + 1] BY <4>2, <4>3, <3>2
      <4>q. QED BY <4>3, <4>4
    <3>q. QED BY <3>3, <3>4
  <2>q. QED BY <2>2, <2>3
<1>10. TalkFits' BY <1>3, <1>5, <1>6, <1>9 DEF TalkFits
<1>q. QED BY <1>7, <1>8, <1>10, InvIs, InvNext

(* The reason a stop is vetoed for, if any.                                *)
ReasonOf(result, verdict) ==
  IF AnsweredOnly THEN {}
  ELSE IF ~GoalActive THEN Reminder(work, result)
  ELSE IF BeforeJudge(work, result) # {} THEN BeforeJudge(work, result)
  ELSE IF work.goal /\ verdict \in {"unmet", "no answer"} THEN {[judge |-> verdict]}
  ELSE {}

(* A stop decided: what the gate's command and the judge said.             *)
Decides(result, verdict) ==
  /\ gateCheck' = IF GateReached(work) /\ GateRuns THEN result ELSE gateCheck
  /\ goal' = IF GoalActive /\ work.goal /\ ReasonOf(result, verdict) = {} THEN verdict ELSE goal
  /\ IF ReasonOf(result, verdict) = {} THEN Allowed ELSE Vetoed(ReasonOf(result, verdict))

LEMMA StopDecides ==
  ASSUME StopDecide
  PROVE  /\ work.at = "stopping" /\ UNCHANGED <<tasks, check, proven, tree, baseline, verifyOff, client>>
         /\ \E result \in {"pass", "fail"}, verdict \in {"met", "impossible", "unmet", "no answer"} :
              Decides(result, verdict)
<1> DEFINE R == {"pass", "fail"}
           V == {"met", "impossible", "unmet", "no answer"}
<1>1. \E result \in R, verdict \in V : Decides(result, verdict) BY DEF StopDecide, Decides, ReasonOf
<1>q. QED BY <1>1 DEF StopDecide

LEMMA StopDecideKeeps == ASSUME VerifyInv, StopDecide PROVE VerifyInv'
<1>1. PICK result \in {"pass", "fail"}, verdict \in {"met", "impossible", "unmet", "no answer"} :
        Decides(result, verdict)
  BY StopDecides
<1> DEFINE reason == ReasonOf(result, verdict)
<1>2. work.at = "stopping" /\ UNCHANGED <<tasks, check, proven, tree, baseline, verifyOff, client>> BY StopDecides
<1>3. gateCheck' \in Results /\ verifyOff' \in BOOLEAN
  <2>1. gateCheck \in Results /\ verifyOff \in BOOLEAN BY InvIs DEF VerifyTypes
  <2>q. QED BY <2>1, <1>1, <1>2 DEF Decides, Results
<1>4. goal' \in {"none", "set", "met", "impossible"}
  <2>1. goal \in {"none", "set", "met", "impossible"} BY InvIs DEF VerifyTypes
  <2>2. GoalActive /\ work.goal /\ reason = {} => verdict \notin {"unmet", "no answer"}
    BY DEF ReasonOf, AnsweredOnly
  <2>q. QED BY <2>1, <2>2, <1>1 DEF Decides
<1>5. reason # {} => (~GoalActive => ~spoke.reminded) BY DEF ReasonOf, Reminder
<1>6. IF reason = {} THEN Allowed ELSE Vetoed(reason) BY <1>1 DEF Decides
<1> HIDE DEF reason
<1>7. CASE reason = {} BY <1>2, <1>3, <1>4, <1>6, <1>7, AllowedKeeps
<1>8. CASE reason # {} BY <1>2, <1>3, <1>4, <1>5, <1>6, <1>8, VetoedKeeps
<1>q. QED BY <1>7, <1>8

LEMMA StopHookKeeps == ASSUME VerifyInv, StopHookFails PROVE VerifyInv'
<1>1. gateCheck \in Results /\ goal \in {"none", "set", "met", "impossible"} BY InvIs DEF VerifyTypes
<1>2. /\ work.at = "stopping" /\ verifyOff' = TRUE /\ Allowed
      /\ UNCHANGED <<tasks, check, proven, gateCheck, goal, tree, baseline, client>>
  BY DEF StopHookFails
<1>q. QED BY <1>1, <1>2, AllowedKeeps

-----------------------------------------------------------------------------
LEMMA VerifyStep == VerifyInv /\ [VerifyNext]_verifyVars => VerifyInv'
<1> SUFFICES ASSUME VerifyInv, [VerifyNext]_verifyVars PROVE VerifyInv' OBVIOUS
<1>1. CASE UNCHANGED verifyVars
  BY <1>1 DEF verifyVars, VerifyInv, VerifyTypes, TalkFits
<1>2. ASSUME NEW ask \in BOOLEAN, Prompt(ask) PROVE VerifyInv' BY <1>2, PromptKeeps
<1>3. CASE SetGoal BY <1>3, SetGoalKeeps
<1>4. CASE Pause BY <1>4, PauseKeeps
<1>5. CASE Resume BY <1>5, ResumeKeeps
<1>6. CASE Restart BY <1>6, RestartKeeps
<1>7. CASE ChangeWorkspace BY <1>7, ChangeKeeps
<1>8. ASSUME NEW inc \in Snapshots, TaskCall(inc) PROVE VerifyInv' BY <1>8, TaskCallKeeps
<1>9. ASSUME NEW inc \in Snapshots, ClientRead(inc) PROVE VerifyInv' BY <1>9, ClientReadKeeps
<1>10. CASE RunCheck BY <1>10, RunCheckKeeps
<1>11. CASE GateHookFails BY <1>11, GateHookKeeps
<1>12. CASE UpdateRead BY <1>12, UpdateReadKeeps
<1>13. CASE UpdateAppend BY <1>13, UpdateAppendKeeps
<1>14. CASE ClientAppend BY <1>14, ClientAppendKeeps
<1>15. CASE StopBegin BY <1>15, StopBeginKeeps
<1>16. CASE StopDecide BY <1>16, StopDecideKeeps
<1>17. CASE StopHookFails BY <1>17, StopHookKeeps
<1>q. QED BY <1>1, <1>2, <1>3, <1>4, <1>5, <1>6, <1>7, <1>8, <1>9, <1>10, <1>11, <1>12, <1>13, <1>14, <1>15,
             <1>16, <1>17 DEF VerifyNext

(* What the task list, the checks, the stop gate and the two callers that  *)
(* update the list may hold.                                               *)
THEOREM VerifyTypeCorrect == VerifySpec => []VerifyTypeOK
<1>1. VerifyInv => VerifyTypeOK
  <2>1. ASSUME VerifyInv PROVE VerifyTypeOK
    <3>1. tasks.rev \in Nat /\ \A i \in DOMAIN tasks.list : tasks.list[i] \in Task
      BY <2>1, InvIs DEF Kept, Listed
    <3>2. work.at \in {"idle", "model", "paused", "blocked", "checks", "update", "append", "stopping"}
          /\ client.at \in {"model", "append"}
      BY <2>1, InvIs DEF WorkFits, ClientFits, NoJob
    <3>q. QED BY <2>1, <3>1, <3>2, InvIs DEF VerifyTypeOK, VerifyTypes
  <2>q. QED BY <2>1
<1>q. QED BY <1>1, VerifyInitInv, VerifyStep, PTL DEF VerifySpec

(* However the session's calls and a client's updates interleave between   *)
(* their read and their append, no two tasks share an id, and a task's     *)
(* evidence names a check that did pass under that id.                     *)
THEOREM TasksAlwaysSound == VerifySpec => []TasksAreSound
<1>1. VerifyInv => TasksAreSound BY DEF VerifyInv, Kept, Distinct, Evidenced, TasksAreSound
<1>q. QED BY <1>1, VerifyInitInv, VerifyStep, PTL DEF VerifySpec

(* A model that only talks is stopped, after MaxVetoes vetoed answers and  *)
(* one more, or NoProgress for one reason; and a person is reminded once   *)
(* after each of their messages.                                           *)
THEOREM TalkAlwaysEnds == VerifySpec => []TalkEnds
<1>1. VerifyInv => TalkEnds
  <2>1. ASSUME VerifyInv PROVE TalkEnds
    <3>1. TalkFits /\ talks \in Nat /\ Len(rounds) \in Nat BY <2>1, InvIs DEF VerifyTypes, Reasons
    <3>q. QED BY <3>1, VerifyBounds DEF TalkFits, TalkEnds
  <2>q. QED BY <2>1
<1>q. QED BY <1>1, VerifyInitInv, VerifyStep, PTL DEF VerifySpec

(* The first of some objections is one of them, and there is none only     *)
(* when there is none of any kind.                                         *)
LEMMA FirstOfNone ==
  ASSUME NEW rs, DOMAIN rs \subseteq Nat, FirstOf(rs) = {}
  PROVE  \A i \in DOMAIN rs : rs[i] = {}
<1> DEFINE some == {i \in DOMAIN rs : rs[i] # {}}
<1>1. FirstOf(rs) = IF some = {} THEN {} ELSE rs[Min(some)] BY DEF FirstOf
<1>2. some = {}
  <2>1. SUFFICES ASSUME some # {} PROVE FALSE OBVIOUS
  <2>2. Min(some) \in some BY <2>1, MinIs
  <2>q. QED BY <2>1, <2>2, <1>1
<1>q. QED BY <1>2

LEMMA FirstOfFive ==
  ASSUME NEW a, NEW b, NEW c, NEW d, NEW e, FirstOf(<<a, b, c, d, e>>) = {}
  PROVE  a = {} /\ b = {} /\ c = {} /\ e = {}
<1> DEFINE rs == <<a, b, c, d, e>>
<1>1. DOMAIN rs = 1..5 /\ rs[1] = a /\ rs[2] = b /\ rs[3] = c /\ rs[5] = e OBVIOUS
<1>2. FirstOf(rs) = {} OBVIOUS
<1> HIDE DEF rs
<1>3. \A i \in DOMAIN rs : rs[i] = {} BY <1>1, <1>2, FirstOfNone
<1>q. QED BY <1>1, <1>3

LEMMA NoObjection ==
  ASSUME NEW info, NEW result, BeforeJudge(info, result) = {}
  PROVE  /\ OpenTaskReason(info.tasks) = {} /\ FailedChecks(info.tasks, gateCheck) = {} /\ GateReason(result) = {}
         /\ TreeReason = {}
<1> DEFINE a == OpenTaskReason(info.tasks)
           b == FailedChecks(info.tasks, gateCheck)
           c == GateReason(result)
           d == BuildReason
           e == TreeReason
<1>1. FirstOf(<<a, b, c, d, e>>) = {} BY DEF BeforeJudge
<1> HIDE DEF a, b, c, d, e
<1>2. a = {} /\ b = {} /\ c = {} /\ e = {} BY <1>1, FirstOfFive, Zenon
<1>q. QED BY <1>2 DEF a, b, c, e

(* A goal is met only by a stop that went through everything cheaper than  *)
(* the judge: no task open, no check of a live task failing, the gate's    *)
(* last run passed, and nothing the session changed left uncommitted.      *)
THEOREM MetIsEarnedAlways == VerifySpec => MetIsEarned
<1> DEFINE Earned ==
      /\ work.at = "stopping" /\ work.goal
      /\ \A t \in work.tasks : t.status \notin Open /\ (t.status = "blocked" => t.note)
      /\ \A t \in work.tasks : t.status # "cancelled" => check[t.id] # "fail"
      /\ gateCheck' # "fail" /\ (spoke.changed /\ HasCommand => gateCheck' = "pass")
      /\ (baseline.known /\ CleanTree) => tree.dirty \subseteq baseline.dirty
<1>1. ASSUME StopDecide, goal = "set", goal' = "met" PROVE Earned
  <2>1. PICK result \in {"pass", "fail"}, verdict \in {"met", "impossible", "unmet", "no answer"} :
          Decides(result, verdict)
    BY <1>1, StopDecides
  <2>2. work.at = "stopping" BY <1>1, StopDecides
  <2>3. GoalActive /\ work.goal /\ ReasonOf(result, verdict) = {} BY <1>1, <2>1 DEF Decides, GoalActive
  <2>4. BeforeJudge(work, result) = {} BY <2>3 DEF ReasonOf, AnsweredOnly
  <2>5. /\ OpenTaskReason(work.tasks) = {} /\ FailedChecks(work.tasks, gateCheck) = {} /\ GateReason(result) = {}
        /\ TreeReason = {}
    BY <2>4, NoObjection
  <2>6. \A t \in work.tasks : t.status \notin Open /\ (t.status = "blocked" => t.note)
    <3>1. {t \in work.tasks : t.status \in Open} \cup {t \in work.tasks : t.status = "blocked" /\ ~t.note} = {}
      BY <2>5 DEF OpenTaskReason
    <3>q. QED BY <3>1
  <2>7. (\A t \in work.tasks : t.status # "cancelled" => check[t.id] # "fail") /\ gateCheck # "fail"
    BY <2>5 DEF FailedChecks, FailedTasks
  <2>8. GateReached(work) BY <2>3, <2>5 DEF GateReached
  <2>9. GateRuns => result = "pass" BY <2>5 DEF GateReason
  <2>10. gateCheck' = IF GateRuns THEN result ELSE gateCheck BY <2>1, <2>8 DEF Decides
  <2>11. gateCheck' # "fail" /\ (spoke.changed /\ HasCommand => gateCheck' = "pass")
    BY <2>7, <2>9, <2>10 DEF GateRuns
  <2>12. (baseline.known /\ CleanTree) => tree.dirty \subseteq baseline.dirty
    BY <2>5 DEF TreeReason, SessionChanges
  <2>q. QED BY <2>2, <2>3, <2>6, <2>7, <2>11, <2>12
<1>2. [VerifyNext]_verifyVars => [goal = "set" /\ goal' = "met" => Earned]_verifyVars
  <2>1. ASSUME VerifyNext, goal = "set", goal' = "met" PROVE StopDecide
    <3>1. goal' # goal BY <2>1
    <3>q. QED BY <3>1, <2>1 DEF VerifyNext, Prompt, SetGoal, Pause, Resume, Restart, ChangeWorkspace, TaskCall,
      ClientRead, RunCheck, GateHookFails, UpdateRead, UpdateAppend, ClientAppend, StopBegin, StopHookFails
  <2> HIDE DEF Earned
  <2>q. QED BY <1>1, <2>1
<1> HIDE DEF Earned
<1>3. VerifySpec => [][goal = "set" /\ goal' = "met" => Earned]_verifyVars BY <1>2, PTL DEF VerifySpec
<1>q. QED BY <1>3 DEF MetIsEarned, Earned

-----------------------------------------------------------------------------
(* The walk of tool calls. *)
USE DEF Go, At, Decided, Outcome, Run

(* What the loop carries at each of its places.                            *)
Carries ==
  /\ At("batch")   => loop \in [at : {"batch"}, left : Nat, cut : BOOLEAN]
  /\ At("gate")    => loop \in [at : {"gate"}, i : Nat \ {0}, final : {"allow", "ask"}, left : Nat \ {0},
                                cut : BOOLEAN]
  /\ At("decided") => loop \in [at : {"decided"}, is : Verdicts, left : Nat \ {0}, cut : BOOLEAN]
  /\ At("run")     => loop \in [at : {"run"}, left : Nat \ {0}, cut : BOOLEAN]
  /\ At("result")  => loop \in [at : {"result"}, is : CallOutcomes, left : Nat \ {0}, cut : BOOLEAN]
  /\ loop.at \in {"finish", "state"} =>
       loop \in [at : {"finish", "state"}, to : {"idle"} \cup Ends, last : BOOLEAN]

TypeInv ==
  /\ ToolTypeOK
  /\ Carries
  /\ calls \in Seq(CallOutcomes \cup {"open"})

(* The call in hand is the last that was logged, and open; every other     *)
(* open one was left by an append that failed.                             *)
Held      == loop.at \in {"gate", "decided", "run", "result"}
InHand    == IF Held THEN {Len(calls)} ELSE {}
LeftOpen  == OpenCalls \ InHand
CallsLeft ==
  /\ Held => calls # <<>> /\ calls[Len(calls)] = "open"
  /\ IsFiniteSet(LeftOpen) /\ Cardinality(LeftOpen) <= faults
  /\ At("none") /\ session = "running" /\ ~cancelled => faults > 0

(* What the gates have said so far is what the verdict is made of.         *)
Verdict ==
  /\ At("gate") => said \subseteq {"allow", "ask"} /\ (loop.final = "allow" => "ask" \notin said)
  /\ At("decided") /\ loop.is \in {"allow", "ask"} =>
       said \subseteq {"allow", "ask"} /\ (loop.is = "allow" => "ask" \notin said)
  /\ At("run") => /\ said \cap {"deny", "halt"} = {}
                  /\ "ask" \in said => said \cap {"approved", "bypassed"} # {}

(* A gate's halt is still to be acted on, or has ended the batch.          *)
HaltIsKept == haltSeen => \/ At("result") /\ halted
                          \/ loop.at \in {"finish", "state", "none"}

ToolInv == TypeInv /\ CallsLeft /\ Verdict /\ HaltIsKept

-----------------------------------------------------------------------------
(* A loop that is put at a place with what belongs there carries it.       *)
LEMMA Goes ==
  ASSUME NEW p \in {"none", "turn", "stopgate"}, Go(p)
  PROVE  Carries' /\ loop'.at = p
BY DEF Carries

LEMMA GoesToBatch ==
  ASSUME NEW n \in Nat, NEW c \in BOOLEAN, loop' = [at |-> "batch", left |-> n, cut |-> c]
  PROVE  Carries' /\ loop'.at = "batch"
BY DEF Carries

LEMMA GoesToGate ==
  ASSUME NEW i \in Nat \ {0}, NEW f \in {"allow", "ask"}, NEW n \in Nat \ {0}, NEW c \in BOOLEAN,
         loop' = [at |-> "gate", i |-> i, final |-> f, left |-> n, cut |-> c]
  PROVE  Carries' /\ loop'.at = "gate" /\ loop'.final = f
BY DEF Carries

LEMMA GoesToDecided ==
  ASSUME NEW v \in Verdicts, NEW n \in Nat \ {0}, NEW c \in BOOLEAN,
         loop' = [at |-> "decided", is |-> v, left |-> n, cut |-> c]
  PROVE  Carries' /\ loop'.at = "decided" /\ loop'.is = v
BY DEF Carries

LEMMA GoesToRun ==
  ASSUME NEW n \in Nat \ {0}, NEW c \in BOOLEAN, loop' = [at |-> "run", left |-> n, cut |-> c]
  PROVE  Carries' /\ loop'.at = "run"
BY DEF Carries

LEMMA GoesToResult ==
  ASSUME NEW r \in CallOutcomes, NEW n \in Nat \ {0}, NEW c \in BOOLEAN,
         loop' = [at |-> "result", is |-> r, left |-> n, cut |-> c]
  PROVE  Carries' /\ loop'.at = "result" /\ loop'.is = r
BY DEF Carries

LEMMA GoesToEnd ==
  ASSUME NEW p \in {"finish", "state"}, NEW t \in {"idle"} \cup Ends, NEW l \in BOOLEAN,
         loop' = [at |-> p, to |-> t, last |-> l]
  PROVE  Carries' /\ loop'.at = p /\ loop'.to = t /\ loop'.last = l
BY DEF Carries

(* Where the steps that choose lead, and what goes with the choice.        *)
LEMMA TurnGoes ==
  ASSUME Turn
  PROVE  Carries' /\ loop'.at \in {"finish", "stopgate", "batch"}
<1>1. CASE loop' = [at |-> "finish", to |-> "paused", last |-> FALSE] BY <1>1, GoesToEnd DEF Ends
<1>2. CASE loop' = [at |-> "finish", to |-> "error", last |-> TRUE] BY <1>2, GoesToEnd DEF Ends
<1>3. CASE loop' = [at |-> "finish", to |-> "blocked", last |-> FALSE] BY <1>3, GoesToEnd DEF Ends
<1>4. CASE Go("stopgate") BY <1>4, Goes
<1>5. ASSUME NEW n \in 1 .. MaxCalls, NEW c \in BOOLEAN, loop' = [at |-> "batch", left |-> n, cut |-> c]
      PROVE  Carries' /\ loop'.at = "batch"
  BY <1>5, GoesToBatch, ToolCallsAssumption
<1>q. QED BY <1>1, <1>2, <1>3, <1>4, <1>5 DEF Turn

LEMMA NextCallGoes ==
  ASSUME Carries, NextCall
  PROVE  /\ Carries'
         /\ \/ loop'.at = "batch" /\ calls' = Append(calls, "cut off")
            \/ loop'.at = "gate" /\ loop'.final = "allow" /\ calls' = Append(calls, "open")
            \/ loop'.at = "result" /\ calls' = Append(calls, "open")
<1>1. loop \in [at : {"batch"}, left : Nat \ {0}, cut : BOOLEAN]
  <2>1. At("batch") /\ loop.left > 0 BY DEF NextCall
  <2>q. QED BY <2>1 DEF Carries
<1>2. CASE loop' = [loop EXCEPT !.left = 0] /\ calls' = Append(calls, "cut off")
  <2>1. loop' = [at |-> "batch", left |-> 0, cut |-> loop.cut] BY <1>1, <1>2
  <2>q. QED BY <1>1, <1>2, <2>1, GoesToBatch
<1>3. CASE /\ loop' = [at |-> "gate", i |-> 1, final |-> "allow", left |-> loop.left, cut |-> loop.cut]
           /\ calls' = Append(calls, "open")
  BY <1>1, <1>3, GoesToGate
<1>4. CASE /\ loop' = [at |-> "result", is |-> "unknown", left |-> loop.left, cut |-> loop.cut]
           /\ calls' = Append(calls, "open")
  BY <1>1, <1>4, GoesToResult DEF CallOutcomes
<1>q. QED BY <1>2, <1>3, <1>4 DEF NextCall

LEMMA CallNotLoggedGoes ==
  ASSUME Carries, CallNotLogged
  PROVE  Carries' /\ loop'.at = "batch"
<1>1. loop \in [at : {"batch"}, left : Nat \ {0}, cut : BOOLEAN] BY DEF Carries, CallNotLogged
<1>2. loop' = [at |-> "batch", left |-> loop.left - 1, cut |-> loop.cut] BY <1>1 DEF CallNotLogged
<1>q. QED BY <1>1, <1>2, GoesToBatch

LEMMA AskGateGoes ==
  ASSUME Carries, AskGate
  PROVE  /\ Carries'
         /\ \/ loop'.at = "gate" /\ loop'.final = loop.final /\ said' = said
            \/ loop'.at = "gate" /\ loop'.final = loop.final /\ said' = said \cup {"allow"}
            \/ loop'.at = "gate" /\ loop'.final = "ask" /\ said' = said \cup {"ask"}
            \/ loop'.at = "decided" /\ loop'.is \in {"deny", "halt"}
<1>1. loop \in [at : {"gate"}, i : Nat \ {0}, final : {"allow", "ask"}, left : Nat \ {0}, cut : BOOLEAN]
  BY DEF Carries, AskGate
<1>2. CASE loop' = [loop EXCEPT !.i = @ + 1] /\ said' = said
  <2>1. loop' = [at |-> "gate", i |-> loop.i + 1, final |-> loop.final, left |-> loop.left,
                 cut |-> loop.cut]
    BY <1>1, <1>2
  <2>q. QED BY <1>1, <1>2, <2>1, GoesToGate
<1>3. ASSUME NEW v \in {"deny", "halt"}, Decided(v)
      PROVE  Carries' /\ loop'.at = "decided" /\ loop'.is \in {"deny", "halt"}
  BY <1>1, <1>3, GoesToDecided DEF Verdicts
<1>4. ASSUME NEW v \in {"allow", "ask"}, said' = said \cup {v},
             loop' = [loop EXCEPT !.i = @ + 1, !.final = IF v = "ask" /\ @ = "allow" THEN v ELSE @]
      PROVE  /\ Carries' /\ loop'.at = "gate" /\ said' = said \cup {v}
             /\ loop'.final = IF v = "ask" THEN "ask" ELSE loop.final
  <2> DEFINE f == IF v = "ask" THEN "ask" ELSE loop.final
  <2>1. f \in {"allow", "ask"} BY <1>1
  <2>2. loop' = [at |-> "gate", i |-> loop.i + 1, final |-> f, left |-> loop.left, cut |-> loop.cut]
    BY <1>1, <1>4
  <2> HIDE DEF f
  <2>3. Carries' /\ loop'.at = "gate" /\ loop'.final = f BY <1>1, <2>1, <2>2, GoesToGate
  <2>q. QED BY <1>4, <2>3 DEF f
<1>q. QED BY <1>2, <1>3, <1>4 DEF AskGate, Verdicts

LEMMA GatesDoneGoes ==
  ASSUME Carries, GatesDone
  PROVE  Carries' /\ loop'.at = "decided" /\ loop'.is = loop.final
<1>1. loop \in [at : {"gate"}, i : Nat \ {0}, final : {"allow", "ask"}, left : Nat \ {0}, cut : BOOLEAN]
  BY DEF Carries, GatesDone
<1>q. QED BY <1>1, GoesToDecided DEF GatesDone, Verdicts

LEMMA ExecuteGoes ==
  ASSUME Carries, Execute
  PROVE  /\ Carries'
         /\ \/ /\ loop'.at = "run" /\ UNCHANGED haltSeen
               /\ \/ loop.is = "allow" /\ said' = said
                  \/ loop.is = "ask" /\ \E p \in {"approved", "bypassed"} : said' = said \cup {p}
            \/ loop'.at = "result" /\ (UNCHANGED haltSeen \/ halted')
<1>1. loop \in [at : {"decided"}, is : Verdicts, left : Nat \ {0}, cut : BOOLEAN]
  BY DEF Carries, Execute
<1>2. ASSUME Run PROVE Carries' /\ loop'.at = "run" BY <1>1, <1>2, GoesToRun
<1>3. ASSUME NEW r \in {"denied", "unanswered"}, Outcome(r)
      PROVE  Carries' /\ loop'.at = "result"
  BY <1>1, <1>3, GoesToResult DEF CallOutcomes
<1>4. CASE loop.is = "allow" BY <1>2, <1>4 DEF Execute
<1>5. CASE loop.is = "ask" BY <1>2, <1>3, <1>5 DEF Execute
<1>6. CASE loop.is \in {"deny", "halt"} BY <1>3, <1>6 DEF Execute
<1>q. QED BY <1>4, <1>5, <1>6 DEF Execute

LEMMA RunToolGoes ==
  ASSUME Carries, RunTool
  PROVE  Carries' /\ loop'.at = "result"
<1>1. loop \in [at : {"run"}, left : Nat \ {0}, cut : BOOLEAN] BY DEF Carries, RunTool
<1>2. PICK r \in {"ok", "error"} : Outcome(r) BY DEF RunTool
<1>q. QED BY <1>1, <1>2, GoesToResult DEF CallOutcomes

LEMMA LogResultGoes ==
  ASSUME Carries, LogResult
  PROVE  Carries' /\ (IF halted THEN loop'.at = "finish" ELSE loop'.at = "batch")
<1>1. loop \in [at : {"result"}, is : CallOutcomes, left : Nat \ {0}, cut : BOOLEAN]
  BY DEF Carries, LogResult
<1>2. CASE halted
  <2>1. loop' = [at |-> "finish", to |-> "blocked", last |-> FALSE] BY <1>2 DEF LogResult
  <2>q. QED BY <1>2, <2>1, GoesToEnd DEF Ends
<1>3. CASE ~halted
  <2>1. loop' = [at |-> "batch", left |-> loop.left - 1, cut |-> loop.cut] BY <1>3 DEF LogResult
  <2>q. QED BY <1>1, <1>3, <2>1, GoesToBatch
<1>q. QED BY <1>2, <1>3

LEMMA BatchDoneGoes ==
  ASSUME BatchDone
  PROVE  Carries' /\ loop'.at \in {"turn", "finish"}
<1>1. CASE Go("turn") BY <1>1, Goes
<1>2. CASE loop' = [at |-> "finish", to |-> "paused", last |-> FALSE] BY <1>2, GoesToEnd DEF Ends
<1>q. QED BY <1>1, <1>2 DEF BatchDone

LEMMA AskStopGoes ==
  ASSUME AskStop
  PROVE  Carries' /\ loop'.at \in {"turn", "finish", "state"}
<1>1. CASE Go("turn") BY <1>1, Goes
<1>2. CASE loop' = [at |-> "state", to |-> "idle", last |-> FALSE] BY <1>2, GoesToEnd
<1>3. CASE loop' = [at |-> "finish", to |-> "blocked", last |-> FALSE] BY <1>3, GoesToEnd DEF Ends
<1>q. QED BY <1>1, <1>2, <1>3 DEF AskStop

LEMMA FinishFailsGoes ==
  ASSUME FinishFails
  PROVE  Carries' /\ loop'.at \in {"none", "finish"}
<1>1. CASE loop.last \/ cancelled
  <2>1. Go("none") BY <1>1 DEF FinishFails
  <2>q. QED BY <2>1, Goes
<1>2. CASE ~(loop.last \/ cancelled)
  <2>1. loop' = [at |-> "finish", to |-> "error", last |-> TRUE] BY <1>2 DEF FinishFails
  <2>q. QED BY <2>1, GoesToEnd DEF Ends
<1>q. QED BY <1>1, <1>2

LEMMA ReportGoes ==
  ASSUME Carries, Report
  PROVE  /\ Carries'
         /\ \/ loop'.at = "state" /\ UNCHANGED faults
            \/ loop'.at \in {"none", "finish"} /\ faults' = faults + 1
<1>1. loop \in [at : {"finish", "state"}, to : {"idle"} \cup Ends, last : BOOLEAN] BY DEF Carries, Report
<1>2. CASE loop' = [loop EXCEPT !.at = "state"] /\ UNCHANGED faults
  <2>1. loop' = [at |-> "state", to |-> loop.to, last |-> loop.last] BY <1>1, <1>2
  <2>q. QED BY <1>1, <1>2, <2>1, GoesToEnd
<1>3. CASE FinishFails /\ faults' = faults + 1 BY <1>3, FinishFailsGoes
<1>q. QED BY <1>2, <1>3 DEF Report

LEMMA ChangeStateGoes ==
  ASSUME Carries, ChangeState
  PROVE  /\ Carries'
         /\ \/ loop'.at = "none" /\ session' \in {"idle"} \cup Ends /\ UNCHANGED faults
            \/ loop'.at \in {"none", "finish"} /\ faults' = faults + 1 /\ UNCHANGED session
<1>1. loop.to \in {"idle"} \cup Ends BY DEF Carries, ChangeState
<1>2. CASE session' = loop.to /\ Go("none") /\ UNCHANGED faults BY <1>1, <1>2, Goes
<1>3. CASE FinishFails /\ faults' = faults + 1 /\ UNCHANGED session BY <1>3, FinishFailsGoes
<1>q. QED BY <1>2, <1>3 DEF ChangeState

-----------------------------------------------------------------------------
LEMMA TypeInit == ToolInit => TypeInv
<1> SUFFICES ASSUME ToolInit PROVE TypeInv OBVIOUS
<1>1. loop = [at |-> "none"] BY DEF ToolInit
<1>2. Carries /\ loop.at = "none" BY <1>1 DEF Carries
<1>3. calls = <<>> BY DEF ToolInit
<1>4. \A j \in DOMAIN calls : calls[j] \in CallOutcomes \cup {"open"} BY <1>3
<1>5. replies \in 0 .. MaxReplies /\ faults \in 0 .. MaxFaults BY ToolCallsAssumption DEF ToolInit
<1>6. ToolTypeOK BY <1>2, <1>4, <1>5 DEF ToolInit, ToolTypeOK
<1>q. QED BY <1>2, <1>3, <1>6 DEF TypeInv

(* The places of the loop are those there are, and it carries what it      *)
(* should, whatever happens.                                               *)
AllPlaces == {"none", "turn", "batch", "gate", "decided", "run", "result", "stopgate", "finish",
              "state"}

LEMMA CarriesStep ==
  ASSUME TypeInv, [ToolNext]_toolVars
  PROVE  Carries' /\ loop'.at \in AllPlaces
<1>0. Carries /\ loop.at \in AllPlaces BY DEF TypeInv, ToolTypeOK, AllPlaces
<1>1. CASE UNCHANGED loop BY <1>0, <1>1 DEF Carries
<1>2. CASE ZombieEnds \/ SetMode \/ Interrupt \/ ToIdle \/ ForgetSession
  BY <1>1, <1>2 DEF ZombieEnds, SetMode, Interrupt, ToIdle, ForgetSession
<1>3. CASE Start \/ Interrupted BY <1>3, Goes DEF Start, Interrupted, AllPlaces
<1>4. CASE Turn \/ NextCall \/ CallNotLogged \/ AskGate \/ GatesDone \/ Execute
  BY <1>0, <1>4, TurnGoes, NextCallGoes, CallNotLoggedGoes, AskGateGoes, GatesDoneGoes, ExecuteGoes
  DEF AllPlaces
<1>5. CASE RunTool \/ LogResult \/ BatchDone \/ AskStop \/ Report \/ ChangeState
  BY <1>0, <1>5, RunToolGoes, LogResultGoes, BatchDoneGoes, AskStopGoes, ReportGoes, ChangeStateGoes
  DEF AllPlaces
<1>q. QED BY <1>1, <1>2, <1>3, <1>4, <1>5 DEF ToolNext, toolVars

LEMMA AppendType ==
  ASSUME NEW S, NEW s \in Seq(S), NEW e \in S
  PROVE  /\ Append(s, e) \in Seq(S) /\ Len(Append(s, e)) = Len(s) + 1
         /\ DOMAIN Append(s, e) = 1 .. Len(s) + 1 /\ Append(s, e)[Len(s) + 1] = e
         /\ \A j \in 1 .. Len(s) : Append(s, e)[j] = s[j]
OBVIOUS

LEMMA ReplaceType ==
  ASSUME NEW S, NEW s \in Seq(S), NEW i, NEW e \in S
  PROVE  /\ [s EXCEPT ![i] = e] \in Seq(S) /\ Len([s EXCEPT ![i] = e]) = Len(s)
         /\ \A j \in 1 .. Len(s) : [s EXCEPT ![i] = e][j] = IF j = i THEN e ELSE s[j]
<1>1. DOMAIN s = 1 .. Len(s) /\ \A j \in 1 .. Len(s) : s[j] \in S OBVIOUS
<1>2. [s EXCEPT ![i] = e] \in [1 .. Len(s) -> S] BY <1>1
<1>q. QED BY <1>1, <1>2

(* The batch in the log: nothing changes but its end.                      *)
LEMMA CallsStep ==
  ASSUME TypeInv, [ToolNext]_toolVars
  PROVE  /\ calls' \in Seq(CallOutcomes \cup {"open"})
         /\ \/ calls' = calls
            \/ NextCall /\ \E r \in {"cut off", "open"} : calls' = Append(calls, r)
            \/ LogResult /\ calls' = [calls EXCEPT ![Len(calls)] = loop.is]
<1>0. Carries /\ calls \in Seq(CallOutcomes \cup {"open"}) BY DEF TypeInv
<1>1. CASE NextCall
  <2>1. PICK r \in {"cut off", "open"} : calls' = Append(calls, r) BY <1>0, <1>1, NextCallGoes
  <2>2. r \in CallOutcomes \cup {"open"} BY DEF CallOutcomes
  <2>3. calls' \in Seq(CallOutcomes \cup {"open"}) BY <1>0, <2>1, <2>2, AppendType
  <2>q. QED BY <1>1, <2>1, <2>3
<1>2. CASE LogResult
  <2>1. loop.is \in CallOutcomes
    <3>1. At("result") BY <1>2 DEF LogResult
    <3>q. QED BY <1>0, <3>1 DEF Carries
  <2>2. calls' = calls \/ calls' = [calls EXCEPT ![Len(calls)] = loop.is] BY <1>2 DEF LogResult
  <2>3. [calls EXCEPT ![Len(calls)] = loop.is] \in Seq(CallOutcomes \cup {"open"})
    BY <1>0, <2>1, ReplaceType
  <2>q. QED BY <1>0, <1>2, <2>2, <2>3
<1>3. CASE calls' = calls BY <1>0, <1>3
<1>q. QED
  BY <1>1, <1>2, <1>3
  DEF ToolNext, toolVars, ZombieEnds, SetMode, Start, Turn, CallNotLogged, AskGate, GatesDone, Execute,
      RunTool, BatchDone, AskStop, Report, ChangeState, Interrupt, Interrupted, ToIdle, ForgetSession

LEMMA TypeStep == TypeInv /\ [ToolNext]_toolVars => TypeInv'
<1> SUFFICES ASSUME TypeInv, [ToolNext]_toolVars PROVE TypeInv' OBVIOUS
<1>1. Carries' /\ loop'.at \in AllPlaces /\ calls' \in Seq(CallOutcomes \cup {"open"})
  BY CarriesStep, CallsStep
<1>2. ToolTypeOK BY DEF TypeInv
<1>3. off' \subseteq Modules /\ zombies' \subseteq Modules
  <2>1. CASE AskGate
    <3>1. At("gate") /\ loop.i \in 1 .. Len(Gates)
      <4>1. At("gate") /\ loop.i <= Len(Gates) BY <2>1 DEF AskGate
      <4>2. loop.i \in Nat \ {0} BY <4>1 DEF TypeInv, Carries
      <4>q. QED BY <4>1, <4>2, ToolCallsAssumption
    <3>2. Gates[loop.i] \in Modules
      BY <3>1, ToolCallsAssumption DEF Modules, Range
    <3>q. QED BY <1>2, <2>1, <3>2 DEF AskGate, ToolTypeOK
  <2>2. CASE Hooks BY <1>2, <2>2 DEF Hooks, ToolTypeOK
  <2>3. CASE off' \subseteq off /\ zombies' \subseteq zombies BY <1>2, <2>3 DEF ToolTypeOK
  <2>q. QED
    BY <2>1, <2>2, <2>3
    DEF ToolNext, toolVars, ZombieEnds, SetMode, Start, Turn, NextCall, CallNotLogged, GatesDone,
        Execute, RunTool, LogResult, BatchDone, AskStop, Report, ChangeState, Interrupt, Interrupted,
        ToIdle, ForgetSession
<1>4. session' \in {"running", "idle"} \cup Ends
  <2>1. CASE ChangeState
    BY <1>2, <2>1, ChangeStateGoes DEF TypeInv, ToolTypeOK
  <2>2. CASE session' \in {session, "running", "idle"} BY <1>2, <2>2 DEF ToolTypeOK
  <2>q. QED
    BY <2>1, <2>2
    DEF ToolNext, toolVars, ZombieEnds, SetMode, Start, Turn, NextCall, CallNotLogged, AskGate,
        GatesDone, Execute, RunTool, LogResult, BatchDone, AskStop, Report, Interrupt, Interrupted,
        ToIdle, ForgetSession
<1>5. halted' \in BOOLEAN /\ cancelled' \in BOOLEAN /\ haltSeen' \in BOOLEAN
  BY <1>2
  DEF ToolTypeOK, ToolNext, toolVars, ZombieEnds, SetMode, Start, Turn, NextCall, CallNotLogged,
      AskGate, GatesDone, Execute, RunTool, LogResult, BatchDone, AskStop, Report, ChangeState,
      Interrupt, Interrupted, ToIdle, ForgetSession
<1>6. mode' \in {"ask", "auto", "bypass"}
  BY <1>2
  DEF ToolTypeOK, ToolNext, toolVars, ZombieEnds, SetMode, Start, Turn, NextCall, CallNotLogged,
      AskGate, GatesDone, Execute, RunTool, LogResult, BatchDone, AskStop, Report, ChangeState,
      Interrupt, Interrupted, ToIdle, ForgetSession
<1>7. said' \subseteq Verdicts \cup {"approved", "bypassed"}
  BY <1>2
  DEF ToolTypeOK, ToolNext, toolVars, ZombieEnds, SetMode, Start, Turn, NextCall, CallNotLogged,
      AskGate, GatesDone, Execute, RunTool, LogResult, BatchDone, AskStop, Report, ChangeState,
      Interrupt, Interrupted, ToIdle, ForgetSession
<1>8. replies' \in 0 .. MaxReplies /\ faults' \in 0 .. MaxFaults
  <2>1. CASE Turn BY <1>2, <2>1, ToolCallsAssumption DEF Turn, ToolTypeOK
  <2>2. CASE CallNotLogged BY <1>2, <2>2, ToolCallsAssumption DEF CallNotLogged, ToolTypeOK
  <2>3. CASE LogResult \/ Report \/ ChangeState
    <3>1. replies' = replies /\ (faults' = faults \/ (faults < MaxFaults /\ faults' = faults + 1))
      BY <2>3 DEF LogResult, Report, ChangeState
    <3>q. QED BY <1>2, <3>1, ToolCallsAssumption DEF ToolTypeOK
  <2>4. CASE replies' = replies /\ faults' = faults BY <1>2, <2>4 DEF ToolTypeOK
  <2>q. QED
    BY <2>1, <2>2, <2>3, <2>4
    DEF ToolNext, toolVars, ZombieEnds, SetMode, Start, NextCall, AskGate, GatesDone, Execute, RunTool,
        BatchDone, AskStop, Interrupt, Interrupted, ToIdle, ForgetSession
<1>9. ToolTypeOK'
  <2>1. \A i \in DOMAIN calls' : calls'[i] \in CallOutcomes \cup {"open"} BY <1>1
  <2>q. QED BY <1>1, <1>3, <1>4, <1>5, <1>6, <1>7, <1>8, <2>1 DEF ToolTypeOK, AllPlaces
<1>q. QED BY <1>1, <1>9 DEF TypeInv

-----------------------------------------------------------------------------
(* Steps of others: the loop stays where it is, with what it has heard.    *)
Elsewhere == ZombieEnds \/ SetMode \/ Interrupt \/ ToIdle \/ ForgetSession \/ UNCHANGED toolVars

LEMMA ElsewhereStays ==
  ASSUME Elsewhere
  PROVE  /\ UNCHANGED <<loop, calls, said, haltSeen, faults, halted>>
         /\ At("none") /\ session' = "running" /\ ~cancelled' => session = "running" /\ ~cancelled
BY DEF Elsewhere, ZombieEnds, SetMode, Interrupt, ToIdle, ForgetSession, toolVars

(* A call is in hand from when it is logged to when its result is.         *)
LEMMA HeldStep ==
  ASSUME TypeInv, [ToolNext]_toolVars, ~NextCall, ~LogResult
  PROVE  (Held' <=> Held) /\ (faults' = faults \/ faults' = faults + 1)
<1>0. Carries BY DEF TypeInv
<1> USE DEF Held
<1>1. CASE Elsewhere BY <1>1, ElsewhereStays
<1>2. CASE Start \/ Interrupted BY <1>2, Goes DEF Start, Interrupted
<1>3. CASE Turn BY <1>3, TurnGoes DEF Turn
<1>4. CASE CallNotLogged BY <1>0, <1>4, CallNotLoggedGoes DEF CallNotLogged
<1>5. CASE AskGate BY <1>0, <1>5, AskGateGoes DEF AskGate
<1>6. CASE GatesDone BY <1>0, <1>6, GatesDoneGoes DEF GatesDone
<1>7. CASE Execute BY <1>0, <1>7, ExecuteGoes DEF Execute
<1>8. CASE RunTool BY <1>0, <1>8, RunToolGoes DEF RunTool
<1>9. CASE BatchDone BY <1>9, BatchDoneGoes DEF BatchDone
<1>10. CASE AskStop BY <1>10, AskStopGoes DEF AskStop
<1>11. CASE Report BY <1>0, <1>11, ReportGoes DEF Report
<1>12. CASE ChangeState BY <1>0, <1>12, ChangeStateGoes DEF ChangeState
<1>q. QED
  BY <1>1, <1>2, <1>3, <1>4, <1>5, <1>6, <1>7, <1>8, <1>9, <1>10, <1>11, <1>12
  DEF ToolNext, Elsewhere

LEMMA CallsLeftStep ==
  ASSUME TypeInv, CallsLeft, [ToolNext]_toolVars
  PROVE  CallsLeft'
<1>0. /\ Carries /\ calls \in Seq(CallOutcomes \cup {"open"}) /\ faults \in Nat
      /\ IsFiniteSet(LeftOpen) /\ Cardinality(LeftOpen) <= faults
  BY ToolCallsAssumption DEF TypeInv, ToolTypeOK, CallsLeft
<1>1. Cardinality(LeftOpen) \in Nat BY <1>0, FS_CardinalityType
<1>2. (Held => calls # <<>> /\ calls[Len(calls)] = "open")' /\ IsFiniteSet(LeftOpen)'
      /\ Cardinality(LeftOpen)' <= faults'
  <2>1. CASE NextCall
    <3>1. ~Held BY <2>1 DEF NextCall, Held
    <3>2. LeftOpen = OpenCalls BY <3>1 DEF LeftOpen, InHand, OpenCalls
    <3>3. faults' = faults BY <2>1 DEF NextCall
    <3>4. CASE loop'.at = "batch" /\ calls' = Append(calls, "cut off")
      <4>1. OpenCalls' = OpenCalls
        <5>1. DOMAIN calls' = 1 .. Len(calls) + 1 /\ calls'[Len(calls) + 1] = "cut off"
              /\ DOMAIN calls = 1 .. Len(calls) /\ Len(calls) \in Nat
              /\ \A i \in 1 .. Len(calls) : calls'[i] = calls[i]
          <6> DEFINE S == CallOutcomes \cup {"open"}
                     e == "cut off"
          <6>1. e \in S /\ calls \in Seq(S) BY <1>0 DEF CallOutcomes
          <6>2. Len(calls) \in Nat /\ DOMAIN calls = 1 .. Len(calls) BY <1>0
          <6> HIDE DEF S, e
          <6>3. /\ DOMAIN Append(calls, e) = 1 .. Len(calls) + 1 /\ Append(calls, e)[Len(calls) + 1] = e
                /\ \A i \in 1 .. Len(calls) : Append(calls, e)[i] = calls[i]
            BY <6>1, AppendType
          <6> USE DEF e
          <6>q. QED BY <3>4, <6>2, <6>3
        <5>2. \A i : i \in OpenCalls' <=> i \in OpenCalls
          <6>1. Len(calls) \in Nat BY <1>0
          <6>2. 1 .. Len(calls) + 1 = (1 .. Len(calls)) \cup {Len(calls) + 1} BY <6>1
          <6>3. Len(calls) + 1 \notin 1 .. Len(calls) BY <6>1
          <6>q. QED BY <5>1, <6>2, <6>3 DEF OpenCalls
        <5>q. QED BY <5>2
      <4>2. ~Held' BY <3>4 DEF Held
      <4>q. QED BY <1>0, <3>2, <3>3, <4>1, <4>2 DEF LeftOpen, InHand
    <3>5. CASE loop'.at \in {"gate", "result"} /\ calls' = Append(calls, "open")
      <4>1. Held' BY <3>5 DEF Held
      <4>2. /\ Len(calls') = Len(calls) + 1 /\ calls'[Len(calls')] = "open" /\ calls' # <<>>
            /\ DOMAIN calls' = 1 .. Len(calls) + 1
            /\ \A i \in 1 .. Len(calls) : calls'[i] = calls[i]
        BY <1>0, <3>5
      <4>3. OpenCalls' \ {Len(calls')} = OpenCalls
        BY <1>0, <4>2 DEF OpenCalls
      <4>q. QED BY <1>0, <3>2, <3>3, <4>1, <4>2, <4>3 DEF LeftOpen, InHand
    <3>q. QED BY <1>0, <2>1, <3>4, <3>5, NextCallGoes
  <2>2. CASE LogResult
    <3>1. Held /\ ~Held' BY <1>0, <2>2, LogResultGoes DEF LogResult, Held
    <3>2. Len(calls) \in DOMAIN calls /\ calls[Len(calls)] = "open"
      BY <1>0, <3>1 DEF CallsLeft
    <3>3. LeftOpen = OpenCalls \ {Len(calls)} /\ LeftOpen' = OpenCalls'
      BY <3>1 DEF LeftOpen, InHand
    <3>4. CASE calls' = [calls EXCEPT ![Len(calls)] = loop.is] /\ faults' = faults
      <4>1. loop.is \in CallOutcomes
        <5>1. At("result") BY <2>2 DEF LogResult
        <5>q. QED BY <1>0, <5>1 DEF Carries
      <4>2. loop.is # "open" BY <4>1 DEF CallOutcomes
      <4>3. DOMAIN calls' = DOMAIN calls
            /\ \A i \in DOMAIN calls : calls'[i] = IF i = Len(calls) THEN loop.is ELSE calls[i]
        BY <3>4
      <4>4. OpenCalls' = OpenCalls \ {Len(calls)} BY <3>2, <4>2, <4>3 DEF OpenCalls
      <4>q. QED BY <1>0, <3>1, <3>3, <3>4, <4>4
    <3>5. CASE calls' = calls /\ faults' = faults + 1
      <4>1. OpenCalls' = LeftOpen \cup {Len(calls)} BY <3>2, <3>3, <3>5 DEF OpenCalls
      <4>2. IsFiniteSet(OpenCalls') /\ Cardinality(OpenCalls') <= Cardinality(LeftOpen) + 1
        <5>1. /\ IsFiniteSet(LeftOpen \cup {Len(calls)})
              /\ Cardinality(LeftOpen \cup {Len(calls)}) =
                   IF Len(calls) \in LeftOpen THEN Cardinality(LeftOpen) ELSE Cardinality(LeftOpen) + 1
          BY <1>0, FS_AddElement
        <5>q. QED BY <1>1, <4>1, <5>1
      <4>3. Cardinality(OpenCalls') \in Nat BY <4>2, FS_CardinalityType
      <4>q. QED BY <1>0, <1>1, <3>1, <3>3, <3>5, <4>2, <4>3
    <3>q. QED BY <2>2, <3>4, <3>5 DEF LogResult
  <2>3. CASE ~NextCall /\ ~LogResult
    <3>1. calls' = calls BY <2>3, CallsStep
    <3>2. (Held' <=> Held) /\ (faults' = faults \/ faults' = faults + 1) BY <2>3, HeldStep
    <3>3. LeftOpen' = LeftOpen BY <3>1, <3>2 DEF LeftOpen, InHand, OpenCalls
    <3>q. QED BY <1>0, <1>1, <3>1, <3>2, <3>3 DEF CallsLeft
  <2>q. QED BY <2>1, <2>2, <2>3
<1>3. (At("none") /\ session = "running" /\ ~cancelled => faults > 0)'
  <2>1. CASE Elsewhere BY <2>1, ElsewhereStays DEF CallsLeft
  <2>2. CASE Interrupted BY <2>2 DEF Interrupted
  <2>3. CASE Report BY <1>0, <2>3, ReportGoes
  <2>4. CASE ChangeState BY <1>0, <2>4, ChangeStateGoes DEF Ends
  <2>5. CASE Start BY <2>5, Goes DEF Start
  <2>6. CASE Turn \/ NextCall \/ CallNotLogged \/ AskGate \/ GatesDone \/ Execute
    BY <1>0, <2>6, TurnGoes, NextCallGoes, CallNotLoggedGoes, AskGateGoes, GatesDoneGoes, ExecuteGoes
  <2>7. CASE RunTool \/ LogResult \/ BatchDone \/ AskStop
    BY <1>0, <2>7, RunToolGoes, LogResultGoes, BatchDoneGoes, AskStopGoes
  <2>q. QED BY <2>1, <2>2, <2>3, <2>4, <2>5, <2>6, <2>7 DEF ToolNext, Elsewhere
<1>q. QED BY <1>2, <1>3 DEF CallsLeft

LEMMA VerdictStep ==
  ASSUME TypeInv, Verdict, [ToolNext]_toolVars
  PROVE  Verdict'
<1>0. Carries BY DEF TypeInv
<1>1. CASE Elsewhere BY <1>1, ElsewhereStays DEF Verdict
<1>2. CASE NextCall BY <1>0, <1>2, NextCallGoes DEF NextCall, Verdict
<1>3. CASE AskGate
  <2>1. At("gate") BY <1>3 DEF AskGate
  <2>q. QED BY <1>0, <1>3, <2>1, AskGateGoes DEF Verdict
<1>4. CASE GatesDone
  <2>1. At("gate") /\ said' = said BY <1>4 DEF GatesDone
  <2>q. QED BY <1>0, <1>4, <2>1, GatesDoneGoes DEF Verdict
<1>5. CASE Execute
  <2>1. At("decided") BY <1>5 DEF Execute
  <2>q. QED BY <1>0, <1>5, <2>1, ExecuteGoes DEF Verdict
<1>6. CASE Start \/ Interrupted BY <1>6, Goes DEF Start, Interrupted, Verdict
<1>7. CASE Turn \/ CallNotLogged BY <1>0, <1>7, TurnGoes, CallNotLoggedGoes DEF Verdict
<1>8. CASE RunTool \/ LogResult \/ BatchDone \/ AskStop \/ Report \/ ChangeState
  BY <1>0, <1>8, RunToolGoes, LogResultGoes, BatchDoneGoes, AskStopGoes, ReportGoes, ChangeStateGoes
  DEF Verdict
<1>q. QED BY <1>1, <1>2, <1>3, <1>4, <1>5, <1>6, <1>7, <1>8 DEF ToolNext, Elsewhere

LEMMA HaltStep ==
  ASSUME TypeInv, HaltIsKept, [ToolNext]_toolVars
  PROVE  HaltIsKept'
<1>0. Carries BY DEF TypeInv
<1>1. CASE Elsewhere BY <1>1, ElsewhereStays DEF HaltIsKept
<1>2. CASE Start BY <1>2 DEF Start, HaltIsKept
<1>3. CASE Execute
  <2>1. ~haltSeen BY <1>3 DEF HaltIsKept, Execute
  <2>q. QED BY <1>0, <1>3, <2>1, ExecuteGoes DEF HaltIsKept
<1>4. CASE LogResult
  <2>1. haltSeen' = haltSeen /\ At("result") BY <1>4 DEF LogResult
  <2>q. QED BY <1>0, <1>4, <2>1, LogResultGoes DEF HaltIsKept
<1>5. CASE Turn \/ NextCall \/ CallNotLogged \/ AskGate \/ GatesDone \/ RunTool \/ BatchDone \/ AskStop
           \/ Interrupted
  BY <1>5 DEF Turn, NextCall, CallNotLogged, AskGate, GatesDone, RunTool, BatchDone, AskStop,
     Interrupted, HaltIsKept
<1>6. CASE Report \/ ChangeState
  <2>1. haltSeen' = haltSeen BY <1>6 DEF Report, ChangeState
  <2>q. QED BY <1>0, <1>6, <2>1, ReportGoes, ChangeStateGoes DEF HaltIsKept
<1>q. QED BY <1>1, <1>2, <1>3, <1>4, <1>5, <1>6 DEF ToolNext, Elsewhere

LEMMA ToolInvInit == ToolInit => ToolInv
<1> SUFFICES ASSUME ToolInit PROVE ToolInv OBVIOUS
<1>1. loop.at = "none" /\ session = "idle" /\ calls = <<>> /\ faults = 0 /\ haltSeen = FALSE
  <2>1. loop = [at |-> "none"] BY DEF ToolInit
  <2>q. QED BY <2>1 DEF ToolInit
<1>2. LeftOpen = {} BY <1>1 DEF LeftOpen, OpenCalls
<1>3. CallsLeft BY <1>1, <1>2, FS_EmptySet DEF CallsLeft, Held
<1>q. QED BY <1>1, <1>3, TypeInit DEF ToolInv, Verdict, HaltIsKept

LEMMA ToolInvStep == ToolInv /\ [ToolNext]_toolVars => ToolInv'
BY TypeStep, CallsLeftStep, VerdictStep, HaltStep DEF ToolInv

(* Every part of a session's turn keeps its type, whatever the gates say   *)
(* and whichever hooks hang or fail.                                       *)
THEOREM ToolTypeCorrect == ToolSpec => []ToolTypeOK
<1>1. TypeInv => ToolTypeOK BY DEF TypeInv
<1>q. QED BY TypeInit, TypeStep, <1>1, PTL DEF ToolSpec

(* A batch of calls is carried out soundly: each call has its result before*)
(* the next is logged, a loop that is gone has logged its end, and a tool  *)
(* runs only if no gate that was asked said no and a person approved what  *)
(* one wanted to ask about; after a halt nothing more runs (executeTools,  *)
(* GateTool, finish).                                                      *)
THEOREM CallsAreCarriedOut == ToolSpec => []CallsAreSound
<1>1. ToolInv => CallsAreSound
  BY DEF ToolInv, CallsAreSound, NothingIsLeftOpen, ANoIsHeeded, CallsLeft, LeftOpen, InHand, Held,
     Verdict, HaltIsKept
<1>q. QED BY ToolInvInit, ToolInvStep, <1>1, PTL DEF ToolSpec

-----------------------------------------------------------------------------
(* The help for a stuck session. *)
Asks == [spoken : Nat, turns : Nat]
EventType ==
  [k : {"user", "reply", "own ask", "ask", "summary", "kept"}, of : Asks \cup SUBSET Nat, ok : BOOLEAN]
WaitType == [at : {"none", "running", "answered", "failed"}, of : Asks]
LossType == [restarts : 0 .. MaxLosses, raced : SUBSET Asks, unkept : BOOLEAN]

StuckTypes ==
  /\ history \in Seq(EventType) /\ waiting \in WaitType
  /\ hook \in {"turns", "request", "call", "summary"} /\ losses \in LossType

(* An ask is recorded when it was earned, or overtaken.                    *)
Earned(log) == Asked(log) < AutoMax /\ StuckTurns(log) >= AutoAfter * (Asked(log) + 1)
Measured(log, of, raced) ==
  /\ Asked(log) < AutoMax
  /\ of \notin raced => PersonSpoke(log) = of.spoken /\ StuckTurns(log) >= AutoAfter * (Asked(log) + 1)
AsksMeasured(log, raced) ==
  \A i \in DOMAIN log : log[i].k = "ask" => Measured(SubSeq(log, 1, i - 1), log[i].of, raced)

(* An ask that waits was earned in the stretch it is about, and so it is   *)
(* still if nobody has spoken since.                                       *)
WaitFits(wt, hk, log, raced) ==
  /\ wt.at # "none" => /\ wt.of.spoken <= PersonSpoke(log)
                       /\ wt.of.spoken = PersonSpoke(log) => Earned(log)
  /\ hk = "call" => /\ wt.at \in {"answered", "failed"} /\ Asked(log) < AutoMax
                    /\ wt.of \in raced \/ PersonSpoke(log) = wt.of.spoken

(* What the last summary retired is in a block behind it; between the two  *)
(* there is only the person.                                               *)
LastSummary(log, s) == s \in Of(log, "summary") /\ \A j \in Of(log, "summary") : j <= s
Retired(log, s) == {i \in Answers(log) : i < s}
Covered(log, s) == \A i \in KeptBlock(Retired(log, s)) : \E b \in Of(log, "kept") : b > s /\ i \in log[b].of
KeptFits(log, hk, unkept) ==
  /\ hk # "summary" /\ ~unkept => \A s \in DOMAIN log : LastSummary(log, s) => Covered(log, s)
  /\ hk = "summary" => \E s \in DOMAIN log : LastSummary(log, s) /\ \A i \in DOMAIN log : i > s => log[i].k = "user"

StuckInv ==
  /\ StuckTypes /\ AsksMeasured(history, losses.raced) /\ WaitFits(waiting, hook, history, losses.raced)
  /\ KeptFits(history, hook, losses.unkept)

-----------------------------------------------------------------------------
LEMMA StuckBounds ==
  AutoAfter \in Nat /\ AutoMax \in Nat /\ KeptRoom \in Nat /\ MaxHistory \in Nat /\ MaxLosses \in Nat
BY StuckAskAssumption

LEMMA SpansIs ==
  ASSUME NEW log \in Seq(EventType)
  PROVE  /\ Len(log) \in Nat /\ DOMAIN log = 1 .. Len(log) /\ \A i \in DOMAIN log : log[i] \in EventType
BY LenProperties

LEMMA Counts ==
  ASSUME NEW log \in Seq(EventType), NEW S \in SUBSET DOMAIN log
  PROVE  IsFiniteSet(S) /\ Cardinality(S) \in Nat
<1>1. Len(log) \in Nat /\ DOMAIN log = 1 .. Len(log) BY LenProperties
<1>2. IsFiniteSet(1 .. Len(log)) BY <1>1, FS_Interval
<1> QED BY <1>1, <1>2, FS_Subset, FS_CardinalityType

LEMMA CountsAre ==
  ASSUME NEW log \in Seq(EventType)
  PROVE  Asked(log) \in Nat /\ StuckTurns(log) \in Nat /\ PersonSpoke(log) \in Nat
<1>1. /\ Stretch(log) \cap Of(log, "reply") \in SUBSET DOMAIN log
      /\ Stretch(log) \cap Of(log, "ask") \in SUBSET DOMAIN log
      /\ Of(log, "user") \in SUBSET DOMAIN log
  BY DEF Of, Stretch
<1> QED BY <1>1, Counts DEF Asked, StuckTurns, PersonSpoke

LEMMA AppendIs ==
  ASSUME NEW log \in Seq(EventType), NEW e \in EventType, NEW n, n = Len(log), NEW more, more = Append(log, e)
  PROVE  /\ more \in Seq(EventType) /\ n \in Nat /\ DOMAIN log = 1..n /\ DOMAIN more = 1 .. (n + 1)
         /\ \A i \in 1..n : more[i] = log[i]
         /\ more[n + 1] = e /\ n + 1 \notin DOMAIN log
         /\ DOMAIN more = DOMAIN log \cup {n + 1}
<1>1. n \in Nat /\ DOMAIN log = 1..n BY LenProperties
<1>2. more \in Seq(EventType) /\ Len(more) = n + 1 /\ (\A i \in 1..n : more[i] = log[i]) /\ more[n + 1] = e OBVIOUS
<1>3. DOMAIN more = 1 .. (n + 1) BY <1>2, LenProperties
<1> QED BY <1>1, <1>2, <1>3

(* What an append does to the sets the counts are of.                      *)
SetsGrow(log, e, n, more) ==
  /\ \A k : Of(more, k) = IF e.k = k THEN Of(log, k) \cup {n + 1} ELSE Of(log, k)
  /\ e.k # "user" => Stretch(more) = Stretch(log) \cup {n + 1}
  /\ e.k = "user" => Stretch(more) = {}

LEMMA SetsAfter ==
  ASSUME NEW log \in Seq(EventType), NEW e \in EventType, NEW n, n = Len(log), NEW more, more = Append(log, e)
  PROVE  SetsGrow(log, e, n, more)
<1>1. /\ n \in Nat /\ DOMAIN log = 1..n /\ DOMAIN more = 1 .. (n + 1)
      /\ \A i \in 1..n : more[i] = log[i]
      /\ more[n + 1] = e /\ n + 1 \notin DOMAIN log /\ DOMAIN more = DOMAIN log \cup {n + 1}
  BY AppendIs
<1>2. ASSUME NEW k PROVE Of(more, k) = IF e.k = k THEN Of(log, k) \cup {n + 1} ELSE Of(log, k)
  BY <1>1 DEF Of
<1>3. Of(log, "user") \subseteq 1..n BY <1>1 DEF Of
<1>4. ASSUME e.k # "user" PROVE Stretch(more) = Stretch(log) \cup {n + 1}
  <2>1. Of(more, "user") = Of(log, "user") BY <1>2, <1>4
  <2> QED BY <2>1, <1>1, <1>3 DEF Stretch
<1>5. ASSUME e.k = "user" PROVE Stretch(more) = {}
  <2>1. n + 1 \in Of(more, "user") BY <1>2, <1>5
  <2> QED BY <2>1, <1>1 DEF Stretch
<1> QED BY <1>2, <1>4, <1>5 DEF SetsGrow

LEMMA OneMore ==
  ASSUME NEW log \in Seq(EventType), NEW S \in SUBSET DOMAIN log, NEW x, x \notin DOMAIN log
  PROVE  Cardinality(S \cup {x}) = Cardinality(S) + 1
<1>1. IsFiniteSet(S) BY Counts
<1> QED BY <1>1, FS_AddElement

(* ... and so to the counts.                                               *)
LEMMA CountsAfter ==
  ASSUME NEW log \in Seq(EventType), NEW e \in EventType, NEW more, more = Append(log, e)
  PROVE  /\ PersonSpoke(more) = PersonSpoke(log) + (IF e.k = "user" THEN 1 ELSE 0)
         /\ Asked(more) = IF e.k = "user" THEN 0 ELSE Asked(log) + (IF e.k = "ask" THEN 1 ELSE 0)
         /\ StuckTurns(more) = IF e.k = "user" THEN 0 ELSE StuckTurns(log) + (IF e.k = "reply" THEN 1 ELSE 0)
<1> DEFINE n == Len(log)
<1>1. n + 1 \notin DOMAIN log BY AppendIs
<1>2. /\ \A k : Of(more, k) = IF e.k = k THEN Of(log, k) \cup {n + 1} ELSE Of(log, k)
      /\ e.k # "user" => Stretch(more) = Stretch(log) \cup {n + 1}
      /\ e.k = "user" => Stretch(more) = {}
  <2>1. SetsGrow(log, e, n, more) BY SetsAfter
  <2> HIDE DEF n
  <2> QED BY <2>1 DEF SetsGrow
<1>3. Of(log, "user") \in SUBSET DOMAIN log /\ Stretch(log) \in SUBSET DOMAIN log BY DEF Of, Stretch
<1>4. PersonSpoke(log) \in Nat /\ Asked(log) \in Nat /\ StuckTurns(log) \in Nat BY CountsAre
<1> HIDE DEF n
<1>5. PersonSpoke(more) = PersonSpoke(log) + (IF e.k = "user" THEN 1 ELSE 0)
  <2>1. CASE e.k = "user"
    <3>1. Of(more, "user") = Of(log, "user") \cup {n + 1} BY <2>1, <1>2
    <3>2. Cardinality(Of(log, "user") \cup {n + 1}) = Cardinality(Of(log, "user")) + 1 BY <1>1, <1>3, OneMore
    <3> QED BY <2>1, <3>1, <3>2 DEF PersonSpoke
  <2>2. CASE e.k # "user" BY <2>2, <1>2, <1>4 DEF PersonSpoke
  <2> QED BY <2>1, <2>2
<1>6. CASE e.k = "user"
  <2>1. Stretch(more) \cap Of(more, "ask") = {} /\ Stretch(more) \cap Of(more, "reply") = {} BY <1>6, <1>2
  <2>2. Asked(more) = 0 /\ StuckTurns(more) = 0 BY <2>1, FS_EmptySet DEF Asked, StuckTurns
  <2> QED BY <2>2, <1>5, <1>6
<1>7. CASE e.k # "user"
  <2>1. ASSUME NEW k
        PROVE  Cardinality(Stretch(more) \cap Of(more, k)) =
                 Cardinality(Stretch(log) \cap Of(log, k)) + (IF e.k = k THEN 1 ELSE 0)
    <3> DEFINE S == Stretch(log) \cap Of(log, k)
    <3>0. S \in SUBSET DOMAIN log /\ Of(log, k) \in SUBSET DOMAIN log BY <1>3 DEF Of
    <3>1. CASE e.k = k
      <4>1. Stretch(more) \cap Of(more, k) = S \cup {n + 1} BY <1>7, <1>2, <3>1
      <4>2. Cardinality(S \cup {n + 1}) = Cardinality(S) + 1 BY <1>1, <3>0, OneMore
      <4> QED BY <3>1, <4>1, <4>2
    <3>2. CASE e.k # k
      <4>1. Stretch(more) \cap Of(more, k) = S BY <1>7, <1>2, <3>2, <3>0, <1>1
      <4>2. Cardinality(S) \in Nat BY <3>0, Counts
      <4>3. (IF e.k = k THEN 1 ELSE 0) = 0 BY <3>2
      <4>4. Cardinality(S) = Cardinality(S) + 0 BY <4>2
      <4> HIDE DEF S
      <4>5. Cardinality(Stretch(more) \cap Of(more, k)) = Cardinality(S) + (IF e.k = k THEN 1 ELSE 0)
        BY <4>1, <4>3, <4>4
      <4> QED BY <4>5 DEF S
    <3> QED BY <3>1, <3>2
  <2>2. /\ Asked(more) = Asked(log) + (IF e.k = "ask" THEN 1 ELSE 0)
        /\ StuckTurns(more) = StuckTurns(log) + (IF e.k = "reply" THEN 1 ELSE 0)
    BY <2>1 DEF Asked, StuckTurns
  <2> QED BY <2>2, <1>5, <1>7
<1> QED BY <1>6, <1>7

(* What stood before an ask stands before it still.                        *)
LEMMA BeforeStands ==
  ASSUME NEW log \in Seq(EventType), NEW e \in EventType, NEW more, more = Append(log, e), NEW i \in DOMAIN more
  PROVE  SubSeq(more, 1, i - 1) = SubSeq(log, 1, i - 1)
<1> DEFINE n == Len(log)
<1>1. /\ more \in Seq(EventType) /\ n \in Nat /\ DOMAIN log = 1..n /\ DOMAIN more = 1 .. (n + 1)
      /\ \A j \in 1..n : more[j] = log[j]
  BY AppendIs
<1> HIDE DEF n
<1>2. i - 1 \in Int /\ 1 \in Int /\ i - 1 <= n BY <1>1
<1>3. \A j \in 1 .. (i - 1) : more[j] \in EventType /\ log[j] \in EventType /\ more[j] = log[j]
  <2>1. ASSUME NEW j \in 1 .. (i - 1) PROVE j \in 1..n BY <1>1, <1>2
  <2>2. \A j \in 1..n : log[j] \in EventType BY <1>1, SpansIs
  <2> QED BY <2>1, <2>2, <1>1
<1>4. /\ SubSeq(more, 1, i - 1) \in Seq(EventType)
      /\ Len(SubSeq(more, 1, i - 1)) = (IF 1 <= i - 1 THEN i - 1 - 1 + 1 ELSE 0)
      /\ \A j \in 1 .. i - 1 - 1 + 1 : SubSeq(more, 1, i - 1)[j] = more[1 + j - 1]
  BY <1>2, <1>3, SubSeqProperties
<1>5. /\ SubSeq(log, 1, i - 1) \in Seq(EventType)
      /\ Len(SubSeq(log, 1, i - 1)) = (IF 1 <= i - 1 THEN i - 1 - 1 + 1 ELSE 0)
      /\ \A j \in 1 .. i - 1 - 1 + 1 : SubSeq(log, 1, i - 1)[j] = log[1 + j - 1]
  BY <1>2, <1>3, SubSeqProperties
<1>6. Len(SubSeq(more, 1, i - 1)) = Len(SubSeq(log, 1, i - 1)) BY <1>4, <1>5
<1>7. ASSUME NEW j \in 1 .. Len(SubSeq(more, 1, i - 1)) PROVE SubSeq(more, 1, i - 1)[j] = SubSeq(log, 1, i - 1)[j]
  <2>1. j \in 1 .. i - 1 - 1 + 1 /\ j \in 1 .. (i - 1) /\ 1 + j - 1 = j BY <1>2, <1>4
  <2>2. SubSeq(more, 1, i - 1)[j] = more[1 + j - 1] /\ SubSeq(log, 1, i - 1)[j] = log[1 + j - 1] BY <2>1, <1>4, <1>5
  <2> QED BY <2>1, <2>2, <1>3
<1> HIDE <1>1
<1> QED BY <1>4, <1>5, <1>6, <1>7, SeqEqual

LEMMA StillMeasured ==
  ASSUME NEW log \in Seq(EventType), NEW e \in EventType, NEW more, more = Append(log, e),
         NEW raced, NEW raced2, raced \subseteq raced2, AsksMeasured(log, raced),
         e.k = "ask" => Measured(log, e.of, raced2)
  PROVE  AsksMeasured(more, raced2)
<1> DEFINE n == Len(log)
<1>1. /\ n \in Nat /\ DOMAIN log = 1..n /\ DOMAIN more = 1 .. (n + 1)
      /\ \A j \in 1..n : more[j] = log[j]
      /\ more[n + 1] = e
  BY AppendIs
<1>2. ASSUME NEW i \in DOMAIN more, more[i].k = "ask" PROVE Measured(SubSeq(more, 1, i - 1), more[i].of, raced2)
  <2>1. SubSeq(more, 1, i - 1) = SubSeq(log, 1, i - 1) BY BeforeStands
  <2>2. CASE i \in 1..n
    <3>1. more[i] = log[i] BY <2>2, <1>1
    <3>2. Measured(SubSeq(log, 1, i - 1), log[i].of, raced) BY <1>2, <2>2, <3>1, <1>1 DEF AsksMeasured
    <3>3. Measured(SubSeq(log, 1, i - 1), log[i].of, raced2) BY <3>2 DEF Measured
    <3> QED BY <2>1, <3>1, <3>3
  <2>3. CASE i = n + 1
    <3>1. more[i] = e /\ i - 1 = n BY <2>3, <1>1
    <3>2. SubSeq(log, 1, n) = log BY SubSeqFull
    <3>3. SubSeq(more, 1, i - 1) = log BY <2>1, <3>1, <3>2
    <3>4. Measured(log, e.of, raced2) BY <1>2, <3>1
    <3> QED BY <3>1, <3>3, <3>4
  <2> QED BY <1>1, <2>2, <2>3
<1> QED BY <1>2 DEF AsksMeasured

LEMMA StillWithRaced ==
  ASSUME NEW log, NEW raced, NEW raced2, raced \subseteq raced2, AsksMeasured(log, raced)
  PROVE  AsksMeasured(log, raced2)
BY DEF AsksMeasured, Measured

(* A block, or what stands behind one, is where it was.                    *)
LEMMA StillKept ==
  ASSUME NEW log \in Seq(EventType), NEW e \in EventType, NEW more, more = Append(log, e), e.k # "summary",
         NEW s \in DOMAIN log
  PROVE  /\ LastSummary(more, s) <=> LastSummary(log, s)
         /\ Covered(log, s) => Covered(more, s)
<1> DEFINE n == Len(log)
<1>1. /\ n \in Nat /\ DOMAIN log = 1..n /\ DOMAIN more = 1 .. (n + 1)
      /\ \A j \in 1..n : more[j] = log[j]
      /\ more[n + 1] = e /\ n + 1 \notin DOMAIN log /\ DOMAIN more = DOMAIN log \cup {n + 1}
  BY AppendIs
<1>2. SetsGrow(log, e, n, more) BY SetsAfter
<1> HIDE DEF n
<1>3. Of(more, "summary") = Of(log, "summary") BY <1>2 DEF SetsGrow
<1>4. LastSummary(more, s) <=> LastSummary(log, s) BY <1>3 DEF LastSummary
<1>5. ASSUME Covered(log, s) PROVE Covered(more, s)
  <2>1. CASE e.k = "user"
    <3>1. Retired(more, s) = {} BY <2>1, <1>2 DEF SetsGrow, Retired, Answers
    <3> QED BY <3>1 DEF Covered, KeptBlock
  <2>2. CASE e.k # "user"
    <3>1. Stretch(more) = Stretch(log) \cup {n + 1} BY <2>2, <1>2 DEF SetsGrow
    <3>2. ASSUME NEW i PROVE i \in Retired(more, s) <=> i \in Retired(log, s)
      <4>1. Stretch(log) \subseteq 1..n BY <1>1 DEF Stretch
      <4>2. i \in Stretch(more) /\ i < s <=> i \in Stretch(log) /\ i < s BY <3>1, <4>1, <1>1
      <4>3. i \in Stretch(log) => more[i] = log[i] BY <4>1, <1>1
      <4> QED BY <4>2, <4>3 DEF Retired, Answers
    <3>3. Retired(more, s) = Retired(log, s) BY <3>2
    <3>4. ASSUME NEW b \in Of(log, "kept") PROVE b \in Of(more, "kept") /\ more[b] = log[b] BY <1>1 DEF Of
    <3> QED BY <1>5, <3>3, <3>4 DEF Covered
  <2> QED BY <2>1, <2>2
<1> QED BY <1>4, <1>5

LEMMA AppendKept ==
  ASSUME NEW log \in Seq(EventType), NEW e \in EventType, NEW more, more = Append(log, e),
         e.k # "summary", NEW hk, hk # "summary", NEW hk2, hk2 # "summary", NEW unkept, KeptFits(log, hk, unkept)
  PROVE  KeptFits(more, hk2, unkept)
<1> DEFINE n == Len(log)
<1>1. DOMAIN more = DOMAIN log \cup {n + 1} /\ more[n + 1] = e BY AppendIs
<1>2. ASSUME NEW s \in DOMAIN more, ~unkept, LastSummary(more, s) PROVE Covered(more, s)
  <2>1. s \in DOMAIN log BY <1>2, <1>1 DEF LastSummary, Of
  <2>2. LastSummary(log, s) /\ (Covered(log, s) => Covered(more, s)) BY <1>2, <2>1, StillKept
  <2>3. Covered(log, s) BY <1>2, <2>1, <2>2 DEF KeptFits
  <2> QED BY <2>2, <2>3
<1> QED BY <1>2 DEF KeptFits

-----------------------------------------------------------------------------
LEMMA StuckInitFits == StuckInit => StuckInv
<1> SUFFICES ASSUME StuckInit PROVE StuckInv OBVIOUS
<1> DEFINE e == Event("user")
<1>0. e \in EventType /\ e.k = "user" BY DEF Event, NoAsk, EventType, Asks
<1> HIDE DEF e
<1>1. history = <<e>> BY DEF StuckInit, e
<1>2. history \in Seq(EventType) /\ DOMAIN history = {1} /\ history[1] = e BY <1>0, <1>1
<1>3. StuckTypes
  <2>1. waiting \in WaitType BY DEF StuckInit, NoAsk, WaitType, Asks
  <2>2. losses \in LossType BY StuckBounds DEF StuckInit, LossType
  <2> QED BY <1>2, <2>1, <2>2 DEF StuckTypes, StuckInit
<1>4. AsksMeasured(history, losses.raced) BY <1>0, <1>2 DEF AsksMeasured
<1>5. WaitFits(waiting, hook, history, losses.raced) BY DEF StuckInit, NoAsk, WaitFits
<1>6. KeptFits(history, hook, losses.unkept)
  <2>1. \A s : ~LastSummary(history, s) BY <1>0, <1>2 DEF LastSummary, Of
  <2> QED BY <2>1 DEF KeptFits, StuckInit
<1> QED BY <1>3, <1>4, <1>5, <1>6 DEF StuckInv

(* What the module waits for, when something other than an ask is logged.  *)
LEMMA WaitAfter ==
  ASSUME NEW log \in Seq(EventType), NEW e \in EventType, NEW more, more = Append(log, e),
         NEW wt \in WaitType, NEW hk, NEW raced, e.k \notin {"ask", "user"}, WaitFits(wt, hk, log, raced)
  PROVE  WaitFits(wt, hk, more, raced)
<1>0. /\ PersonSpoke(log) \in Nat /\ Asked(log) \in Nat /\ StuckTurns(log) \in Nat
  BY CountsAre
<1>1. /\ PersonSpoke(more) = PersonSpoke(log) /\ Asked(more) = Asked(log)
      /\ StuckTurns(more) >= StuckTurns(log) /\ StuckTurns(more) \in Nat
  <2>1. /\ PersonSpoke(more) = PersonSpoke(log) + (IF e.k = "user" THEN 1 ELSE 0)
        /\ Asked(more) = IF e.k = "user" THEN 0 ELSE Asked(log) + (IF e.k = "ask" THEN 1 ELSE 0)
        /\ StuckTurns(more) = IF e.k = "user" THEN 0 ELSE StuckTurns(log) + (IF e.k = "reply" THEN 1 ELSE 0)
    BY CountsAfter
  <2> QED BY <1>0, <2>1
<1>2. Earned(log) => Earned(more)
  <2>1. /\ Asked(log) \in Nat /\ StuckTurns(log) \in Nat /\ AutoAfter * (Asked(log) + 1) \in Nat
    BY CountsAre, StuckBounds
  <2> QED BY <1>1, <2>1 DEF Earned
<1> QED BY <1>1, <1>2 DEF WaitFits

(* The person speaks: what is being recorded is overtaken.                 *)
LEMMA WaitOvertaken ==
  ASSUME NEW log \in Seq(EventType), NEW e \in EventType, NEW more, more = Append(log, e), e.k = "user",
         NEW wt \in WaitType, NEW hk, NEW raced, WaitFits(wt, hk, log, raced),
         NEW raced2, raced2 = IF hk = "call" THEN raced \cup {wt.of} ELSE raced
  PROVE  WaitFits(wt, hk, more, raced2)
<1>0. /\ PersonSpoke(log) \in Nat /\ Asked(log) \in Nat /\ StuckTurns(log) \in Nat
  BY CountsAre
<1>1. /\ PersonSpoke(more) = PersonSpoke(log) + (IF e.k = "user" THEN 1 ELSE 0)
      /\ Asked(more) = IF e.k = "user" THEN 0 ELSE Asked(log) + (IF e.k = "ask" THEN 1 ELSE 0)
  BY CountsAfter
<1>2. PersonSpoke(more) = PersonSpoke(log) + 1 /\ Asked(more) = 0 BY <1>1
<1>3. ASSUME wt.at # "none" PROVE wt.of.spoken <= PersonSpoke(more) /\ wt.of.spoken # PersonSpoke(more)
  <2>1. wt.of.spoken \in Nat BY DEF WaitType, Asks
  <2>2. wt.of.spoken <= PersonSpoke(log) BY <1>3 DEF WaitFits
  <2> QED BY <2>1, <2>2, <1>0, <1>2
<1>4. ASSUME hk = "call" PROVE wt.at \in {"answered", "failed"} /\ Asked(more) < AutoMax /\ wt.of \in raced2
  <2>1. wt.at \in {"answered", "failed"} /\ Asked(log) < AutoMax BY <1>4 DEF WaitFits
  <2>2. Asked(more) < AutoMax BY <2>1, <1>0, <1>2, StuckBounds
  <2> QED BY <2>1, <2>2, <1>4
<1> QED BY <1>3, <1>4 DEF WaitFits

LEMMA WaitNone == ASSUME NEW hk, hk # "call", NEW log, NEW raced PROVE WaitFits(NoAsk, hk, log, raced)
BY DEF WaitFits, NoAsk

(* The summary is the last of the log; the person may speak behind it; and *)
(* the block that follows has every answer the summary retired.            *)
LEMMA SummaryIsLast ==
  ASSUME NEW log \in Seq(EventType), NEW e \in EventType, NEW more, more = Append(log, e), e.k = "summary",
         NEW unkept
  PROVE  KeptFits(more, "summary", unkept)
<1> DEFINE n == Len(log)
<1>1. n \in Nat /\ DOMAIN more = 1 .. (n + 1) /\ more[n + 1] = e BY AppendIs
<1> HIDE DEF n
<1>2. LastSummary(more, n + 1) BY <1>1 DEF LastSummary, Of
<1>3. \A i \in DOMAIN more : ~(i > n + 1) BY <1>1
<1> QED BY <1>1, <1>2, <1>3 DEF KeptFits

LEMMA SpokenAfterSummary ==
  ASSUME NEW log \in Seq(EventType), NEW e \in EventType, NEW more, more = Append(log, e), e.k = "user",
         NEW unkept, KeptFits(log, "summary", unkept)
  PROVE  KeptFits(more, "summary", unkept)
<1> DEFINE n == Len(log)
<1>1. /\ n \in Nat /\ DOMAIN log = 1..n /\ DOMAIN more = 1 .. (n + 1)
      /\ \A j \in 1..n : more[j] = log[j]
      /\ more[n + 1] = e
  BY AppendIs
<1> HIDE DEF n
<1>2. PICK s \in DOMAIN log : LastSummary(log, s) /\ \A i \in DOMAIN log : i > s => log[i].k = "user"
  BY DEF KeptFits
<1>3. LastSummary(more, s) BY <1>2, StillKept
<1>4. ASSUME NEW i \in DOMAIN more, i > s PROVE more[i].k = "user"
  <2>1. CASE i \in 1..n BY <2>1, <1>1, <1>2, <1>4
  <2>2. CASE i = n + 1 BY <2>2, <1>1
  <2> QED BY <1>1, <2>1, <2>2
<1> QED BY <1>1, <1>2, <1>3, <1>4 DEF KeptFits

LEMMA BlockKeeps ==
  ASSUME NEW log \in Seq(EventType), NEW e \in EventType, NEW more, more = Append(log, e), e.k = "kept",
         e.of = KeptBlock(Answers(log)), NEW unkept,
         NEW s \in DOMAIN log, LastSummary(log, s), \A i \in DOMAIN log : i > s => log[i].k = "user"
  PROVE  KeptFits(more, "turns", unkept)
<1> DEFINE n == Len(log)
<1>1. /\ n \in Nat /\ DOMAIN log = 1..n /\ DOMAIN more = 1 .. (n + 1)
      /\ \A j \in 1..n : more[j] = log[j]
      /\ more[n + 1] = e /\ n + 1 \notin DOMAIN log
  BY AppendIs
<1>2. SetsGrow(log, e, n, more) BY SetsAfter
<1> HIDE DEF n
<1>3. LastSummary(more, s) BY StillKept
<1>4. ASSUME NEW i PROVE i \in Retired(more, s) <=> i \in Answers(log)
  <2>1. Stretch(log) \subseteq 1..n /\ s \in 1..n BY <1>1 DEF Stretch
  <2>2. Stretch(more) = Stretch(log) \cup {n + 1} BY <1>2 DEF SetsGrow
  <2>3. i \in Stretch(log) => more[i] = log[i] BY <2>1, <1>1
  <2>4. i \in Answers(log) => i < s
    <3>1. SUFFICES ASSUME i \in Answers(log), ~(i < s) PROVE FALSE OBVIOUS
    <3>2. i \in 1..n /\ log[i].k \in {"ask", "own ask"} BY <3>1, <2>1 DEF Answers
    <3>3. i # s BY <3>2 DEF LastSummary, Of
    <3>4. i > s
      <4>1. \A a, b \in 1..n : ~(a < b) /\ a # b => a > b BY <1>1
      <4> QED BY <4>1, <3>1, <3>2, <3>3, <2>1
    <3> QED BY <3>2, <3>4, <1>1
  <2>5. i \in Stretch(more) /\ i < s <=> i \in Stretch(log) /\ i < s BY <2>1, <2>2, <1>1
  <2> QED BY <2>3, <2>4, <2>5 DEF Retired, Answers
<1>5. Retired(more, s) = Answers(log) BY <1>4
<1>6. n + 1 \in Of(more, "kept") /\ n + 1 > s BY <1>1 DEF Of
<1>7. Covered(more, s) BY <1>1, <1>5, <1>6 DEF Covered
<1>8. ASSUME NEW q, LastSummary(more, q) PROVE q = s
  <2>1. DOMAIN more \subseteq Nat BY <1>1
  <2>2. q \in Of(more, "summary") /\ s \in Of(more, "summary") /\ q <= s /\ s <= q BY <1>3, <1>8 DEF LastSummary
  <2>3. q \in Nat /\ s \in Nat BY <2>1, <2>2 DEF Of
  <2> QED BY <2>2, <2>3
<1> QED BY <1>7, <1>8 DEF KeptFits

LEMMA StuckStep == StuckInv /\ [StuckNext]_askVars => StuckInv'
<1> SUFFICES ASSUME StuckInv, [StuckNext]_askVars PROVE StuckInv' OBVIOUS
<1>a. /\ history \in Seq(EventType) /\ waiting \in WaitType
      /\ hook \in {"turns", "request", "call", "summary"} /\ losses \in LossType
  BY DEF StuckInv, StuckTypes
<1>b. /\ AsksMeasured(history, losses.raced) /\ WaitFits(waiting, hook, history, losses.raced)
      /\ KeptFits(history, hook, losses.unkept)
  BY DEF StuckInv
<1>c. NoAsk \in WaitType BY DEF NoAsk, WaitType, Asks
<1>d. ASSUME NEW k \in {"user", "reply", "own ask", "summary"} PROVE Event(k) \in EventType /\ Event(k).k = k
  BY DEF Event, EventType, NoAsk, Asks
<1>e. ASSUME NEW e \in EventType, Log(e) PROVE history' = Append(history, e) /\ history' \in Seq(EventType)
  BY <1>e, <1>a DEF Log
<1>1. CASE UNCHANGED askVars
  BY <1>1 DEF askVars, StuckInv, StuckTypes
<1>2. CASE TurnEnd
  <2> DEFINE e == Event("reply")
  <2>1. Log(e) /\ hook = "request" /\ hook' = "turns" /\ UNCHANGED losses BY <1>2 DEF TurnEnd
  <2>2. e \in EventType /\ e.k = "reply" BY <1>d
  <2> HIDE DEF e
  <2>3. history' = Append(history, e) /\ history' \in Seq(EventType) BY <2>1, <2>2, <1>e
  <2>4. PersonSpoke(history') \in Nat /\ StuckTurns(history') \in Nat BY <2>3, CountsAre
  <2>5. Question(history') \in Asks /\ Question(history').spoken = PersonSpoke(history') BY <2>4 DEF Question, Asks
  <2>6. waiting' \in WaitType /\ WaitFits(waiting', hook', history', losses.raced)
    <3>1. CASE ~(Due(history') /\ waiting = NoAsk)
      <4>1. waiting' = waiting BY <3>1, <1>2 DEF TurnEnd
      <4>2. WaitFits(waiting, hook, history', losses.raced) BY <2>2, <2>3, <1>a, <1>b, WaitAfter
      <4> QED BY <4>1, <4>2, <2>1, <1>a DEF WaitFits
    <3>2. CASE Due(history') /\ waiting = NoAsk
      <4>1. waiting' = [at |-> "running", of |-> Question(history')] BY <3>2, <1>2 DEF TurnEnd
      <4>2. Earned(history') BY <3>2 DEF Due, Earned
      <4> QED BY <4>1, <4>2, <2>1, <2>4, <2>5 DEF WaitFits, WaitType
    <3> QED BY <3>1, <3>2
  <2>7. AsksMeasured(history', losses.raced) BY <2>2, <2>3, <1>a, <1>b, StillMeasured
  <2>8. KeptFits(history', hook', losses.unkept) BY <2>1, <2>2, <2>3, <1>a, <1>b, AppendKept
  <2> QED BY <2>1, <2>3, <2>6, <2>7, <2>8, <1>a DEF StuckInv, StuckTypes
<1>3. CASE OwnAsk
  <2>1. PICK ok \in BOOLEAN : Log([Event("own ask") EXCEPT !.ok = ok]) BY <1>3 DEF OwnAsk
  <2> DEFINE e == [Event("own ask") EXCEPT !.ok = ok]
  <2>2. e \in EventType /\ e.k = "own ask" BY DEF Event, EventType, NoAsk, Asks
  <2> HIDE DEF e
  <2>3. history' = Append(history, e) /\ history' \in Seq(EventType) BY <2>1, <2>2, <1>e DEF e
  <2>4. hook = "turns" /\ UNCHANGED <<waiting, hook, losses>> BY <1>3 DEF OwnAsk
  <2>5. WaitFits(waiting, hook, history', losses.raced) BY <2>2, <2>3, <1>a, <1>b, WaitAfter
  <2>6. AsksMeasured(history', losses.raced) BY <2>2, <2>3, <1>a, <1>b, StillMeasured
  <2>7. KeptFits(history', hook, losses.unkept) BY <2>2, <2>3, <2>4, <1>a, <1>b, AppendKept
  <2> QED BY <2>3, <2>4, <2>5, <2>6, <2>7, <1>a DEF StuckInv, StuckTypes
<1>4. CASE RunCLI
  <2>1. PICK end \in {"answered", "failed"} : waiting' = [waiting EXCEPT !.at = end] BY <1>4 DEF RunCLI
  <2>2. waiting' \in WaitType /\ waiting'.at = end /\ waiting'.of = waiting.of /\ waiting.at = "running"
    BY <2>1, <1>4, <1>a DEF WaitType, RunCLI
  <2>3. UNCHANGED <<history, hook, losses>> BY <1>4 DEF RunCLI
  <2>4. WaitFits(waiting', hook, history, losses.raced) BY <2>2, <1>b DEF WaitFits
  <2> QED BY <2>2, <2>3, <2>4, <1>a, <1>b DEF StuckInv, StuckTypes
<1>5. CASE LooksAtAsk
  <2>1. hook = "turns" /\ UNCHANGED <<history, losses>> /\ hook' \in {"request", "call"} BY <1>5 DEF LooksAtAsk
  <2>2. KeptFits(history, hook', losses.unkept) BY <2>1, <1>b DEF KeptFits
  <2>3. waiting' \in WaitType /\ WaitFits(waiting', hook', history, losses.raced)
    <3>1. CASE hook' = "request" /\ UNCHANGED waiting BY <3>1, <1>a, <1>b DEF WaitFits
    <3>2. CASE Landed(waiting) /\ PersonSpoke(history) = waiting.of.spoken /\ hook' = "call" /\ UNCHANGED waiting
      BY <3>2, <1>a, <1>b DEF WaitFits, Landed, Earned
    <3>3. CASE hook' = "request" /\ waiting' = NoAsk BY <3>3, <1>c, WaitNone
    <3> QED BY <1>5, <3>1, <3>2, <3>3 DEF LooksAtAsk
  <2> QED BY <2>1, <2>2, <2>3, <1>a, <1>b DEF StuckInv, StuckTypes
<1>6. CASE RecordAsk
  <2>1. PICK refused \in BOOLEAN :
          Log([k |-> "ask", of |-> waiting.of, ok |-> ~refused /\ waiting.at = "answered"])
    BY <1>6 DEF RecordAsk
  <2> DEFINE e == [k |-> "ask", of |-> waiting.of, ok |-> ~refused /\ waiting.at = "answered"]
  <2>2. e \in EventType /\ e.k = "ask" /\ e.of = waiting.of
    <3>1. waiting.of \in Asks \cup SUBSET Nat BY <1>a DEF WaitType
    <3>2. (~refused /\ waiting.at = "answered") \in BOOLEAN OBVIOUS
    <3> QED BY <3>1, <3>2 DEF EventType
  <2> HIDE DEF e
  <2>3. history' = Append(history, e) /\ history' \in Seq(EventType) BY <2>1, <2>2, <1>e DEF e
  <2>4. hook = "call" /\ hook' = "request" /\ waiting' = NoAsk /\ UNCHANGED losses BY <1>6 DEF RecordAsk
  <2>5. Measured(history, e.of, losses.raced)
    BY <2>2, <2>4, <1>b DEF Measured, WaitFits, Earned
  <2>6. AsksMeasured(history', losses.raced) BY <2>3, <2>2, <2>5, <1>a, <1>b, StillMeasured
  <2>7. KeptFits(history', hook', losses.unkept) BY <2>2, <2>3, <2>4, <1>a, <1>b, AppendKept
  <2>8. WaitFits(waiting', hook', history', losses.raced) BY <2>4, WaitNone
  <2> QED BY <2>3, <2>4, <2>6, <2>7, <2>8, <1>a, <1>c DEF StuckInv, StuckTypes
<1>7. CASE PersonSpeaks
  <2> DEFINE e == Event("user")
  <2>1. Log(e) /\ UNCHANGED <<waiting, hook>> BY <1>7 DEF PersonSpeaks
  <2>2. e \in EventType /\ e.k = "user" BY <1>d
  <2> HIDE DEF e
  <2>3. history' = Append(history, e) /\ history' \in Seq(EventType) BY <2>1, <2>2, <1>e
  <2>4. /\ losses' \in LossType /\ losses'.unkept = losses.unkept
        /\ losses'.raced = IF hook = "call" THEN losses.raced \cup {waiting.of} ELSE losses.raced
    <3>1. waiting.of \in Asks BY <1>a DEF WaitType
    <3>2. CASE hook = "call"
      <4>1. losses' = [losses EXCEPT !.raced = @ \cup {waiting.of}] BY <3>2, <1>7 DEF PersonSpeaks
      <4> QED BY <4>1, <3>1, <3>2, <1>a DEF LossType
    <3>3. CASE hook # "call"
      <4>1. losses' = losses BY <3>3, <1>7 DEF PersonSpeaks
      <4> QED BY <4>1, <3>3, <1>a
    <3> QED BY <3>2, <3>3
  <2>5. WaitFits(waiting, hook, history', losses'.raced) BY <2>2, <2>3, <2>4, <1>a, <1>b, WaitOvertaken
  <2>6. AsksMeasured(history', losses'.raced)
    <3>1. losses.raced \subseteq losses'.raced BY <2>4
    <3> QED BY <3>1, <2>2, <2>3, <1>a, <1>b, StillMeasured
  <2>7. KeptFits(history', hook, losses.unkept)
    <3>1. CASE hook # "summary" BY <3>1, <2>2, <2>3, <1>a, <1>b, AppendKept
    <3>2. CASE hook = "summary"
      <4>1. KeptFits(history, "summary", losses.unkept) BY <3>2, <1>b
      <4>2. KeptFits(history', "summary", losses.unkept) BY <4>1, <2>2, <2>3, <1>a, SpokenAfterSummary
      <4> QED BY <4>2, <3>2
    <3> QED BY <3>1, <3>2
  <2> QED BY <2>1, <2>3, <2>4, <2>5, <2>6, <2>7, <1>a DEF StuckInv, StuckTypes
<1>8. CASE Summarize
  <2> DEFINE e == Event("summary")
  <2>1. Log(e) /\ hook = "turns" /\ hook' = "summary" /\ UNCHANGED <<waiting, losses>> BY <1>8 DEF Summarize
  <2>2. e \in EventType /\ e.k = "summary" BY <1>d
  <2> HIDE DEF e
  <2>3. history' = Append(history, e) /\ history' \in Seq(EventType) BY <2>1, <2>2, <1>e
  <2>4. WaitFits(waiting, hook, history', losses.raced) BY <2>2, <2>3, <1>a, <1>b, WaitAfter
  <2>5. WaitFits(waiting, hook', history', losses.raced) BY <2>1, <2>4 DEF WaitFits
  <2>6. AsksMeasured(history', losses.raced) BY <2>2, <2>3, <1>a, <1>b, StillMeasured
  <2>7. KeptFits(history', hook', losses.unkept) BY <2>1, <2>2, <2>3, <1>a, SummaryIsLast
  <2> QED BY <2>1, <2>3, <2>5, <2>6, <2>7, <1>a DEF StuckInv, StuckTypes
<1>9. CASE KeepAnswers
  <2>1. hook = "summary" /\ hook' = "turns" /\ UNCHANGED <<waiting, losses>> BY <1>9 DEF KeepAnswers
  <2>2. PICK s \in DOMAIN history : LastSummary(history, s) /\ \A i \in DOMAIN history : i > s => history[i].k = "user"
    BY <2>1, <1>b DEF KeptFits
  <2>3. CASE Answers(history) = {}
    <3>1. UNCHANGED history BY <2>3, <1>9 DEF KeepAnswers
    <3>2. \A q : Covered(history, q) BY <2>3 DEF Covered, KeptBlock, Retired
    <3>3. KeptFits(history, hook', losses.unkept) BY <3>2, <2>1 DEF KeptFits
    <3>4. WaitFits(waiting, hook', history, losses.raced) BY <2>1, <1>b DEF WaitFits
    <3> QED BY <3>1, <3>3, <3>4, <2>1, <1>a, <1>b DEF StuckInv, StuckTypes
  <2>4. CASE Answers(history) # {}
    <3> DEFINE e == [k |-> "kept", of |-> KeptBlock(Answers(history)), ok |-> TRUE]
    <3>1. Log(e) BY <2>4, <1>9 DEF KeepAnswers
    <3>2. e \in EventType /\ e.k = "kept" /\ e.of = KeptBlock(Answers(history))
      <4>1. Answers(history) \subseteq Nat
        <5>1. DOMAIN history \subseteq Nat BY <1>a, SpansIs
        <5> QED BY <5>1 DEF Answers, Stretch
      <4>2. KeptBlock(Answers(history)) \in Asks \cup SUBSET Nat BY <4>1 DEF KeptBlock
      <4> QED BY <4>2 DEF EventType
    <3> HIDE DEF e
    <3>3. history' = Append(history, e) /\ history' \in Seq(EventType) BY <3>1, <3>2, <1>e
    <3>4. WaitFits(waiting, hook, history', losses.raced) BY <3>2, <3>3, <1>a, <1>b, WaitAfter
    <3>5. WaitFits(waiting, hook', history', losses.raced) BY <2>1, <3>4 DEF WaitFits
    <3>6. AsksMeasured(history', losses.raced) BY <3>2, <3>3, <1>a, <1>b, StillMeasured
    <3>7. KeptFits(history', hook', losses.unkept) BY <2>1, <2>2, <3>2, <3>3, <1>a, BlockKeeps
    <3> QED BY <2>1, <3>3, <3>5, <3>6, <3>7, <1>a DEF StuckInv, StuckTypes
  <2> QED BY <2>3, <2>4
<1>10. CASE EndDropsAsk
  <2>1. hook = "turns" /\ waiting' = NoAsk /\ UNCHANGED <<history, hook, losses>> BY <1>10 DEF EndDropsAsk
  <2>2. WaitFits(waiting', hook, history, losses.raced) BY <2>1, WaitNone
  <2> QED BY <2>1, <2>2, <1>a, <1>b, <1>c DEF StuckInv, StuckTypes
<1>11. CASE RestartForgets
  <2>1. /\ losses.restarts < MaxLosses /\ waiting' = NoAsk /\ hook' = "turns" /\ UNCHANGED history
        /\ losses' = [losses EXCEPT !.restarts = @ + 1, !.unkept = @ \/ hook = "summary"]
    BY <1>11 DEF RestartForgets
  <2>2. WaitFits(waiting', hook', history, losses.raced) BY <2>1, WaitNone
  <2>3. /\ losses' \in LossType /\ losses'.raced = losses.raced
        /\ losses'.unkept = (losses.unkept \/ hook = "summary")
    <3>1. /\ losses.restarts + 1 \in 0 .. MaxLosses /\ losses.unkept \in BOOLEAN /\ losses.raced \in SUBSET Asks
          /\ losses = [restarts |-> losses.restarts, raced |-> losses.raced, unkept |-> losses.unkept]
      BY <2>1, <1>a, StuckBounds DEF LossType
    <3>2. losses' = [restarts |-> losses.restarts + 1, raced |-> losses.raced,
                     unkept |-> losses.unkept \/ hook = "summary"]
      BY <2>1, <3>1
    <3> QED BY <3>1, <3>2 DEF LossType
  <2>4. KeptFits(history, hook', losses'.unkept) BY <2>1, <2>3, <1>b DEF KeptFits
  <2> QED BY <2>1, <2>2, <2>3, <2>4, <1>a, <1>b, <1>c DEF StuckInv, StuckTypes
<1> QED BY <1>1, <1>2, <1>3, <1>4, <1>5, <1>6, <1>7, <1>8, <1>9, <1>10, <1>11 DEF StuckNext

-----------------------------------------------------------------------------
LEMMA StuckInvGives == StuckInv => StuckTypeOK /\ HelpIsSound
<1> SUFFICES ASSUME StuckInv PROVE StuckTypeOK /\ HelpIsSound OBVIOUS
<1>a. /\ history \in Seq(EventType) /\ waiting \in WaitType
      /\ hook \in {"turns", "request", "call", "summary"} /\ losses \in LossType
  BY DEF StuckInv, StuckTypes
<1>b. AsksMeasured(history, losses.raced) /\ KeptFits(history, hook, losses.unkept)
  BY DEF StuckInv
<1>1. StuckTypeOK
  <2>1. \A i \in DOMAIN history : history[i] \in EventType BY <1>a, SpansIs
  <2>2. \A i \in DOMAIN history :
          history[i].k \in {"user", "reply", "own ask", "ask", "summary", "kept"} /\ history[i].ok \in BOOLEAN
    BY <2>1 DEF EventType
  <2>3. waiting.at \in {"none", "running", "answered", "failed"} /\ losses.restarts \in 0 .. MaxLosses
    BY <1>a DEF WaitType, LossType
  <2> QED BY <2>2, <2>3, <1>a DEF StuckTypeOK
<1>2. HelpIsMeasured
  BY <1>b DEF HelpIsMeasured, AsksMeasured, Measured, BeforeAsk, Of
<1>3. HelpIsKept
  <2> SUFFICES ASSUME hook # "summary", ~losses.unkept, Of(history, "summary") # {}
               PROVE  LET newest == CHOOSE i \in Of(history, "summary") : \A j \in Of(history, "summary") : j <= i
                          retired == {i \in Answers(history) : i < newest}
                      IN  \A i \in KeptBlock(retired) :
                            \E b \in Of(history, "kept") : b > newest /\ i \in history[b].of
    BY DEF HelpIsKept
  <2> DEFINE newest == CHOOSE i \in Of(history, "summary") : \A j \in Of(history, "summary") : j <= i
  <2>1. \E i \in Of(history, "summary") : \A j \in Of(history, "summary") : j <= i
    <3>1. Len(history) \in Nat /\ DOMAIN history = 1 .. Len(history) BY <1>a, LenProperties
    <3>2. Of(history, "summary") \in SUBSET (0 .. Len(history)) BY <3>1 DEF Of
    <3> QED BY <3>1, <3>2, MaxIs
  <2>2. LastSummary(history, newest) /\ newest \in DOMAIN history BY <2>1 DEF LastSummary, Of
  <2> HIDE DEF newest
  <2>3. Covered(history, newest) BY <2>2, <1>b DEF KeptFits
  <2>4. \A i \in KeptBlock({j \in Answers(history) : j < newest}) :
          \E b \in Of(history, "kept") : b > newest /\ i \in history[b].of
    BY <2>3 DEF Covered, Retired
  <2> QED BY <2>4 DEF newest
<1> QED BY <1>1, <1>2, <1>3 DEF HelpIsSound

LEMMA StuckInvAlways == StuckSpec => []StuckInv
BY StuckInitFits, StuckStep, PTL DEF StuckSpec

(* The state of the claude module's help (stuck.go) and the log it reads   *)
(* are always of their types.                                              *)
THEOREM StuckTypeCorrect == StuckSpec => []StuckTypeOK
<1>1. StuckInv => StuckTypeOK BY StuckInvGives
<1> QED BY <1>1, StuckInvAlways, PTL

(* For every pace and allowance of automatic asks, every room for answers  *)
(* and any number of restarts: in each stretch Claude is asked AutoMax     *)
(* times at most and each time only when the stretch had earned it, what   *)
(* is recorded is about the stretch it stands in unless the person spoke   *)
(* while it was recorded, and behind the last summary stands every answer  *)
(* it took out that there is room for, unless the daemon died between the  *)
(* two (stuck.go, claude.go, kept.go).                                     *)
THEOREM HelpAlwaysSound == StuckSpec => []HelpIsSound
<1>1. StuckInv => HelpIsSound BY StuckInvGives
<1> QED BY <1>1, StuckInvAlways, PTL

-----------------------------------------------------------------------------
(* The reports of changed files. *)
Snap == [Paths -> 0 .. MaxChanges + 1]
Actors == {"agent", "other", "meanwhile", "left"}
Agents(by) == by \cap {"agent", "meanwhile", "left"} # {}
Foreign(by) == by \cap {"other", "left"} # {}

WsTypes ==
  /\ disk \in [Paths -> 0 .. MaxChanges] /\ last \in Snap /\ before \in Snap
  /\ mine \subseteq Paths /\ sessionOff \in BOOLEAN /\ blind \in BOOLEAN
  /\ leftover \in BOOLEAN /\ tool \in {"none", "gated", "shell"} /\ report.named \subseteq Paths
  /\ who \in [Paths -> SUBSET Actors] /\ changes \in 1 .. MaxChanges

(* What is the agent's own, it had a part in, or a command of its ran.     *)
OwnFits(own, by) == \A f \in own : Agents(by[f])
(* What differs from the last look and is not the agent's own, somebody    *)
(* else changed, or a process a command left, or the command under way did *)
(* and will be claimed.                                                    *)
TheirsFit(tl, dk, lst, own, bef, by) ==
  \A f \in Paths : dk[f] # lst[f] /\ f \notin own =>
    Foreign(by[f]) \/ (tl = "shell" /\ (bef = NoSnapshot \/ bef[f] # dk[f]))
(* A command was looked at before: what changed since has the mark of it,  *)
(* and what had changed by then is accounted for.                          *)
LookFits(dk, bef, by) == \A f \in Paths : bef[f] # dk[f] => Agents(by[f])
LookedFits(lst, own, bef, by) == \A f \in Paths : bef[f] # lst[f] /\ f \notin own => Foreign(by[f])

WsInv ==
  /\ WsTypes
  /\ ~sessionOff =>
       /\ OwnFits(mine, who)
       /\ last # NoSnapshot /\ ~blind => TheirsFit(tool, disk, last, mine, before, who)
       /\ tool # "none" /\ before # NoSnapshot => LookFits(disk, before, who)
       /\ tool # "none" /\ before # NoSnapshot /\ last # NoSnapshot /\ ~blind => LookedFits(last, mine, before, who)

-----------------------------------------------------------------------------
LEMMA WsBounds ==
  /\ IsFiniteSet(Paths) /\ MaxFiles \in Nat /\ MaxReported \in Nat /\ MaxChanges \in Nat /\ MaxChanges >= 1
  /\ NoSnapshot \in Snap
BY WsAssumption DEF NoSnapshot, Snap

LEMMA WsInitFits == WsInit => WsInv
<1> SUFFICES ASSUME WsInit PROVE WsInv OBVIOUS
<1>1. WsTypes
  <2>1. {0, 1} \subseteq 0 .. MaxChanges /\ 1 \in 1 .. MaxChanges BY WsBounds
  <2>2. disk \in [Paths -> 0 .. MaxChanges] BY <2>1 DEF WsInit
  <2>3. who \in [Paths -> SUBSET Actors] BY DEF WsInit
  <2> QED BY <2>1, <2>2, <2>3, WsBounds DEF WsInit, WsTypes
<1>2. OwnFits(mine, who) BY DEF WsInit, OwnFits
<1> QED BY <1>1, <1>2 DEF WsInit, WsInv

(* A change of a file by somebody.                                         *)
LEMMA ChangeIs ==
  ASSUME WsTypes, NEW f \in Paths, NEW by \in {"agent", "other", "left"}, Change(f, by)
  PROVE  /\ disk' \in [Paths -> 0 .. MaxChanges] /\ who' \in [Paths -> SUBSET Actors] /\ changes' \in 1 .. MaxChanges
         /\ disk'[f] # disk[f] /\ \A g \in Paths \ {f} : disk'[g] = disk[g] /\ who'[g] = who[g]
         /\ by \in who'[f] /\ who[f] \subseteq who'[f] /\ (by = "other" /\ tool # "none" => Agents(who'[f]))
<1>1. PICK v \in {0, changes + 1} : v # disk[f] /\ disk' = [disk EXCEPT ![f] = v] BY DEF Change
<1>2. changes' = changes + 1 /\ changes < MaxChanges BY DEF Change
<1> DEFINE also == IF by = "other" /\ tool # "none" THEN "meanwhile" ELSE by
<1>3. who' = [who EXCEPT ![f] = @ \cup {by, also}] BY DEF Change
<1>4. also \in Actors /\ by \in Actors /\ (by = "other" /\ tool # "none" => also = "meanwhile") BY DEF Actors
<1> HIDE DEF also
<1>5. who' \in [Paths -> SUBSET Actors] BY <1>3, <1>4 DEF WsTypes
<1>6. who'[f] = who[f] \cup {by, also} /\ \A g \in Paths \ {f} : who'[g] = who[g] BY <1>3 DEF WsTypes
<1>7. disk'[f] = v /\ \A g \in Paths \ {f} : disk'[g] = disk[g] BY <1>1 DEF WsTypes
<1>8. v \in 0 .. MaxChanges /\ changes' \in 1 .. MaxChanges BY <1>1, <1>2, WsBounds DEF WsTypes
<1>9. disk' \in [Paths -> 0 .. MaxChanges] BY <1>1, <1>8 DEF WsTypes
<1> QED BY <1>1, <1>4, <1>5, <1>6, <1>7, <1>8, <1>9 DEF Agents

LEMMA ReportedIs ==
  ASSUME NEW fs \in SUBSET Paths, NEW rep, rep \in Told(fs)
  PROVE  /\ rep.named \subseteq fs /\ (rep.more > 0 => Cardinality(rep.named) = MaxReported)
         /\ rep.named # fs => rep.more > 0
<1> DEFINE shown == IF Cardinality(fs) > MaxReported THEN MaxReported ELSE Cardinality(fs)
<1>1. PICK n \in kSubset(shown, fs) : rep = [named |-> n, more |-> Cardinality(fs \ n)] BY DEF Told
<1>2. n \in SUBSET fs /\ Cardinality(n) = shown BY <1>1 DEF kSubset
<1>3. IsFiniteSet(fs) /\ IsFiniteSet(n) /\ IsFiniteSet(fs \ n)
  <2>1. IsFiniteSet(fs) BY WsBounds, FS_Subset
  <2> QED BY <2>1, <1>2, FS_Subset
<1>4. Cardinality(fs) \in Nat /\ Cardinality(fs \ n) \in Nat BY <1>3, FS_CardinalityType
<1>5. n # fs => Cardinality(fs \ n) > 0
  <2>1. n # fs => fs \ n # {} BY <1>2
  <2>2. fs \ n # {} => Cardinality(fs \ n) # 0 BY <1>3, FS_EmptySet
  <2> QED BY <2>1, <2>2, <1>4
<1>6. n = fs => Cardinality(fs \ n) = 0
  <2>1. n = fs => fs \ n = {} OBVIOUS
  <2> QED BY <2>1, FS_EmptySet
<1>7. n # fs => Cardinality(n) = MaxReported
  <2>1. Cardinality(n) # Cardinality(fs) \/ n = fs BY <1>2, <1>3, FS_Subset
  <2> QED BY <2>1, <1>2
<1>8. rep.named = n /\ rep.more = Cardinality(fs \ n) BY <1>1
<1> HIDE DEF shown
<1> HIDE <1>1
<1> QED BY <1>2, <1>4, <1>5, <1>6, <1>7, <1>8

-----------------------------------------------------------------------------
LEMMA OtherKeeps == ASSUME WsInv, NEW f \in Paths, OtherChanges(f) PROVE WsInv'
<1>1. Change(f, "other") /\ UNCHANGED <<last, mine, before, leftover, tool, sessionOff, report, blind>> BY DEF OtherChanges
<1>2. WsTypes BY DEF WsInv
<1>3. /\ disk' \in [Paths -> 0 .. MaxChanges] /\ who' \in [Paths -> SUBSET Actors] /\ changes' \in 1 .. MaxChanges
      /\ \A g \in Paths \ {f} : disk'[g] = disk[g] /\ who'[g] = who[g]
      /\ "other" \in who'[f] /\ who[f] \subseteq who'[f] /\ (tool # "none" => Agents(who'[f]))
  BY <1>1, <1>2, ChangeIs
<1>4. WsTypes' BY <1>1, <1>2, <1>3 DEF WsTypes
<1>5. ASSUME OwnFits(mine, who) PROVE OwnFits(mine, who')
  <2>1. \A g \in Paths : who[g] \subseteq who'[g] BY <1>3
  <2> QED BY <2>1, <1>5, <1>2 DEF OwnFits, Agents, WsTypes
<1>6. ASSUME TheirsFit(tool, disk, last, mine, before, who) PROVE TheirsFit(tool, disk', last, mine, before, who')
  BY <1>6, <1>3 DEF TheirsFit, Foreign
<1>7. ASSUME LookFits(disk, before, who), tool # "none" PROVE LookFits(disk', before, who')
  BY <1>7, <1>3 DEF LookFits
<1>8. ASSUME LookedFits(last, mine, before, who) PROVE LookedFits(last, mine, before, who')
  BY <1>8, <1>3 DEF LookedFits, Foreign
<1> QED BY <1>1, <1>4, <1>5, <1>6, <1>7, <1>8 DEF WsInv

LEMMA WritesKeeps == ASSUME WsInv, NEW f \in Paths, AgentWrites(f) PROVE WsInv'
<1>1. Change(f, "agent") /\ mine' = mine \cup {f} /\ tool = "none" /\ UNCHANGED <<last, before, leftover, tool, sessionOff, report, blind>>
  BY DEF AgentWrites
<1>2. WsTypes BY DEF WsInv
<1>3. /\ disk' \in [Paths -> 0 .. MaxChanges] /\ who' \in [Paths -> SUBSET Actors] /\ changes' \in 1 .. MaxChanges
      /\ \A g \in Paths \ {f} : disk'[g] = disk[g] /\ who'[g] = who[g]
      /\ "agent" \in who'[f] /\ who[f] \subseteq who'[f]
  BY <1>1, <1>2, ChangeIs
<1>4. WsTypes' BY <1>1, <1>2, <1>3 DEF WsTypes
<1>5. ASSUME OwnFits(mine, who) PROVE OwnFits(mine', who')
  BY <1>1, <1>2, <1>3, <1>5 DEF OwnFits, Agents, WsTypes
<1>6. ASSUME TheirsFit(tool, disk, last, mine, before, who) PROVE TheirsFit(tool, disk', last, mine', before, who')
  BY <1>6, <1>1, <1>3 DEF TheirsFit, Foreign
<1> QED BY <1>1, <1>4, <1>5, <1>6 DEF WsInv

LEMMA ShellKeeps == ASSUME WsInv, NEW f \in Paths, ShellChanges(f) PROVE WsInv'
<1>1. Change(f, "agent") /\ tool = "shell" /\ UNCHANGED <<last, mine, before, leftover, tool, sessionOff, report, blind>>
  BY DEF ShellChanges
<1>2. WsTypes BY DEF WsInv
<1>3. /\ disk' \in [Paths -> 0 .. MaxChanges] /\ who' \in [Paths -> SUBSET Actors] /\ changes' \in 1 .. MaxChanges
      /\ \A g \in Paths \ {f} : disk'[g] = disk[g] /\ who'[g] = who[g]
      /\ "agent" \in who'[f] /\ who[f] \subseteq who'[f]
  BY <1>1, <1>2, ChangeIs
<1>4. WsTypes' BY <1>1, <1>2, <1>3 DEF WsTypes
<1>5. ASSUME OwnFits(mine, who) PROVE OwnFits(mine, who')
  <2>1. \A g \in Paths : who[g] \subseteq who'[g] BY <1>3
  <2> QED BY <2>1, <1>5, <1>2 DEF OwnFits, Agents, WsTypes
<1>6. ASSUME TheirsFit(tool, disk, last, mine, before, who), before = NoSnapshot \/ LookedFits(last, mine, before, who)
      PROVE  TheirsFit(tool, disk', last, mine, before, who')
  BY <1>6, <1>1, <1>3 DEF TheirsFit, LookedFits, Foreign
<1>7. ASSUME LookFits(disk, before, who) PROVE LookFits(disk', before, who')
  BY <1>7, <1>3 DEF LookFits, Agents
<1>8. ASSUME LookedFits(last, mine, before, who) PROVE LookedFits(last, mine, before, who')
  BY <1>8, <1>3 DEF LookedFits, Foreign
<1> QED BY <1>1, <1>4, <1>5, <1>6, <1>7, <1>8 DEF WsInv

LEMMA LeftoverKeeps == ASSUME WsInv, NEW f \in Paths, LeftoverChanges(f) PROVE WsInv'
<1>1. Change(f, "left") /\ UNCHANGED <<last, mine, before, leftover, tool, sessionOff, report, blind>> BY DEF LeftoverChanges
<1>2. WsTypes BY DEF WsInv
<1>3. /\ disk' \in [Paths -> 0 .. MaxChanges] /\ who' \in [Paths -> SUBSET Actors] /\ changes' \in 1 .. MaxChanges
      /\ \A g \in Paths \ {f} : disk'[g] = disk[g] /\ who'[g] = who[g]
      /\ "left" \in who'[f] /\ who[f] \subseteq who'[f] /\ Agents(who'[f])
  BY <1>1, <1>2, ChangeIs DEF Agents
<1>4. WsTypes' BY <1>1, <1>2, <1>3 DEF WsTypes
<1>5. ASSUME OwnFits(mine, who) PROVE OwnFits(mine, who')
  <2>1. \A g \in Paths : who[g] \subseteq who'[g] BY <1>3
  <2> QED BY <2>1, <1>5, <1>2 DEF OwnFits, Agents, WsTypes
<1>6. ASSUME TheirsFit(tool, disk, last, mine, before, who) PROVE TheirsFit(tool, disk', last, mine, before, who')
  BY <1>6, <1>3 DEF TheirsFit, Foreign
<1>7. ASSUME LookFits(disk, before, who), tool # "none" PROVE LookFits(disk', before, who')
  BY <1>7, <1>3 DEF LookFits
<1>8. ASSUME LookedFits(last, mine, before, who) PROVE LookedFits(last, mine, before, who')
  BY <1>8, <1>3 DEF LookedFits, Foreign
<1> QED BY <1>1, <1>4, <1>5, <1>6, <1>7, <1>8 DEF WsInv

LEMMA GateShellKeeps == ASSUME WsInv, GateShell PROVE WsInv'
<1>1. /\ tool = "none" /\ tool' = "gated" /\ before' \in {NoSnapshot, disk}
      /\ UNCHANGED <<disk, last, mine, leftover, sessionOff, report, who, blind, changes>>
  BY DEF GateShell
<1>2. WsTypes BY DEF WsInv
<1>3. disk \in Snap BY <1>2, WsBounds DEF WsTypes, Snap
<1>4. WsTypes'
  <2>1. before' \in Snap BY <1>1, <1>3, WsBounds
  <2> QED BY <1>1, <1>2, <2>1 DEF WsTypes
<1>5. ASSUME TheirsFit(tool, disk, last, mine, before, who)
      PROVE  /\ TheirsFit(tool', disk, last, mine, before', who)
             /\ before' = disk => LookedFits(last, mine, before', who)
  BY <1>5, <1>1 DEF TheirsFit, LookedFits
<1>6. before' = disk => LookFits(disk, before', who) BY DEF LookFits
<1> QED BY <1>1, <1>4, <1>5, <1>6 DEF WsInv

LEMMA ShellStartsKeeps == ASSUME WsInv, ShellStarts PROVE WsInv'
<1>1. /\ tool = "gated" /\ tool' = "shell"
      /\ UNCHANGED <<disk, last, mine, before, leftover, sessionOff, report, who, blind, changes>>
  BY DEF ShellStarts
<1>2. WsTypes' BY <1>1 DEF WsInv, WsTypes
<1>3. ASSUME TheirsFit(tool, disk, last, mine, before, who) PROVE TheirsFit(tool', disk, last, mine, before, who)
  BY <1>3, <1>1 DEF TheirsFit
<1> QED BY <1>1, <1>2, <1>3 DEF WsInv

LEMMA ClaimKeeps == ASSUME WsInv, ClaimShellChanges PROVE WsInv'
<1>1. /\ tool \in {"gated", "shell"} /\ tool' = "none" /\ before' = NoSnapshot
      /\ blind' = (blind \/ (tool = "shell" /\ (before = NoSnapshot \/ TooLarge(disk))))
      /\ UNCHANGED <<disk, last, sessionOff, report, who, changes>>
  BY DEF ClaimShellChanges
<1>8. leftover' \in {leftover, leftover \/ tool = "shell"} BY DEF ClaimShellChanges
<1> DEFINE none == tool = "gated" \/ before = NoSnapshot \/ TooLarge(disk)
<1>2. (none => mine' = mine) /\ (~none => mine' = mine \cup Diff(before, disk, {})) BY DEF ClaimShellChanges
<1>3. WsTypes BY DEF WsInv
<1>4. mine' \subseteq Paths /\ mine \subseteq mine' BY <1>2, <1>3 DEF WsTypes, Diff
<1>9. leftover' \in BOOLEAN BY <1>3, <1>8, Zenon DEF WsTypes
<1>5. WsTypes' BY <1>1, <1>3, <1>4, <1>9, WsBounds DEF WsTypes
<1>6. ASSUME ~sessionOff PROVE OwnFits(mine', who)
  <2>1. OwnFits(mine, who) /\ (before # NoSnapshot => LookFits(disk, before, who)) BY <1>6, <1>1 DEF WsInv
  <2>2. CASE none BY <2>1, <2>2, <1>2
  <2>3. CASE ~none BY <2>1, <2>3, <1>2 DEF OwnFits, LookFits, Diff
  <2> QED BY <2>2, <2>3
<1>7. ASSUME ~sessionOff, last # NoSnapshot, ~blind' PROVE TheirsFit(tool', disk, last, mine', before', who)
  <2> DEFINE shell == tool = "shell" /\ (before = NoSnapshot \/ TooLarge(disk))
  <2>4. ~blind /\ ~shell
    <3>1. blind' = (blind \/ shell) BY <1>1
    <3> HIDE DEF shell
    <3> QED BY <1>7, <3>1, Zenon
  <2>1. TheirsFit(tool, disk, last, mine, before, who) BY <1>7, <2>4 DEF WsInv
  <2>2. CASE tool = "gated" BY <2>1, <2>2, <1>2 DEF TheirsFit
  <2>3. CASE tool = "shell"
    <3>1. ~none BY <2>3, <2>4
    <3>2. LookedFits(last, mine, before, who) BY <1>7, <2>3, <2>4, <3>1 DEF WsInv
    <3> QED BY <3>1, <3>2, <1>2 DEF TheirsFit, LookedFits, Diff
  <2> QED BY <2>2, <2>3, <1>1
<1> QED BY <1>1, <1>5, <1>6, <1>7 DEF WsInv

LEMMA ReportTyped == ASSUME WsTypes, WsBeforeRequest PROVE report'.named \subseteq Paths
<1>1. CASE TooLarge(disk) BY <1>1 DEF WsBeforeRequest
<1>2. CASE ~TooLarge(disk)
  <2>1. PICK fs \in SUBSET Paths : report' \in Told(fs) BY <1>2 DEF WsBeforeRequest, Diff
  <2> QED BY <2>1, ReportedIs
<1> QED BY <1>1, <1>2

LEMMA RequestKeeps == ASSUME WsInv, WsBeforeRequest PROVE WsInv'
<1>1. /\ tool = "none" /\ ~sessionOff /\ who' = [f \in Paths |-> {}] /\ blind' = FALSE
      /\ UNCHANGED <<disk, before, leftover, tool, changes>>
  BY DEF WsBeforeRequest
<1>2. WsTypes BY DEF WsInv
<1>3. report'.named \subseteq Paths BY <1>2, ReportTyped
<1>4. who' \in [Paths -> SUBSET Actors] BY <1>1
<1>5. CASE TooLarge(disk)
  <2>1. sessionOff' = TRUE /\ UNCHANGED <<last, mine>> BY <1>5 DEF WsBeforeRequest
  <2>2. WsTypes' BY <2>1, <1>1, <1>2, <1>3, <1>4 DEF WsTypes
  <2> QED BY <2>1, <2>2 DEF WsInv
<1>6. CASE ~TooLarge(disk)
  <2>1. last' = disk /\ mine' = {} /\ UNCHANGED sessionOff BY <1>6 DEF WsBeforeRequest
  <2>2. disk \in Snap BY <1>2, WsBounds DEF WsTypes, Snap
  <2>3. WsTypes' BY <2>1, <2>2, <1>1, <1>2, <1>3, <1>4 DEF WsTypes
  <2>4. TheirsFit(tool, disk, disk, {}, before, who') BY DEF TheirsFit
  <2>5. OwnFits({}, who') BY DEF OwnFits
  <2> QED BY <2>1, <2>3, <2>4, <2>5, <1>1 DEF WsInv
<1> QED BY <1>5, <1>6

LEMMA ForgottenKeeps == ASSUME WsInv, SessionForgotten PROVE WsInv'
<1>1. /\ tool = "none" /\ last' = NoSnapshot /\ mine' = {} /\ sessionOff' = FALSE
      /\ UNCHANGED <<disk, before, leftover, tool, report, who, blind, changes>>
  BY DEF SessionForgotten
<1>2. WsTypes' BY <1>1, WsBounds DEF WsInv, WsTypes
<1>3. OwnFits({}, who) BY DEF OwnFits
<1> QED BY <1>1, <1>2, <1>3 DEF WsInv

LEMMA WsStep == WsInv /\ [WsNext]_wsVars => WsInv'
<1> SUFFICES ASSUME WsInv, [WsNext]_wsVars PROVE WsInv' OBVIOUS
<1>1. CASE UNCHANGED wsVars BY <1>1 DEF wsVars, WsInv, WsTypes
<1>2. CASE WsNext
  BY <1>2, OtherKeeps, WritesKeeps, ShellKeeps, LeftoverKeeps, GateShellKeeps, ShellStartsKeeps, ClaimKeeps, RequestKeeps,
     ForgottenKeeps DEF WsNext
<1> QED BY <1>1, <1>2

LEMMA WsInvAlways == WsSpec => []WsInv
BY WsInitFits, WsStep, PTL DEF WsSpec

LEMMA WsInvGives == WsInv => WsTypeOK
BY DEF WsInv, WsTypes, WsTypeOK, Snap

(* What the watch module (watch.go) keeps of the workspace is always of    *)
(* its type.                                                               *)
THEOREM WsTypeCorrect == WsSpec => []WsTypeOK
BY WsInvAlways, WsInvGives, PTL

(* What one request says: the property's promise, of a step.               *)
RightReport ==
  last' = disk /\ disk' = disk /\ last # NoSnapshot /\ who # who' =>
    /\ ~blind => \A f \in report'.named : who[f] \cap {"other", "left"} # {}
    /\ \A f \in Paths :
         who[f] = {"other"} /\ disk[f] # last[f] => f \in report'.named \/ report'.more > 0
    /\ report'.more > 0 => Cardinality(report'.named) = MaxReported

LEMMA OnlyRequestsReport ==
  ASSUME WsInv, [WsNext]_wsVars, disk' = disk, who # who'
  PROVE  WsBeforeRequest
<1>1. WsTypes BY DEF WsInv
<1>2. ASSUME NEW f \in Paths, NEW by \in {"agent", "other", "left"}, Change(f, by) PROVE FALSE
  <2>1. disk'[f] # disk[f] BY <1>1, <1>2, ChangeIs
  <2> QED BY <2>1
<1>3. ASSUME NEW f \in Paths, OtherChanges(f) \/ AgentWrites(f) \/ ShellChanges(f) \/ LeftoverChanges(f) PROVE FALSE
  <2>1. Change(f, "other") \/ Change(f, "agent") \/ Change(f, "left")
    BY <1>3 DEF OtherChanges, AgentWrites, ShellChanges, LeftoverChanges
  <2> QED BY <2>1, <1>2
<1> QED BY <1>3 DEF WsNext, wsVars, GateShell, ShellStarts, ClaimShellChanges, SessionForgotten

LEMMA ReportIsRight == WsInv /\ [WsNext]_wsVars => RightReport
<1> SUFFICES ASSUME WsInv, [WsNext]_wsVars, last' = disk, disk' = disk, last # NoSnapshot, who # who'
             PROVE  /\ ~blind => \A f \in report'.named : who[f] \cap {"other", "left"} # {}
                    /\ \A f \in Paths :
                         who[f] = {"other"} /\ disk[f] # last[f] => f \in report'.named \/ report'.more > 0
                    /\ report'.more > 0 => Cardinality(report'.named) = MaxReported
  BY DEF RightReport
<1>1. WsBeforeRequest BY OnlyRequestsReport
<1>2. tool = "none" /\ ~sessionOff BY <1>1 DEF WsBeforeRequest
<1>3. OwnFits(mine, who) /\ (~blind => TheirsFit(tool, disk, last, mine, before, who)) BY <1>2 DEF WsInv
<1>4. CASE TooLarge(disk)
  <2>1. report' = [named |-> {}, more |-> 0] /\ last' = last BY <1>1, <1>4 DEF WsBeforeRequest
  <2>2. report'.named = {} /\ ~(report'.more > 0) BY <2>1
  <2>3. last = disk BY <2>1
  <2> HIDE <2>1
  <2> QED BY <2>2, <2>3
<1>5. CASE ~TooLarge(disk)
  <2> DEFINE fs == Diff(last, disk, mine)
  <2>1. report' \in Told(fs) BY <1>1, <1>5 DEF WsBeforeRequest
  <2>2. fs \in SUBSET Paths /\ fs = {f \in Paths \ mine : last[f] # disk[f]} BY DEF Diff
  <2> HIDE DEF fs
  <2>3. /\ report'.named \subseteq fs /\ (report'.more > 0 => Cardinality(report'.named) = MaxReported)
        /\ report'.named # fs => report'.more > 0
    BY <2>1, <2>2, ReportedIs
  <2>4. ASSUME ~blind, NEW f \in report'.named PROVE who[f] \cap {"other", "left"} # {}
    BY <2>2, <2>3, <2>4, <1>2, <1>3 DEF TheirsFit, Foreign
  <2>5. ASSUME NEW f \in Paths, who[f] = {"other"}, disk[f] # last[f] PROVE f \in report'.named \/ report'.more > 0
    <3>1. f \notin mine BY <2>5, <1>3 DEF OwnFits, Agents
    <3>2. f \in fs BY <3>1, <2>5, <2>2
    <3> QED BY <3>2, <2>3
  <2> QED BY <2>3, <2>4, <2>5
<1> QED BY <1>4, <1>5

(* For any files, any limits and any order of changes: a request names no  *)
(* file that only the agent changed, unless a command of its could not be  *)
(* looked at or left a process that changed it, and leaves out none that   *)
(* only others changed but for a list that is too long (watch.go           *)
(* beforeRequest and claimShellChanges).                                   *)
THEOREM ReportsAreAlwaysRight == WsSpec => ReportsAreRight
<1>1. WsInv /\ [WsNext]_wsVars => [RightReport]_wsVars BY ReportIsRight
<1> QED BY <1>1, WsInvAlways, PTL DEF WsSpec, ReportsAreRight, RightReport

-----------------------------------------------------------------------------
(* The guard. *)
Tiers == {Low, Medium, High}
CallType == [tool : Tools \cup {"none"}, op : {"none", "commit"}, path : {"none", "inside", "outside"}, segments : Seq(Segments)]

GuardInv ==
  /\ call \in CallType /\ Len(call.segments) <= MaxSegments
  /\ permissionMode \in {"ask", "auto", "bypass"} /\ labels \subseteq {"guard:no-push"}
  /\ RulesRead(rules)

-----------------------------------------------------------------------------
LEMMA TierIs == ASSUME NEW seg PROVE SegmentTier(seg) \in Tiers
BY DEF SegmentTier, Tiers

LEMMA DefaultsAre ==
  /\ RulesRead(DefaultRules) /\ DOMAIN DefaultRules = {1, 2}
  /\ DefaultRules[1].decision = "ask" /\ DefaultRules[2].decision = "ask"
  /\ DefaultRules[1].match.tool = "bash" /\ DefaultRules[1].match.program = "" /\ DefaultRules[1].match.path = ""
  /\ DefaultRules[1].match.minRisk = High
  /\ DefaultRules[2].match.tool = "" /\ DefaultRules[2].match.program = "" /\ DefaultRules[2].match.path = "outside"
  /\ DefaultRules[2].match.minRisk = Low
<1> DEFINE m1 == [AnyCall EXCEPT !.tool = "bash", !.minRisk = High]
           m2 == [AnyCall EXCEPT !.path = "outside"]
<1>1. /\ m1.tool = "bash" /\ m1.program = "" /\ m1.path = "" /\ m1.minRisk = High
      /\ m2.tool = "" /\ m2.program = "" /\ m2.path = "outside" /\ m2.minRisk = Low
  BY DEF AnyCall
<1> HIDE DEF m1, m2
<1> DEFINE r1 == [decision |-> "ask", match |-> m1]
           r2 == [decision |-> "ask", match |-> m2]
<1>4. r1.decision = "ask" /\ r2.decision = "ask" /\ r1.match = m1 /\ r2.match = m2 OBVIOUS
<1>5. DefaultRules = <<r1, r2>> BY DEF DefaultRules, Rule, m1, m2
<1> HIDE DEF r1, r2
<1>6. /\ Len(DefaultRules) = 2 /\ DOMAIN DefaultRules = {1, 2} /\ DOMAIN DefaultRules = 1 .. Len(DefaultRules)
      /\ DefaultRules[1] = r1 /\ DefaultRules[2] = r2
  BY <1>5
<1>7. RulesRead(DefaultRules) BY <1>4, <1>6 DEF RulesRead, Decisions
<1> QED BY <1>1, <1>4, <1>6, <1>7

LEMMA WorstIs ==
  ASSUME NEW segs, segs # <<>>, NEW S, DOMAIN segs = S, S # {}
  PROVE  /\ ClassifyCommand(segs) \in Tiers
         /\ \A i \in S : SegmentTier(segs[i]) <= ClassifyCommand(segs)
         /\ \E i \in S : SegmentTier(segs[i]) = ClassifyCommand(segs)
<1> DEFINE T == {SegmentTier(segs[i]) : i \in S}
<1>1. ClassifyCommand(segs) = CHOOSE t \in T : \A i \in S : SegmentTier(segs[i]) <= t BY DEF ClassifyCommand
<1>2. \A i \in S : SegmentTier(segs[i]) \in T /\ SegmentTier(segs[i]) \in {0, 1, 2} BY TierIs DEF Tiers, Low, Medium, High
<1>3. \E t \in T : \A i \in S : SegmentTier(segs[i]) <= t
  <2> DEFINE tier(i) == SegmentTier(segs[i])
  <2>0. \A i \in S : tier(i) \in T /\ tier(i) \in {0, 1, 2} BY <1>2
  <2>4. SUFFICES \E j \in S : \A i \in S : tier(i) <= tier(j) BY <1>2
  <2> HIDE DEF tier, T
  <2>1. CASE \E i \in S : tier(i) = 2 BY <2>1, <2>0
  <2>2. CASE ~(\E i \in S : tier(i) = 2) /\ \E i \in S : tier(i) = 1 BY <2>2, <2>0
  <2>3. CASE ~(\E i \in S : tier(i) = 2) /\ ~(\E i \in S : tier(i) = 1) BY <2>3, <2>0
  <2> QED BY <2>1, <2>2, <2>3
<1>4. \E i \in S : SegmentTier(segs[i]) = ClassifyCommand(segs)
  <2>1. ClassifyCommand(segs) \in T BY <1>1, <1>3
  <2> QED BY <2>1
<1>5. \A i \in S : SegmentTier(segs[i]) <= ClassifyCommand(segs) BY <1>1, <1>3
<1> QED BY <1>4, <1>5, TierIs

LEMMA CommandIs ==
  ASSUME NEW segs \in Seq(Segments)
  PROVE  ClassifyCommand(segs) \in Tiers
<1>1. CASE segs = <<>> BY <1>1 DEF ClassifyCommand, Tiers
<1>2. CASE segs # <<>>
  <2>1. Len(segs) \in Nat /\ DOMAIN segs = 1 .. Len(segs) /\ Len(segs) # 0 BY <1>2
  <2>2. 1 \in DOMAIN segs BY <2>1
  <2> QED BY <1>2, <2>2, WorstIs
<1> QED BY <1>1, <1>2

LEMMA ClassIs == ASSUME NEW c \in CallType PROVE Classify(c) \in Tiers
<1>1. c.segments \in Seq(Segments) BY DEF CallType
<1>2. ClassifyCommand(c.segments) \in Tiers BY <1>1, CommandIs
<1>3. c.tool \in DOMAIN ToolTiers => ToolTiers[c.tool] \in Tiers BY DEF ToolTiers, Tiers
<1>4. Low \in Tiers /\ Medium \in Tiers /\ High \in Tiers BY DEF Tiers
<1> QED BY <1>2, <1>3, <1>4 DEF Classify

(* One more segment.                                                       *)
Longer(segs, more) ==
  /\ ClassifyCommand(segs) <= ClassifyCommand(more)
  /\ \A i \in DOMAIN segs : i \in DOMAIN more /\ more[i] = segs[i]

LEMMA LongerIs ==
  ASSUME NEW segs \in Seq(Segments), NEW seg \in Segments, NEW more, more = Append(segs, seg)
  PROVE  Longer(segs, more)
<1>1. /\ Len(segs) \in Nat /\ DOMAIN segs = 1 .. Len(segs) /\ DOMAIN more = 1 .. (Len(segs) + 1)
      /\ \A i \in 1 .. Len(segs) : more[i] = segs[i]
      /\ more \in Seq(Segments) /\ Len(more) = Len(segs) + 1
  OBVIOUS
<1>2. \A i \in DOMAIN segs : i \in DOMAIN more /\ more[i] = segs[i] BY <1>1
<1>3. ClassifyCommand(more) \in {0, 1, 2} BY <1>1, CommandIs DEF Tiers, Low, Medium, High
<1>4. CASE segs = <<>>
  <2>1. ClassifyCommand(segs) = 0 BY <1>4 DEF ClassifyCommand, Low
  <2>2. ClassifyCommand(segs) <= ClassifyCommand(more) BY <2>1, <1>3
  <2> QED BY <2>2, <1>1, <1>2 DEF Longer
<1>5. CASE segs # <<>>
  <2>1. Len(segs) # 0 BY <1>5
  <2>2. 1 \in DOMAIN segs /\ 1 \in DOMAIN more BY <1>1, <2>1
  <2>3. PICK i \in DOMAIN segs : SegmentTier(segs[i]) = ClassifyCommand(segs) BY <1>5, <2>2, WorstIs
  <2>4. more # <<>> BY <2>2
  <2>5. SegmentTier(more[i]) <= ClassifyCommand(more) BY <1>2, <2>2, <2>4, WorstIs
  <2> QED BY <1>2, <2>3, <2>5 DEF Longer
<1> QED BY <1>1, <1>2, <1>4, <1>5 DEF Longer

(* The first rule that matches, if any does.                               *)
LEMMA FirstIs ==
  ASSUME NEW list, RulesRead(list), NEW c
  PROVE  /\ FirstMatch(list, c) # 0 => FirstMatch(list, c) \in DOMAIN list /\ Matches(list[FirstMatch(list, c)], c)
         /\ FirstMatch(list, c) # 0 <=> \E i \in DOMAIN list : Matches(list[i], c)
<1> DEFINE I == {i \in 1 .. Len(list) : Matches(list[i], c)}
<1>1. FirstMatch(list, c) = IF I # {} THEN Min(I) ELSE 0 BY DEF FirstMatch, SelectInSeq
<1>2. Len(list) \in Nat /\ DOMAIN list = 1 .. Len(list) BY DEF RulesRead
<1>3. I \in SUBSET Nat /\ 0 \notin I BY <1>2
<1>4. I # {} => Min(I) \in I BY <1>3, MinIs
<1>5. I # {} <=> \E i \in DOMAIN list : Matches(list[i], c) BY <1>2
<1>6. \A i \in I : i \in DOMAIN list /\ Matches(list[i], c) BY <1>2
<1> HIDE DEF I
<1> QED BY <1>1, <1>3, <1>4, <1>5, <1>6

(* The two built-in rules ask about a dangerous command and about a path   *)
(* outside.                                                                *)
AsksByDefault(c) == (ToolOf(c) = "bash" /\ Classify(c) = High) \/ c.path = "outside"

LEMMA DefaultAsks ==
  ASSUME NEW c \in CallType
  PROVE  /\ FirstMatch(DefaultRules, c) # 0 <=> AsksByDefault(c)
         /\ FirstMatch(DefaultRules, c) # 0 => DefaultRules[FirstMatch(DefaultRules, c)].decision = "ask"
<1>1. /\ FirstMatch(DefaultRules, c) # 0 => FirstMatch(DefaultRules, c) \in {1, 2}
      /\ FirstMatch(DefaultRules, c) # 0 <=> Matches(DefaultRules[1], c) \/ Matches(DefaultRules[2], c)
  BY DefaultsAre, FirstIs
<1>2. Classify(c) \in {0, 1, 2} BY ClassIs DEF Tiers, Low, Medium, High
<1>3. ToolOf(c) # "" /\ c.path # "" BY DEF ToolOf, CallType, Tools
<1>4. Matches(DefaultRules[1], c) <=> ToolOf(c) = "bash" /\ Classify(c) = High
  <2>1. Matches(DefaultRules[1], c) <=> ToolOf(c) = "bash" /\ Classify(c) >= High
    BY <1>3, DefaultsAre DEF Matches
  <2> QED BY <2>1, <1>2 DEF High
<1>5. Matches(DefaultRules[2], c) <=> c.path = "outside"
  <2>1. Matches(DefaultRules[2], c) <=> c.path = "outside" /\ Classify(c) >= Low
    BY <1>3, DefaultsAre DEF Matches
  <2> QED BY <2>1, <1>2 DEF Low
<1> QED BY <1>1, <1>4, <1>5, DefaultsAre DEF AsksByDefault

Refused(c, ls) == "guard:no-push" \in ls /\ c.tool = "bash" /\ \E i \in DOMAIN c.segments : Publishes(c.segments[i])

Judged(v, c, m, ls, list) ==
  /\ v \in Decisions
  /\ Refused(c, ls) => v = "deny"
  /\ ~Refused(c, ls) /\ m = "bypass" => v = "allow"
  /\ ~Refused(c, ls) /\ m # "bypass" /\ FirstMatch(list, c) # 0 => v = list[FirstMatch(list, c)].decision
  /\ ~Refused(c, ls) /\ m # "bypass" /\ FirstMatch(list, c) = 0 => v = DefaultVerdict(m, c)

LEMMA VerdictIs ==
  ASSUME NEW c \in CallType, NEW m \in {"ask", "auto", "bypass"}, NEW ls, NEW list, RulesRead(list)
  PROVE  Judged(GuardVerdict(c, m, ls, list), c, m, ls, list)
<1>1. FirstMatch(list, c) # 0 => list[FirstMatch(list, c)].decision \in Decisions
  <2>1. \A i \in DOMAIN list : list[i].decision \in Decisions BY DEF RulesRead
  <2> QED BY <2>1, FirstIs
<1>2. DefaultVerdict(m, c) \in Decisions BY DEF DefaultVerdict, Decisions
<1> QED BY <1>1, <1>2 DEF GuardVerdict, Refused, Decisions, Judged

LEMMA StrictIs == Strictness("allow") = 0 /\ Strictness("ask") = 1 /\ Strictness("deny") = 2
BY DEF Strictness

-----------------------------------------------------------------------------
LEMMA GuardInitFits == GuardInit => GuardInv
<1> SUFFICES ASSUME GuardInit PROVE GuardInv OBVIOUS
<1>1. <<>> \in Seq(Segments) /\ Len(<<>>) = 0 OBVIOUS
<1>2. NoCall \in CallType /\ NoCall.segments = <<>> BY <1>1 DEF NoCall, CallType
<1>3. Len(NoCall.segments) <= MaxSegments BY <1>1, <1>2, GuardAssumption
<1> QED BY <1>2, <1>3, DefaultsAre DEF GuardInit, GuardInv

(* What a step does.                                                       *)
LEMMA MakeCallIs ==
  ASSUME GuardInv, MakeCall
  PROVE  call = NoCall /\ call' \in CallType /\ call'.segments = <<>> /\ labels' \subseteq {"guard:no-push"} /\ RulesRead(rules')
<1>1. <<>> \in Seq(Segments) OBVIOUS
<1>2. call' \in [tool : Tools, op : {"none", "commit"}, path : {"none", "inside", "outside"}, segments : {<<>>}]
  BY DEF MakeCall
<1>3. call' \in CallType /\ call'.segments = <<>> BY <1>1, <1>2 DEF CallType
<1>4. PICK list \in Rulesets : rules' = Configured(list) BY DEF MakeCall
<1>5. RulesRead(rules') BY <1>4, GuardAssumption, DefaultsAre DEF Configured
<1>6. labels' \subseteq {"guard:no-push"} BY DEF MakeCall
<1> QED BY <1>3, <1>5, <1>6 DEF MakeCall

LEMMA ChainIs ==
  ASSUME NEW c \in CallType, NEW seg \in Segments, NEW d, d = [c EXCEPT !.segments = Append(@, seg)]
  PROVE  /\ d \in CallType /\ d.tool = c.tool /\ d.path = c.path /\ d.op = c.op
         /\ d.segments = Append(c.segments, seg) /\ c.segments \in Seq(Segments)
         /\ Len(d.segments) = Len(c.segments) + 1 /\ Len(c.segments) \in Nat
<1>1. c.segments \in Seq(Segments) BY DEF CallType
<1>2. Append(c.segments, seg) \in Seq(Segments) /\ Len(Append(c.segments, seg)) = Len(c.segments) + 1 /\ Len(c.segments) \in Nat
  BY <1>1
<1>3. d \in CallType BY <1>2 DEF CallType
<1>4. d.tool = c.tool /\ d.path = c.path /\ d.op = c.op /\ d.segments = Append(c.segments, seg) BY DEF CallType
<1> QED BY <1>1, <1>2, <1>3, <1>4

LEMMA LoosenIs ==
  ASSUME GuardInv, Loosen
  PROVE  /\ UNCHANGED <<call, labels, rules>>
         /\ \/ permissionMode = "ask" /\ permissionMode' = "auto"
            \/ permissionMode = "auto" /\ permissionMode' = "bypass"
BY DEF GuardInv, Loosen

LEMMA GuardStep == GuardInv /\ [GuardNext]_guardVars => GuardInv'
<1> SUFFICES ASSUME GuardInv, [GuardNext]_guardVars PROVE GuardInv' OBVIOUS
<1>1. CASE UNCHANGED guardVars BY <1>1 DEF guardVars, GuardInv
<1>2. CASE MakeCall
  <2>1. Len(<<>>) = 0 OBVIOUS
  <2>2. Len(call'.segments) <= MaxSegments BY <2>1, <1>2, MakeCallIs, GuardAssumption
  <2>3. UNCHANGED permissionMode BY <1>2 DEF MakeCall
  <2> QED BY <2>2, <2>3, <1>2, MakeCallIs DEF GuardInv
<1>3. CASE Loosen BY <1>3, LoosenIs DEF GuardInv
<1>4. ASSUME NEW seg \in Segments, Chain(seg) PROVE GuardInv'
  <2>1. /\ Len(call.segments) < MaxSegments /\ call' = [call EXCEPT !.segments = Append(@, seg)]
        /\ UNCHANGED <<permissionMode, labels, rules>>
    BY <1>4 DEF Chain
  <2>2. /\ call' \in CallType /\ Len(call'.segments) = Len(call.segments) + 1 /\ Len(call.segments) \in Nat
    BY <2>1, ChainIs DEF GuardInv
  <2>3. Len(call'.segments) <= MaxSegments BY <2>1, <2>2, GuardAssumption
  <2> QED BY <2>1, <2>2, <2>3 DEF GuardInv
<1> QED BY <1>1, <1>2, <1>3, <1>4 DEF GuardNext

LEMMA GuardInvAlways == GuardSpec => []GuardInv
BY GuardInitFits, GuardStep, PTL DEF GuardSpec

LEMMA GuardInvGives == GuardInv => GuardTypeOK
<1> SUFFICES ASSUME GuardInv PROVE GuardTypeOK OBVIOUS
<1>1. GuardVerdict(call, permissionMode, labels, rules) \in Decisions BY VerdictIs DEF GuardInv, Judged
<1> QED BY <1>1 DEF GuardTypeOK, GuardInv, CallType

(* Every call the guard judges (guard.go GateTool), in any chain and under *)
(* any rules, gets one of the three verdicts.                              *)
THEOREM GuardTypeCorrect == GuardSpec => []GuardTypeOK
BY GuardInvAlways, GuardInvGives, PTL

-----------------------------------------------------------------------------
(* One more command: under the built-in rules what was refused is refused, *)
(* what was asked about is asked about.                                    *)
LEMMA LongerIsStricter ==
  ASSUME NEW c \in CallType, NEW seg \in Segments, NEW d, d = [c EXCEPT !.segments = Append(@, seg)],
         NEW m \in {"ask", "auto", "bypass"}, NEW ls
  PROVE  Strictness(GuardVerdict(d, m, ls, DefaultRules)) >= Strictness(GuardVerdict(c, m, ls, DefaultRules))
<1>1. /\ d \in CallType /\ d.tool = c.tool /\ d.path = c.path /\ d.op = c.op
      /\ d.segments = Append(c.segments, seg) /\ c.segments \in Seq(Segments)
  BY ChainIs
<1>2. /\ ClassifyCommand(c.segments) <= ClassifyCommand(d.segments)
      /\ \A i \in DOMAIN c.segments : i \in DOMAIN d.segments /\ d.segments[i] = c.segments[i]
  <2>1. Longer(c.segments, d.segments) BY <1>1, LongerIs
  <2> QED BY <2>1 DEF Longer
<1>3. Classify(c) \in {0, 1, 2} /\ Classify(d) \in {0, 1, 2} BY <1>1, ClassIs DEF Tiers, Low, Medium, High
<1>4. Classify(c) <= Classify(d)
  <2>1. ToolOf(d) = ToolOf(c) /\ InWorkspace(d) = InWorkspace(c) BY <1>1 DEF ToolOf, InWorkspace
  <2>2. CASE InWorkspace(c) /\ ToolOf(c) = "bash" BY <2>1, <2>2, <1>2 DEF Classify
  <2>3. CASE ~(InWorkspace(c) /\ ToolOf(c) = "bash")
    <3>1. Classify(d) = Classify(c) BY <2>1, <2>3, <1>1 DEF Classify
    <3> QED BY <3>1, <1>3
  <2> QED BY <2>2, <2>3
<1>5. Refused(c, ls) => Refused(d, ls) BY <1>1, <1>2 DEF Refused
<1>6. Classify(c) = High => Classify(d) = High BY <1>3, <1>4 DEF High
<1>7. AsksByDefault(c) => AsksByDefault(d) BY <1>1, <1>6 DEF AsksByDefault, ToolOf
<1>8. DefaultVerdict(m, c) = "ask" => DefaultVerdict(m, d) = "ask" BY <1>6 DEF DefaultVerdict
<1>9. DefaultVerdict(m, c) \in {"ask", "allow"} /\ DefaultVerdict(m, d) \in {"ask", "allow"} BY DEF DefaultVerdict
<1> DEFINE vc == GuardVerdict(c, m, ls, DefaultRules)
           vd == GuardVerdict(d, m, ls, DefaultRules)
<1>10. Judged(vc, c, m, ls, DefaultRules) /\ Judged(vd, d, m, ls, DefaultRules) BY <1>1, VerdictIs, DefaultsAre
<1> HIDE DEF vc, vd
<1>14. vc \in Decisions /\ vd \in Decisions BY <1>10 DEF Judged
<1>15. /\ FirstMatch(DefaultRules, c) # 0 <=> AsksByDefault(c)
       /\ FirstMatch(DefaultRules, c) # 0 => DefaultRules[FirstMatch(DefaultRules, c)].decision = "ask"
  BY DefaultAsks
<1>16. /\ FirstMatch(DefaultRules, d) # 0 <=> AsksByDefault(d)
       /\ FirstMatch(DefaultRules, d) # 0 => DefaultRules[FirstMatch(DefaultRules, d)].decision = "ask"
  BY <1>1, DefaultAsks
<1>11. vc = "deny" => vd = "deny"
  <2>1. ~Refused(c, ls) => vc # "deny" BY <1>9, <1>10, <1>15 DEF Judged
  <2> QED BY <2>1, <1>5, <1>10 DEF Judged
<1>12. vc = "ask" => vd \in {"ask", "deny"}
  <2> SUFFICES ASSUME vc = "ask", ~Refused(d, ls) PROVE vd = "ask" BY <1>10 DEF Judged
  <2>1. ~Refused(c, ls) BY <1>5
  <2>2. m # "bypass" BY <2>1, <1>10 DEF Judged
  <2>3. CASE AsksByDefault(d) BY <2>3, <2>2, <1>10, <1>16 DEF Judged
  <2>4. CASE ~AsksByDefault(d)
    <3>1. FirstMatch(DefaultRules, d) = 0 /\ FirstMatch(DefaultRules, c) = 0 BY <2>4, <1>7, <1>15, <1>16
    <3>2. DefaultVerdict(m, c) = "ask" BY <3>1, <2>1, <2>2, <1>10 DEF Judged
    <3> QED BY <3>1, <3>2, <1>8, <2>2, <1>10 DEF Judged
  <2> QED BY <2>3, <2>4
<1>13. Strictness(vd) >= Strictness(vc)
  BY <1>14, <1>11, <1>12, StrictIs DEF Decisions
<1> QED BY <1>13 DEF vc, vd

(* A looser mode: ask, auto, bypass.                                       *)
LEMMA LooserIsLooser ==
  ASSUME NEW c \in CallType, NEW ls, NEW list, RulesRead(list),
         NEW m, NEW n, (m = "ask" /\ n = "auto") \/ (m = "auto" /\ n = "bypass")
  PROVE  /\ Strictness(GuardVerdict(c, n, ls, list)) <= Strictness(GuardVerdict(c, m, ls, list))
         /\ list = DefaultRules /\ Strictness(GuardVerdict(c, m, ls, list)) = 2 =>
              Strictness(GuardVerdict(c, n, ls, list)) = 2
<1>0. m \in {"ask", "auto", "bypass"} /\ n \in {"ask", "auto", "bypass"} OBVIOUS
<1> DEFINE vm == GuardVerdict(c, m, ls, list)
           vn == GuardVerdict(c, n, ls, list)
<1>1. Judged(vm, c, m, ls, list) /\ Judged(vn, c, n, ls, list) BY <1>0, VerdictIs
<1>2. CASE Refused(c, ls)
  <2>1. vm = "deny" /\ vn = "deny" BY <1>1, <1>2 DEF Judged
  <2> QED BY <2>1, StrictIs
<1>3. CASE ~Refused(c, ls)
  <2> HIDE DEF vm, vn
  <2>1. vn = vm \/ vn = "allow"
    <3>1. CASE n = "bypass" BY <3>1, <1>1, <1>3 DEF Judged
    <3>2. CASE m = "ask" /\ n = "auto" /\ FirstMatch(list, c) # 0 BY <3>2, <1>1, <1>3 DEF Judged
    <3>3. CASE m = "ask" /\ n = "auto" /\ FirstMatch(list, c) = 0
      <4>1. vm = DefaultVerdict(m, c) /\ vn = DefaultVerdict(n, c) BY <3>3, <1>1, <1>3 DEF Judged
      <4>2. vm = "ask" /\ vn \in {"ask", "allow"} BY <4>1, <3>3 DEF DefaultVerdict
      <4> QED BY <4>2
    <3> QED BY <3>1, <3>2, <3>3
  <2>2. list = DefaultRules => vm # "deny"
    <3>1. CASE FirstMatch(list, c) # 0 BY <3>1, <1>1, <1>3, DefaultAsks DEF Judged
    <3>2. CASE FirstMatch(list, c) = 0
      <4>1. vm = DefaultVerdict(m, c) BY <3>2, <1>1, <1>3 DEF Judged
      <4> QED BY <4>1 DEF DefaultVerdict
    <3> QED BY <3>1, <3>2
  <2>4. vm \in Decisions /\ vn \in Decisions BY <1>1 DEF Judged
  <2>3. /\ Strictness(vn) <= Strictness(vm)
        /\ list = DefaultRules => Strictness(vm) # 2
    BY <2>1, <2>2, <2>4, StrictIs DEF Decisions
  <2> QED BY <2>3 DEF vm, vn
<1> QED BY <1>2, <1>3

MonotoneStep ==
  call # NoCall =>
    /\ rules = DefaultRules /\ permissionMode' = permissionMode => Now' >= Now
    /\ permissionMode' # permissionMode => Now' <= Now /\ (labels # {} /\ Now = 2 /\ rules = DefaultRules => Now' = 2)

LEMMA StepIsMonotone == GuardInv /\ [GuardNext]_guardVars => [MonotoneStep]_guardVars
<1> SUFFICES ASSUME GuardInv, GuardNext, call # NoCall
             PROVE  /\ rules = DefaultRules /\ permissionMode' = permissionMode => Now' >= Now
                    /\ permissionMode' # permissionMode =>
                         Now' <= Now /\ (labels # {} /\ Now = 2 /\ rules = DefaultRules => Now' = 2)
  BY DEF MonotoneStep
<1>0. call \in CallType /\ permissionMode \in {"ask", "auto", "bypass"} /\ RulesRead(rules) BY DEF GuardInv
<1>1. CASE MakeCall BY <1>1, MakeCallIs
<1>2. CASE Loosen
  <2>1. /\ UNCHANGED <<call, labels, rules>>
        /\ \/ permissionMode = "ask" /\ permissionMode' = "auto"
           \/ permissionMode = "auto" /\ permissionMode' = "bypass"
    BY <1>2, LoosenIs
  <2>2. permissionMode' # permissionMode BY <2>1
  <2> DEFINE m == permissionMode
             n == permissionMode'
  <2>3. Now = Strictness(GuardVerdict(call, m, labels, rules)) /\ Now' = Strictness(GuardVerdict(call, n, labels, rules))
    BY <2>1 DEF Now
  <2>4. (m = "ask" /\ n = "auto") \/ (m = "auto" /\ n = "bypass") BY <2>1
  <2> HIDE DEF m, n
  <2>5. /\ Strictness(GuardVerdict(call, n, labels, rules)) <= Strictness(GuardVerdict(call, m, labels, rules))
        /\ rules = DefaultRules /\ Strictness(GuardVerdict(call, m, labels, rules)) = 2 =>
              Strictness(GuardVerdict(call, n, labels, rules)) = 2
    BY <2>4, <1>0, LooserIsLooser
  <2> QED BY <2>2, <2>3, <2>5
<1>3. ASSUME NEW seg \in Segments, Chain(seg) PROVE (rules = DefaultRules => Now' >= Now) /\ permissionMode' = permissionMode
  <2>1. call' = [call EXCEPT !.segments = Append(@, seg)] /\ UNCHANGED <<permissionMode, labels, rules>> BY <1>3 DEF Chain
  <2>2. Now = Strictness(GuardVerdict(call, permissionMode, labels, rules))
        /\ Now' = Strictness(GuardVerdict(call', permissionMode, labels, rules))
    BY <2>1 DEF Now
  <2>3. Strictness(GuardVerdict(call', permissionMode, labels, DefaultRules)) >=
          Strictness(GuardVerdict(call, permissionMode, labels, DefaultRules))
    BY <2>1, <1>0, LongerIsStricter
  <2> QED BY <2>1, <2>2, <2>3
<1> QED BY <1>1, <1>2, <1>3 DEF GuardNext

(* For any segments, chains and rules: under the built-in rules one more   *)
(* command never gets a chain through more easily, under any rules a       *)
(* looser mode never makes the gate stricter, and a session that may not   *)
(* publish stays refused in every mode (guard.go GateTool and classify).   *)
THEOREM GateIsAlwaysMonotone == GuardSpec => GateIsMonotone
<1>1. GuardInv /\ [GuardNext]_guardVars => [MonotoneStep]_guardVars BY StepIsMonotone
<1> QED BY <1>1, GuardInvAlways, PTL DEF GuardSpec, GateIsMonotone, MonotoneStep

-----------------------------------------------------------------------------
(* The calls to the model. *)
Parts == Streamed \cup CallParts
Finishes == {"none", "done", "length", "unsaid", "recovered"} \cup Failures
Words == {"asked again", "failed", "partial", "message", "interrupted"}
CallTurn ==
  [at : {"idle", "waiting", "sent", "streaming", "backoff", "reply", "failed", "over"}, ask : 1..2,
   attempt : 1..(Retries + 1), parts : Seq(Parts), finish : Finishes, shown : SUBSET (Nat \X Nat),
   logged : SUBSET Words, ran : SUBSET Nat]

AtProvider(t) == t.at \in {"sent", "streaming", "backoff"}

(* What a reader saw is of this attempt, and of the one that is going on   *)
(* or is described at the end.                                             *)
ShownFits(t) ==
  /\ t.shown \subseteq {<<t.ask, t.attempt>>}
  /\ t.at \in {"idle", "waiting", "sent", "backoff"} => t.shown = {}
  /\ t.at = "failed" /\ t.finish = "room" => t.shown = {}
  /\ t.shown # {} => t.parts # <<>>
  /\ t.at = "over" /\ "interrupted" \notin t.logged /\ t.shown # {} => t.logged \cap {"message", "partial"} # {}

(* A call that is not whole is the last part; what ran is whole, but for   *)
(* one the server left off in the middle of.                               *)
OpenAtEnd(parts) == \A i \in DOMAIN parts : parts[i] \in {"begun", "half"} => i = Len(parts)
Repaired(parts) ==
  parts # <<>> /\ CallsOf(parts) = {Len(parts)} /\ parts[Len(parts)] = "whole" /\ ~Has(parts, {"leak"})
RanFits(t) ==
  /\ OpenAtEnd(t.parts)
  /\ t.at \notin {"reply", "over"} => t.finish \notin {"done", "length", "unsaid", "recovered"}
  /\ t.at = "reply" => t.finish \in {"done", "length", "unsaid", "recovered"} /\ t.ran = {}
  /\ t.at = "reply" /\ t.finish = "done" => ~Has(t.parts, {"begun", "half"})
  /\ t.at \in {"reply", "over"} /\ t.finish = "recovered" => Repaired(t.parts)
  /\ t.at # "over" => t.ran = {}
  /\ t.at = "over" /\ t.finish = "recovered" => t.ran = {Len(t.parts)}
  /\ t.ran \subseteq CallsOf(t.parts) /\ \A i \in t.ran : t.parts[i] # "whole" => t.finish = "unsaid"

TurnFits(t) ==
  /\ t \in CallTurn /\ ShownFits(t) /\ RanFits(t)
  /\ t.at = "backoff" => t.attempt <= Retries

CallInv ==
  /\ turns \in [Callers -> CallTurn] /\ \A c \in Callers : TurnFits(turns[c])
  /\ slots = {c \in Callers : AtProvider(turns[c])}
  /\ IsFiniteSet(slots) /\ Cardinality(slots) <= MaxInFlight

-----------------------------------------------------------------------------
LEMMA CallBounds == MaxInFlight \in Nat /\ Retries \in Nat /\ MaxInFlight > 0
BY ModelCallAssumption

LEMMA IdleFits == TurnFits(Idle) /\ Idle.at = "idle"
<1>1. <<>> \in Seq(Parts) /\ DOMAIN <<>> = {} OBVIOUS
<1>2. /\ Idle.at = "idle" /\ Idle.ask = 1 /\ Idle.attempt = 1 /\ Idle.parts = <<>> /\ Idle.finish = "none"
      /\ Idle.shown = {} /\ Idle.logged = {} /\ Idle.ran = {}
  BY DEF Idle
<1>3. Idle \in CallTurn
  <2>1. 1 \in 1 .. (Retries + 1) BY CallBounds
  <2> QED BY <1>1, <2>1 DEF Idle, CallTurn, Finishes
<1>4. ShownFits(Idle) BY <1>2 DEF ShownFits
<1>5. RanFits(Idle) BY <1>1, <1>2 DEF RanFits, OpenAtEnd
<1> QED BY <1>2, <1>3, <1>4, <1>5 DEF TurnFits

LEMMA CallInitFits == ModelCallInit => CallInv
<1> SUFFICES ASSUME ModelCallInit PROVE CallInv OBVIOUS
<1>1. turns \in [Callers -> CallTurn] /\ \A c \in Callers : TurnFits(turns[c]) /\ ~AtProvider(turns[c])
  BY IdleFits DEF ModelCallInit, TurnFits, AtProvider
<1>2. slots = {} BY DEF ModelCallInit
<1>3. IsFiniteSet(slots) /\ Cardinality(slots) <= MaxInFlight BY <1>2, FS_EmptySet, CallBounds
<1> QED BY <1>1, <1>2, <1>3 DEF CallInv

(* A step of one caller that gives it a turn that fits and a slot only as  *)
(* long as its call is at the provider.                                    *)
LEMMA SetKeeps ==
  ASSUME CallInv, NEW c \in Callers, NEW r, TurnFits(r), Set(c, r),
         slots' = IF AtProvider(r) THEN slots \cup {c} ELSE slots \ {c},
         c \notin slots /\ AtProvider(r) => Cardinality(slots) < MaxInFlight
  PROVE  CallInv'
<1>1. turns \in [Callers -> CallTurn] /\ turns' = [turns EXCEPT ![c] = r] BY DEF CallInv, Set
<1>2. turns' \in [Callers -> CallTurn] BY <1>1 DEF TurnFits
<1>3. turns'[c] = r /\ \A d \in Callers \ {c} : turns'[d] = turns[d] BY <1>1
<1>4. \A d \in Callers : TurnFits(turns'[d]) BY <1>3 DEF CallInv
<1>5. slots' = {d \in Callers : AtProvider(turns'[d])} BY <1>3 DEF CallInv
<1>6. IsFiniteSet(slots) /\ Cardinality(slots) <= MaxInFlight /\ Cardinality(slots) \in Nat
  BY FS_CardinalityType DEF CallInv
<1>7. IsFiniteSet(slots') /\ Cardinality(slots') <= MaxInFlight
  <2>1. CASE AtProvider(r) /\ c \notin slots
    <3>1. slots' = slots \cup {c} /\ Cardinality(slots) < MaxInFlight BY <2>1
    <3>2. IsFiniteSet(slots \cup {c}) /\ Cardinality(slots \cup {c}) = Cardinality(slots) + 1 BY <2>1, <1>6, FS_AddElement
    <3> QED BY <3>1, <3>2, <1>6, CallBounds
  <2>2. CASE ~(AtProvider(r) /\ c \notin slots)
    <3>1. slots' \in SUBSET slots BY <2>2
    <3>2. IsFiniteSet(slots') /\ Cardinality(slots') <= Cardinality(slots) /\ Cardinality(slots') \in Nat
      BY <3>1, <1>6, FS_Subset, FS_CardinalityType
    <3> QED BY <3>2, <1>6, CallBounds
  <2> QED BY <2>1, <2>2
<1> QED BY <1>2, <1>4, <1>5, <1>7 DEF CallInv

-----------------------------------------------------------------------------
(* What a chunk makes of the parts, and what the recovery makes of them.   *)
LEMMA GrownIs ==
  ASSUME NEW parts \in Seq(Parts), NEW more, more \in Grown(parts)
  PROVE  more \in Seq(Parts) /\ more # <<>>
<1>1. CASE \E k \in Streamed \cup {"begun"} : more = Append(parts, k)
  <2>1. PICK k \in Streamed \cup {"begun"} : more = Append(parts, k) BY <1>1
  <2>2. k \in Parts BY <2>1 DEF Parts, CallParts
  <2> QED BY <2>1, <2>2
<1>2. CASE parts # <<>> /\ \E k \in {"half", "whole"} : more = Append(Front(parts), k)
  <2>1. PICK k \in {"half", "whole"} : more = Append(Front(parts), k) BY <1>2
  <2>2. k \in Parts BY <2>1 DEF Parts, CallParts
  <2>3. Front(parts) \in Seq(Parts)
    <3>1. Len(parts) \in Nat /\ Len(parts) # 0 BY <1>2
    <3>2. \A i \in 1 .. (Len(parts) - 1) : parts[i] \in Parts BY <3>1
    <3> QED BY <3>1, <3>2, SubSeqProperties DEF Front
  <2> QED BY <2>1, <2>2, <2>3
<1> QED BY <1>1, <1>2 DEF Grown

LEMMA RecoveredIs ==
  ASSUME NEW parts \in Seq(Parts), OpenAtEnd(parts), NEW back, back = Recovered(parts)
  PROVE  /\ back \in Seq(Parts) /\ OpenAtEnd(back)
         /\ parts # <<>> => back # <<>>
         /\ back # parts => Repaired(back)
<1>1. CASE ~(CallsOf(parts) = {} /\ Has(parts, {"leak"}))
  <2>1. back = parts BY <1>1 DEF Recovered
  <2> QED BY <2>1
<1>2. CASE CallsOf(parts) = {} /\ Has(parts, {"leak"})
  <2> DEFINE n == Len(parts)
             clean == [i \in DOMAIN parts |-> IF parts[i] = "leak" THEN "thinking" ELSE parts[i]]
  <2>1. n \in Nat /\ DOMAIN parts = 1..n /\ \A i \in 1..n : parts[i] \in Parts BY LenProperties
  <2>2. back = Append(clean, "whole") BY <1>2 DEF Recovered
  <2>3. "thinking" \in Parts /\ "whole" \in Parts /\ "whole" \in CallParts /\ "thinking" \notin CallParts
    BY DEF Parts, Streamed, CallParts
  <2>4. clean \in [1..n -> Parts] BY <2>1, <2>3
  <2>5. clean \in Seq(Parts) /\ Len(clean) = n BY <2>1, <2>4
  <2>6. \A i \in 1..n : clean[i] \notin CallParts /\ clean[i] # "leak"
    BY <1>2, <2>1, <2>3 DEF CallsOf, CallParts
  <2> HIDE DEF clean, n
  <2>7. /\ back \in Seq(Parts) /\ Len(back) = n + 1 /\ DOMAIN back = 1 .. (n + 1)
        /\ \A i \in 1..n : back[i] = clean[i]
        /\ back[n + 1] = "whole"
    BY <2>1, <2>2, <2>3, <2>5
  <2>8. \A i \in DOMAIN back : (back[i] \in CallParts <=> i = n + 1) /\ back[i] # "leak"
    <3>1. ASSUME NEW i \in 1..n PROVE (back[i] \in CallParts <=> i = n + 1) /\ back[i] # "leak" BY <2>1, <2>6, <2>7
    <3>2. back[n + 1] \in CallParts /\ back[n + 1] # "leak" BY <2>3, <2>7
    <3>3. \A i \in 1 .. (n + 1) : i \in 1..n \/ i = n + 1 BY <2>1
    <3> QED BY <3>1, <3>2, <3>3, <2>7
  <2>9. OpenAtEnd(back) BY <2>7, <2>8 DEF OpenAtEnd, CallParts
  <2>10. CallsOf(back) = {n + 1} BY <2>1, <2>7, <2>8 DEF CallsOf
  <2>11. ~Has(back, {"leak"}) BY <2>8 DEF Has
  <2>12. back # <<>> BY <2>1, <2>7
  <2> QED BY <2>7, <2>9, <2>10, <2>11, <2>12 DEF Repaired
<1> QED BY <1>1, <1>2

-----------------------------------------------------------------------------
LEMMA TurnIs ==
  ASSUME CallInv, NEW c \in Callers
  PROVE  /\ turns[c] \in CallTurn /\ ShownFits(turns[c]) /\ RanFits(turns[c])
         /\ turns[c].at = "backoff" => turns[c].attempt <= Retries
         /\ c \in slots <=> AtProvider(turns[c])
BY DEF CallInv, TurnFits

LEMMA StartsKeeps == ASSUME CallInv, NEW c \in Callers, TurnStarts(c) PROVE CallInv'
<1> DEFINE r == [Idle EXCEPT !.at = "waiting"]
<1>1. Set(c, r) /\ turns[c].at = "idle" /\ slots' = slots BY DEF TurnStarts
<1>2. r \in CallTurn BY IdleFits DEF TurnFits, CallTurn
<1>3. /\ r.at = "waiting" /\ r.parts = Idle.parts /\ r.finish = Idle.finish /\ r.shown = Idle.shown
      /\ r.logged = Idle.logged /\ r.ran = Idle.ran
  BY DEF Idle
<1> HIDE DEF r
<1>4. Idle.parts = <<>> /\ Idle.finish = "none" /\ Idle.shown = {} /\ Idle.ran = {} BY DEF Idle
<1>5. ShownFits(r) BY <1>3, <1>4 DEF ShownFits
<1>6. RanFits(r) BY <1>3, <1>4, IdleFits DEF TurnFits, RanFits
<1>7. ~AtProvider(r) /\ c \notin slots BY <1>1, <1>3, TurnIs DEF AtProvider
<1> QED BY <1>1, <1>2, <1>3, <1>5, <1>6, <1>7, SetKeeps DEF TurnFits

LEMMA AcquiresKeeps == ASSUME CallInv, NEW c \in Callers, Acquires(c) PROVE CallInv'
<1> DEFINE r == [turns[c] EXCEPT !.at = "sent"]
<1>1. Set(c, r) /\ turns[c].at = "waiting" /\ slots' = slots \cup {c} /\ Cardinality(slots) < MaxInFlight BY DEF Acquires
<1>2. r \in CallTurn BY TurnIs DEF CallTurn
<1>3. /\ r.at = "sent" /\ r.ask = turns[c].ask /\ r.attempt = turns[c].attempt /\ r.parts = turns[c].parts
      /\ r.finish = turns[c].finish /\ r.shown = turns[c].shown /\ r.logged = turns[c].logged /\ r.ran = turns[c].ran
  BY TurnIs DEF CallTurn
<1> HIDE DEF r
<1>5. ShownFits(r) BY <1>1, <1>3, TurnIs DEF ShownFits
<1>6. RanFits(r) BY <1>1, <1>3, TurnIs DEF RanFits
<1>7. AtProvider(r) BY <1>3 DEF AtProvider
<1> QED BY <1>1, <1>2, <1>3, <1>5, <1>6, <1>7, SetKeeps DEF TurnFits

LEMMA StreamsKeeps == ASSUME CallInv, NEW c \in Callers, Streams(c) PROVE CallInv'
<1>1. /\ turns[c].at \in {"sent", "streaming"} /\ slots' = slots BY DEF Streams
<1>2. PICK parts \in Grown(turns[c].parts) :
        /\ \A i \in DOMAIN parts : parts[i] \in {"begun", "half"} => i = Len(parts)
        /\ Set(c, [turns[c] EXCEPT !.at = "streaming", !.parts = parts,
                     !.shown = IF Last(parts) \in Streamed
                               THEN @ \cup {<<turns[c].ask, turns[c].attempt>>} ELSE @])
  BY DEF Streams
<1> DEFINE here == <<turns[c].ask, turns[c].attempt>>
           seen == IF Last(parts) \in Streamed THEN turns[c].shown \cup {here} ELSE turns[c].shown
           r == [turns[c] EXCEPT !.at = "streaming", !.parts = parts, !.shown = seen]
<1>3. Set(c, r) BY <1>2, TurnIs DEF CallTurn
<1>4. parts \in Seq(Parts) /\ parts # <<>> BY TurnIs, GrownIs DEF CallTurn
<1>5. here \in Nat \X Nat BY TurnIs, CallBounds DEF CallTurn
<1>6. seen \in SUBSET (Nat \X Nat) /\ seen \subseteq turns[c].shown \cup {here} BY <1>5, TurnIs DEF CallTurn
<1> HIDE DEF seen
<1>7. r \in CallTurn BY <1>4, <1>6, TurnIs DEF CallTurn
<1>8. /\ r.at = "streaming" /\ r.ask = turns[c].ask /\ r.attempt = turns[c].attempt /\ r.parts = parts
      /\ r.finish = turns[c].finish /\ r.shown = seen /\ r.ran = turns[c].ran
  BY TurnIs DEF CallTurn
<1> HIDE DEF r
<1>9. ShownFits(r) BY <1>4, <1>6, <1>8, TurnIs DEF ShownFits
<1>10. RanFits(r) BY <1>1, <1>2, <1>8, TurnIs DEF RanFits, OpenAtEnd
<1>11. AtProvider(r) /\ c \in slots BY <1>1, <1>8, TurnIs DEF AtProvider
<1>12. slots' = IF AtProvider(r) THEN slots \cup {c} ELSE slots \ {c} BY <1>1, <1>11
<1> QED BY <1>3, <1>7, <1>8, <1>9, <1>10, <1>11, <1>12, SetKeeps DEF TurnFits

LEMMA CompletesKeeps == ASSUME CallInv, NEW c \in Callers, Completes(c) PROVE CallInv'
<1>1. turns[c].at = "streaming" /\ slots' = slots \ {c} BY DEF Completes
<1> DEFINE back == Recovered(turns[c].parts)
<1>2. PICK f \in {"done", "length", "unsaid"} :
        /\ f = "done" => ~Has(turns[c].parts, {"begun", "half"})
        /\ Set(c, [turns[c] EXCEPT !.at = "reply", !.parts = back,
                     !.finish = IF back # turns[c].parts THEN "recovered" ELSE f])
  BY DEF Completes
<1> DEFINE g == IF back # turns[c].parts THEN "recovered" ELSE f
           r == [turns[c] EXCEPT !.at = "reply", !.parts = back, !.finish = g]
<1>3. Set(c, r) BY <1>2
<1>4. turns[c].parts \in Seq(Parts) /\ OpenAtEnd(turns[c].parts) BY TurnIs DEF CallTurn, RanFits
<1>5. /\ back \in Seq(Parts) /\ OpenAtEnd(back)
      /\ turns[c].parts # <<>> => back # <<>>
      /\ back # turns[c].parts => Repaired(back)
  BY <1>4, RecoveredIs
<1>6. /\ g \in {"done", "length", "unsaid", "recovered"}
      /\ g = "recovered" => Repaired(back)
      /\ g = "done" => ~Has(back, {"begun", "half"})
  BY <1>2, <1>5
<1> HIDE DEF g, back
<1>7. r \in CallTurn BY <1>5, <1>6, TurnIs DEF CallTurn, Finishes
<1>8. /\ r.at = "reply" /\ r.ask = turns[c].ask /\ r.attempt = turns[c].attempt /\ r.parts = back
      /\ r.finish = g /\ r.shown = turns[c].shown /\ r.ran = turns[c].ran
  BY TurnIs DEF CallTurn
<1> HIDE DEF r
<1>9. ShownFits(r) BY <1>5, <1>8, TurnIs DEF ShownFits
<1>10. turns[c].ran = {} BY <1>1, TurnIs DEF RanFits
<1>11. RanFits(r) BY <1>5, <1>6, <1>8, <1>10 DEF RanFits
<1>12. ~AtProvider(r) BY <1>8 DEF AtProvider
<1>13. slots' = IF AtProvider(r) THEN slots \cup {c} ELSE slots \ {c} BY <1>1, <1>12
<1> QED BY <1>3, <1>7, <1>8, <1>9, <1>11, <1>12, <1>13, SetKeeps DEF TurnFits

LEMMA FailsKeeps == ASSUME CallInv, NEW c \in Callers, NEW how \in Failures, AttemptFails(c, how) PROVE CallInv'
<1>1. turns[c].at = "sent" \/ (turns[c].at = "streaming" /\ how \in {"timeout", "broken"}) BY DEF AttemptFails
<1>2. c \in slots BY <1>1, TurnIs DEF AtProvider
<1>3. CASE MayRetry(turns[c], how)
  <2> DEFINE r == [turns[c] EXCEPT !.at = "backoff"]
  <2>1. Set(c, r) /\ slots' = slots BY <1>3 DEF AttemptFails
  <2>2. turns[c].attempt <= Retries /\ <<turns[c].ask, turns[c].attempt>> \notin turns[c].shown BY <1>3 DEF MayRetry
  <2>3. r \in CallTurn BY TurnIs DEF CallTurn
  <2>4. /\ r.at = "backoff" /\ r.ask = turns[c].ask /\ r.attempt = turns[c].attempt /\ r.parts = turns[c].parts
        /\ r.finish = turns[c].finish /\ r.shown = turns[c].shown /\ r.ran = turns[c].ran
    BY TurnIs DEF CallTurn
  <2> HIDE DEF r
  <2>5. turns[c].shown = {} BY <2>2, TurnIs DEF ShownFits
  <2>6. ShownFits(r) BY <2>4, <2>5 DEF ShownFits
  <2>7. RanFits(r) BY <1>1, <2>4, TurnIs DEF RanFits
  <2>8. AtProvider(r) BY <2>4 DEF AtProvider
  <2>9. slots' = IF AtProvider(r) THEN slots \cup {c} ELSE slots \ {c} BY <1>2, <2>1, <2>8
  <2> QED BY <1>2, <2>1, <2>2, <2>3, <2>4, <2>6, <2>7, <2>9, SetKeeps DEF TurnFits
<1>4. CASE ~MayRetry(turns[c], how)
  <2> DEFINE r == [turns[c] EXCEPT !.at = "failed", !.finish = how]
  <2>1. Set(c, r) /\ slots' = slots \ {c} BY <1>4 DEF AttemptFails
  <2>3. r \in CallTurn BY TurnIs DEF CallTurn, Finishes
  <2>4. /\ r.at = "failed" /\ r.ask = turns[c].ask /\ r.attempt = turns[c].attempt /\ r.parts = turns[c].parts
        /\ r.finish = how /\ r.shown = turns[c].shown /\ r.ran = turns[c].ran
    BY TurnIs DEF CallTurn
  <2> HIDE DEF r
  <2>6. ShownFits(r) BY <1>1, <2>4, TurnIs DEF ShownFits
  <2>5. how \notin {"done", "length", "unsaid", "recovered"} BY DEF Failures
  <2>7. RanFits(r) BY <1>1, <2>4, <2>5, TurnIs DEF RanFits
  <2>8. ~AtProvider(r) BY <2>4 DEF AtProvider
  <2>9. slots' = IF AtProvider(r) THEN slots \cup {c} ELSE slots \ {c} BY <2>1, <2>8
  <2> QED BY <2>1, <2>3, <2>4, <2>6, <2>7, <2>8, <2>9, SetKeeps DEF TurnFits
<1> QED BY <1>3, <1>4

LEMMA AgainKeeps == ASSUME CallInv, NEW c \in Callers, TriesAgain(c) PROVE CallInv'
<1> DEFINE r == [turns[c] EXCEPT !.at = "sent", !.attempt = @ + 1, !.parts = <<>>]
<1>1. Set(c, r) /\ turns[c].at = "backoff" /\ slots' = slots BY DEF TriesAgain
<1>2. <<>> \in Seq(Parts) /\ DOMAIN <<>> = {} OBVIOUS
<1>3. turns[c].attempt + 1 \in 1 .. (Retries + 1) BY <1>1, TurnIs, CallBounds DEF CallTurn
<1>4. r \in CallTurn BY <1>2, <1>3, TurnIs DEF CallTurn
<1>5. /\ r.at = "sent" /\ r.parts = <<>> /\ r.finish = turns[c].finish /\ r.shown = turns[c].shown /\ r.ran = turns[c].ran
  BY TurnIs DEF CallTurn
<1> HIDE DEF r
<1>6. turns[c].shown = {} /\ turns[c].ran = {} BY <1>1, TurnIs DEF ShownFits, RanFits
<1>7. ShownFits(r) BY <1>5, <1>6 DEF ShownFits
<1>8. RanFits(r) BY <1>1, <1>2, <1>5, <1>6, TurnIs DEF RanFits, OpenAtEnd
<1>9. AtProvider(r) /\ c \in slots BY <1>1, <1>5, TurnIs DEF AtProvider
<1>10. slots' = IF AtProvider(r) THEN slots \cup {c} ELSE slots \ {c} BY <1>1, <1>9
<1> QED BY <1>1, <1>4, <1>5, <1>7, <1>8, <1>9, <1>10, SetKeeps DEF TurnFits

LEMMA AskedAgainKeeps == ASSUME CallInv, NEW c \in Callers, AskedAgain(c) PROVE CallInv'
<1> DEFINE r == [turns[c] EXCEPT !.at = "waiting", !.ask = 2, !.attempt = 1, !.parts = <<>>,
                   !.logged = @ \cup {"asked again"}]
<1>1. Set(c, r) /\ turns[c].at = "failed" /\ turns[c].finish = "room" /\ slots' = slots BY DEF AskedAgain
<1>2. <<>> \in Seq(Parts) /\ DOMAIN <<>> = {} OBVIOUS
<1>3. 1 \in 1 .. (Retries + 1) /\ "asked again" \in Words /\ 2 \in 1..2 BY CallBounds DEF Words
<1>4. r \in CallTurn
  <2>1. turns[c] \in CallTurn BY TurnIs
  <2>2. "waiting" \in {"idle", "waiting", "sent", "streaming", "backoff", "reply", "failed", "over"} OBVIOUS
  <2>3. turns[c].logged \cup {"asked again"} \in SUBSET Words BY <1>3, <2>1 DEF CallTurn
  <2> QED BY <1>2, <1>3, <2>1, <2>2, <2>3 DEF CallTurn
<1>5. /\ r.at = "waiting" /\ r.parts = <<>> /\ r.finish = turns[c].finish /\ r.shown = turns[c].shown /\ r.ran = turns[c].ran
  BY TurnIs DEF CallTurn
<1> HIDE DEF r
<1>6. turns[c].shown = {} /\ turns[c].ran = {} BY <1>1, TurnIs DEF ShownFits, RanFits
<1>7. ShownFits(r) BY <1>5, <1>6 DEF ShownFits
<1>8. RanFits(r) BY <1>1, <1>2, <1>5, <1>6, TurnIs DEF RanFits, OpenAtEnd
<1>9. ~AtProvider(r) /\ c \notin slots BY <1>1, <1>5, TurnIs DEF AtProvider
<1>10. slots' = IF AtProvider(r) THEN slots \cup {c} ELSE slots \ {c} BY <1>1, <1>9
<1> QED BY <1>1, <1>4, <1>5, <1>7, <1>8, <1>9, <1>10, SetKeeps DEF TurnFits

LEMMA FailedKeeps == ASSUME CallInv, NEW c \in Callers, CallFailed(c) PROVE CallInv'
<1> DEFINE words == turns[c].logged \cup {"failed"} \cup {k \in {"partial"} : turns[c].parts # <<>>}
           r == [turns[c] EXCEPT !.at = "over", !.logged = words]
<1>1. Set(c, r) /\ turns[c].at = "failed" /\ slots' = slots
  <2>1. Set(c, [turns[c] EXCEPT !.at = "over",
               !.logged = @ \cup {"failed"} \cup {k \in {"partial"} : turns[c].parts # <<>>}])
    BY DEF CallFailed
  <2>2. turns[c] \in CallTurn BY TurnIs
  <2> QED BY <2>1, <2>2 DEF CallFailed, CallTurn
<1>2. words \in SUBSET Words
  <2>1. turns[c].logged \in SUBSET Words BY TurnIs DEF CallTurn
  <2> QED BY <2>1 DEF Words
<1>3. turns[c].parts # <<>> => "partial" \in words OBVIOUS
<1> HIDE DEF words
<1>4. r \in CallTurn BY <1>2, TurnIs DEF CallTurn
<1>5. /\ r.at = "over" /\ r.ask = turns[c].ask /\ r.attempt = turns[c].attempt /\ r.parts = turns[c].parts
      /\ r.finish = turns[c].finish /\ r.shown = turns[c].shown /\ r.ran = turns[c].ran /\ r.logged = words
  BY TurnIs DEF CallTurn
<1> HIDE DEF r
<1>6. ShownFits(r) BY <1>3, <1>5, TurnIs DEF ShownFits
<1>7. turns[c].ran = {} /\ turns[c].finish # "recovered" /\ OpenAtEnd(turns[c].parts) BY <1>1, TurnIs DEF RanFits
<1>8. RanFits(r) BY <1>5, <1>7 DEF RanFits
<1>9. ~AtProvider(r) /\ c \notin slots BY <1>1, <1>5, TurnIs DEF AtProvider
<1>10. slots' = IF AtProvider(r) THEN slots \cup {c} ELSE slots \ {c} BY <1>1, <1>9
<1> QED BY <1>1, <1>4, <1>5, <1>6, <1>8, <1>9, <1>10, SetKeeps DEF TurnFits

LEMMA RepeatingKeeps == ASSUME CallInv, NEW c \in Callers, StopRepeating(c) PROVE CallInv'
<1> DEFINE r == [turns[c] EXCEPT !.at = "over", !.logged = @ \cup {"message", "partial"}]
<1>1. Set(c, r) /\ turns[c].at = "streaming" /\ slots' = slots \ {c} BY DEF StopRepeating
<1>2. {"message", "partial"} \subseteq Words BY DEF Words
<1>4. r \in CallTurn BY <1>2, TurnIs DEF CallTurn
<1>5. /\ r.at = "over" /\ r.ask = turns[c].ask /\ r.attempt = turns[c].attempt /\ r.parts = turns[c].parts
      /\ r.finish = turns[c].finish /\ r.shown = turns[c].shown /\ r.ran = turns[c].ran /\ "message" \in r.logged
  BY TurnIs DEF CallTurn
<1> HIDE DEF r
<1>6. ShownFits(r) BY <1>5, TurnIs DEF ShownFits
<1>7. turns[c].ran = {} /\ turns[c].finish # "recovered" /\ OpenAtEnd(turns[c].parts) BY <1>1, TurnIs DEF RanFits
<1>8. RanFits(r) BY <1>5, <1>7 DEF RanFits
<1>9. ~AtProvider(r) BY <1>5 DEF AtProvider
<1>10. slots' = IF AtProvider(r) THEN slots \cup {c} ELSE slots \ {c} BY <1>1, <1>9
<1> QED BY <1>1, <1>4, <1>5, <1>6, <1>8, <1>9, <1>10, SetKeeps DEF TurnFits

(* The calls that run: all, but for the last one of a reply that was cut   *)
(* off.                                                                    *)
LEMMA RunCallsIs ==
  ASSUME NEW t \in CallTurn, RanFits(t), t.at = "reply"
  PROVE  /\ RunCalls(t) \subseteq CallsOf(t.parts) /\ RunCalls(t) \in SUBSET Nat
         /\ \A i \in RunCalls(t) : t.parts[i] # "whole" => t.finish = "unsaid"
         /\ t.finish = "recovered" => RunCalls(t) = {Len(t.parts)}
<1> DEFINE all == CallsOf(t.parts)
           n == Len(t.parts)
<1>1. n \in Nat /\ DOMAIN t.parts = 1..n /\ t.parts \in Seq(Parts) BY LenProperties DEF CallTurn
<1>2. all \in SUBSET (1..n) /\ \A i \in all : t.parts[i] \in CallParts BY <1>1 DEF CallsOf
<1>3. all # {} => Max(all) \in all /\ \A i \in all : i <= Max(all)
  <2>1. all \in SUBSET (0..n) BY <1>1, <1>2
  <2> QED BY <1>1, <2>1, MaxIs
<1>4. RunCalls(t) = IF t.finish = "length" /\ all # {} THEN all \ {Max(all)} ELSE all BY DEF RunCalls
<1>5. \A i \in all : t.parts[i] = "whole" \/ i = n BY <1>1, <1>2 DEF CallParts, RanFits, OpenAtEnd
<1>6. t.finish \in {"done", "length", "unsaid", "recovered"} BY DEF RanFits
<1>7. t.finish = "recovered" => all = {n} /\ t.parts[n] = "whole" BY DEF RanFits, Repaired
<1>8. t.finish = "done" => \A i \in all : t.parts[i] = "whole" BY <1>1, <1>2 DEF RanFits, Has, CallParts
<1> HIDE DEF all, n
<1>9. RunCalls(t) \subseteq all BY <1>4
<1>10. ASSUME t.finish = "length", NEW i \in RunCalls(t) PROVE t.parts[i] = "whole"
  <2>1. i \in all /\ all # {} /\ i # Max(all) BY <1>4, <1>9, <1>10
  <2>2. i # n
    <3>1. i <= Max(all) /\ Max(all) \in 1..n /\ i \in 1..n BY <1>2, <1>3, <2>1
    <3> QED BY <1>1, <2>1, <3>1
  <2> QED BY <1>5, <2>1, <2>2
<1>11. \A i \in RunCalls(t) : t.parts[i] # "whole" => t.finish = "unsaid" BY <1>6, <1>7, <1>8, <1>9, <1>10
<1>12. t.finish = "recovered" => RunCalls(t) = {n} BY <1>4, <1>7
<1>13. RunCalls(t) \in SUBSET Nat
  <2>1. \A i \in 1..n : i \in Nat BY <1>1
  <2> QED BY <2>1, <1>2, <1>9
<1> QED BY <1>9, <1>11, <1>12, <1>13 DEF all, n

LEMMA LoggedKeeps == ASSUME CallInv, NEW c \in Callers, ReplyLogged(c) PROVE CallInv'
<1> DEFINE run == RunCalls(turns[c])
           r == [turns[c] EXCEPT !.at = "over", !.ran = run, !.logged = @ \cup {"message"}]
<1>1. Set(c, r) /\ turns[c].at = "reply" /\ slots' = slots BY DEF ReplyLogged
<1>2. /\ run \subseteq CallsOf(turns[c].parts) /\ run \in SUBSET Nat
      /\ \A i \in run : turns[c].parts[i] # "whole" => turns[c].finish = "unsaid"
      /\ turns[c].finish = "recovered" => run = {Len(turns[c].parts)}
  BY <1>1, TurnIs, RunCallsIs
<1>3. "message" \in Words BY DEF Words
<1> HIDE DEF run
<1>4. r \in CallTurn BY <1>2, <1>3, TurnIs DEF CallTurn
<1>5. /\ r.at = "over" /\ r.ask = turns[c].ask /\ r.attempt = turns[c].attempt /\ r.parts = turns[c].parts
      /\ r.finish = turns[c].finish /\ r.shown = turns[c].shown /\ r.ran = run /\ "message" \in r.logged
  BY TurnIs DEF CallTurn
<1> HIDE DEF r
<1>6. ShownFits(r) BY <1>5, TurnIs DEF ShownFits
<1>7. OpenAtEnd(turns[c].parts) /\ (turns[c].finish = "recovered" => Repaired(turns[c].parts)) BY <1>1, TurnIs DEF RanFits
<1>8. RanFits(r) BY <1>2, <1>5, <1>7 DEF RanFits
<1>9. ~AtProvider(r) /\ c \notin slots BY <1>1, <1>5, TurnIs DEF AtProvider
<1>10. slots' = IF AtProvider(r) THEN slots \cup {c} ELSE slots \ {c} BY <1>1, <1>9
<1> QED BY <1>1, <1>4, <1>5, <1>6, <1>8, <1>9, <1>10, SetKeeps DEF TurnFits

LEMMA InterruptedKeeps == ASSUME CallInv, NEW c \in Callers, CallInterrupted(c) PROVE CallInv'
<1> DEFINE r == [turns[c] EXCEPT !.at = "over", !.logged = @ \cup {"interrupted"}]
<1>1. Set(c, r) /\ turns[c].at \in {"waiting", "sent", "streaming", "backoff"} /\ slots' = slots \ {c}
  BY DEF CallInterrupted, InCall
<1>2. "interrupted" \in Words BY DEF Words
<1>4. r \in CallTurn BY <1>2, TurnIs DEF CallTurn
<1>5. /\ r.at = "over" /\ r.ask = turns[c].ask /\ r.attempt = turns[c].attempt /\ r.parts = turns[c].parts
      /\ r.finish = turns[c].finish /\ r.shown = turns[c].shown /\ r.ran = turns[c].ran /\ "interrupted" \in r.logged
  BY TurnIs DEF CallTurn
<1> HIDE DEF r
<1>6. ShownFits(r) BY <1>5, TurnIs DEF ShownFits
<1>7. turns[c].ran = {} /\ turns[c].finish # "recovered" /\ OpenAtEnd(turns[c].parts) BY <1>1, TurnIs DEF RanFits
<1>8. RanFits(r) BY <1>5, <1>7 DEF RanFits
<1>9. ~AtProvider(r) BY <1>5 DEF AtProvider
<1>10. slots' = IF AtProvider(r) THEN slots \cup {c} ELSE slots \ {c} BY <1>1, <1>9
<1> QED BY <1>1, <1>4, <1>5, <1>6, <1>8, <1>9, <1>10, SetKeeps DEF TurnFits

LEMMA NextTurnKeeps == ASSUME CallInv, NEW c \in Callers, NextTurn(c) PROVE CallInv'
<1>1. turns[c].at = "over" /\ Set(c, Idle) /\ slots' = slots BY DEF NextTurn
<1>2. ~AtProvider(Idle) /\ c \notin slots BY <1>1, IdleFits, TurnIs DEF AtProvider
<1>3. slots' = IF AtProvider(Idle) THEN slots \cup {c} ELSE slots \ {c} BY <1>1, <1>2
<1> QED BY <1>1, <1>2, <1>3, IdleFits, SetKeeps

LEMMA CallStep == CallInv /\ [ModelCallNext]_modelCallVars => CallInv'
<1> SUFFICES ASSUME CallInv, [ModelCallNext]_modelCallVars PROVE CallInv' OBVIOUS
<1>1. CASE UNCHANGED modelCallVars BY <1>1 DEF modelCallVars, CallInv
<1>2. CASE ModelCallNext
  <2>1. PICK c \in Callers :
          \/ TurnStarts(c) \/ Acquires(c) \/ Streams(c) \/ Completes(c) \/ TriesAgain(c) \/ AskedAgain(c)
          \/ CallFailed(c) \/ StopRepeating(c) \/ ReplyLogged(c) \/ CallInterrupted(c) \/ NextTurn(c)
          \/ \E how \in Failures : AttemptFails(c, how)
    BY <1>2 DEF ModelCallNext
  <2> QED BY <2>1, StartsKeeps, AcquiresKeeps, StreamsKeeps, CompletesKeeps, AgainKeeps, AskedAgainKeeps,
             FailedKeeps, RepeatingKeeps, LoggedKeeps, InterruptedKeeps, NextTurnKeeps, FailsKeeps
<1> QED BY <1>1, <1>2

LEMMA CallInvAlways == ModelCallSpec => []CallInv
BY CallInitFits, CallStep, PTL DEF ModelCallSpec

LEMMA CallInvGives == CallInv => ModelCallTypeOK /\ ReplyIsSound
<1> SUFFICES ASSUME CallInv PROVE ModelCallTypeOK /\ ReplyIsSound OBVIOUS
<1>1. ModelCallTypeOK
  <2>1. \A c \in Callers : turns[c] \in CallTurn BY TurnIs
  <2>2. slots \subseteq Callers BY DEF CallInv
  <2> QED BY <2>1, <2>2 DEF ModelCallTypeOK, CallTurn, Parts
<1>2. slots = {c \in Callers : InCall(c)} /\ Cardinality(slots) <= MaxInFlight BY DEF CallInv, AtProvider, InCall
<1>3. ASSUME NEW c \in Callers
      PROVE  LET t == turns[c] IN
             /\ Cardinality(t.shown) <= 1
             /\ t.at = "over" /\ "interrupted" \notin t.logged /\ t.shown # {} =>
                  t.logged \cap {"message", "partial"} # {}
             /\ t.ran \subseteq CallsOf(t.parts) /\ \A i \in t.ran : t.parts[i] # "whole" => t.finish = "unsaid"
             /\ t.at = "over" /\ t.finish = "recovered" => t.ran = {Len(t.parts)} /\ ~Has(t.parts, {"leak"})
  <2>1. ShownFits(turns[c]) /\ RanFits(turns[c]) BY TurnIs
  <2>2. Cardinality(turns[c].shown) <= 1
    <3> DEFINE one == {<<turns[c].ask, turns[c].attempt>>}
    <3>1. IsFiniteSet(one) /\ Cardinality(one) = 1 BY FS_Singleton
    <3>2. turns[c].shown \in SUBSET one BY <2>1 DEF ShownFits
    <3> QED BY <3>1, <3>2, FS_Subset
  <2> QED BY <2>1, <2>2 DEF ShownFits, RanFits, Repaired
<1> QED BY <1>1, <1>2, <1>3 DEF ReplyIsSound

(* The turns at a provider (openai.go, runner.go turn) and its slots are   *)
(* always of their types.                                                  *)
THEOREM ModelCallTypeCorrect == ModelCallSpec => []ModelCallTypeOK
<1>1. CallInv => ModelCallTypeOK BY CallInvGives
<1> QED BY <1>1, CallInvAlways, PTL

(* For any callers, slots, retries and lengths of streams: a slot is held  *)
(* by those at the provider and nobody else, a reader sees one attempt of  *)
(* a turn, what was shown of a turn nobody interrupted is logged or told   *)
(* of, and a call that runs is whole unless the server said nothing of its *)
(* stopping (openai.go Complete and readStream, recover.go, runner.go      *)
(* turn).                                                                  *)
THEOREM RepliesAreAlwaysSound == ModelCallSpec => []ReplyIsSound
<1>1. CallInv => ReplyIsSound BY CallInvGives
<1> QED BY <1>1, CallInvAlways, PTL

-----------------------------------------------------------------------------
(* The numbers of a set in order. *)
Rank(S, e) == Cardinality({f \in S : f <= e})

LEMMA LeastIs ==
  ASSUME NEW S \in SUBSET Nat, S # {}
  PROVE  \E m \in S : \A j \in S : m <= j
<1>1. \E x \in S : \A y \in S : ~(<<y, x>> \in OpToRel(<, Nat))
  BY WFMin, NatLessThanWellFounded, Zenon
<1>2. PICK x \in S : \A y \in S : ~(<<y, x>> \in OpToRel(<, Nat)) BY <1>1
<1>3. ASSUME NEW y \in S, y < x PROVE FALSE
  <2>1. <<y, x>> \in OpToRel(<, Nat) BY <1>3, Zenon DEF OpToRel
  <2> QED BY <1>2, <2>1, Zenon
<1> HIDE <1>2
<1> QED BY <1>3

LEMMA RankIs ==
  ASSUME NEW S \in SUBSET Nat, IsFiniteSet(S), NEW e \in S
  PROVE  /\ Rank(S, e) \in 1 .. Cardinality(S)
         /\ \A d \in S : d < e => Rank(S, d) < Rank(S, e)
<1> DEFINE B(d) == {f \in S : f <= d}
<1>1. ASSUME NEW d \in S PROVE IsFiniteSet(B(d)) /\ Cardinality(B(d)) \in Nat /\ Cardinality(B(d)) <= Cardinality(S)
  <2>1. B(d) \in SUBSET S OBVIOUS
  <2> QED BY <2>1, FS_Subset, FS_CardinalityType
<1>2. Cardinality(S) \in Nat BY FS_CardinalityType
<1>3. Cardinality(B(e)) # 0
  <2>1. e \in B(e) OBVIOUS
  <2> QED BY <2>1, <1>1, FS_EmptySet
<1>4. ASSUME NEW d \in S, d < e PROVE Cardinality(B(d)) < Cardinality(B(e))
  <2>0. e \in B(e) /\ e \notin B(d) BY <1>4
  <2>1. B(d) \in SUBSET B(e) /\ B(d) # B(e)
    <3>1. ASSUME NEW f \in B(d) PROVE f \in B(e) BY <1>4
    <3> QED BY <2>0, <3>1
  <2>2. Cardinality(B(d)) <= Cardinality(B(e)) /\ Cardinality(B(d)) # Cardinality(B(e))
    <3> HIDE DEF B
    <3> QED BY <1>1, <2>1, FS_Subset, Zenon
  <2> QED BY <1>1, <2>2
<1> QED BY <1>1, <1>2, <1>3, <1>4 DEF Rank

(* Each number of a set stands, in order, at the place of its rank.        *)
LEMMA InOrderRank ==
  ASSUME NEW S \in SUBSET Nat, IsFiniteSet(S)
  PROVE  /\ Cardinality(S) \in Nat
         /\ InOrder(S) \in [1 .. Cardinality(S) -> S]
         /\ \A e \in S : Rank(S, e) \in 1 .. Cardinality(S) /\ InOrder(S)[Rank(S, e)] = e
         /\ \A k \in 1 .. Cardinality(S) : Rank(S, InOrder(S)[k]) = k
<1> DEFINE r == [e \in S |-> Rank(S, e)]
           N == Cardinality(S)
<1>1. N \in Nat BY FS_CardinalityType
<1>2. IsFiniteSet(1..N) /\ Cardinality(1..N) = N BY <1>1, FS_Interval
<1>3. r \in [S -> 1..N] BY RankIs
<1>4. ASSUME NEW d \in S, NEW e \in S, Rank(S, d) = Rank(S, e) PROVE d = e
  <2>1. ~(d < e) /\ ~(e < d) BY <1>4, RankIs
  <2> QED BY <2>1
<1>5. r \in Injection(S, 1..N)
  <2>1. IsInjective(r) BY <1>4 DEF IsInjective
  <2> QED BY <1>3, <2>1 DEF Injection
<1>6. r \in Surjection(S, 1..N) BY <1>2, <1>5, FS_Injection
<1>7. ASSUME NEW k \in 1..N PROVE InOrder(S)[k] \in S /\ Rank(S, InOrder(S)[k]) = k
  <2>1. PICK e \in S : Rank(S, e) = k BY <1>6 DEF Surjection
  <2>2. InOrder(S)[k] = CHOOSE d \in S : Rank(S, d) = k BY DEF InOrder, Rank
  <2> QED BY <2>1, <2>2
<1>8. InOrder(S) \in [1..N -> S]
  <2>1. InOrder(S) = [k \in 1..N |-> InOrder(S)[k]] BY DEF InOrder
  <2> QED BY <2>1, <1>7
<1>9. ASSUME NEW e \in S PROVE Rank(S, e) \in 1..N /\ InOrder(S)[Rank(S, e)] = e
  <2>1. Rank(S, e) \in 1..N BY RankIs
  <2> QED BY <2>1, <1>7, <1>4
<1> QED BY <1>1, <1>7, <1>8, <1>9

(* What is greater than all of a set comes, in order, after it.            *)
LEMMA InOrderThen ==
  ASSUME NEW S \in SUBSET Nat, IsFiniteSet(S), NEW T \in SUBSET Nat, IsFiniteSet(T),
         \A s \in S, t \in T : s < t
  PROVE  InOrder(S \cup T) = InOrder(S) \o InOrder(T)
<1> DEFINE U == S \cup T
           N == Cardinality(S)
           M == Cardinality(T)
<1>1. U \in SUBSET Nat /\ IsFiniteSet(U) BY FS_Union
<1>2. N \in Nat /\ M \in Nat /\ Cardinality(U) = N + M
  <2>1. S \cap T = {}
    <3>1. ASSUME NEW x \in S, x \in T PROVE FALSE
      <4>1. x < x /\ x \in Nat BY <3>1
      <4> QED BY <4>1
    <3> QED BY <3>1
  <2>2. Cardinality(S \cap T) = 0 BY <2>1, FS_EmptySet
  <2>3. Cardinality(U) = N + M - Cardinality(S \cap T) BY FS_Union
  <2>4. N \in Nat /\ M \in Nat BY FS_CardinalityType
  <2> HIDE DEF N, M, U
  <2> QED BY <2>2, <2>3, <2>4
<1>3. ASSUME NEW e \in S PROVE Rank(U, e) = Rank(S, e)
  <2>1. ASSUME NEW f \in T PROVE ~(f <= e)
    <3>1. e < f /\ e \in Nat /\ f \in Nat BY <2>1
    <3> QED BY <3>1
  <2>2. {f \in U : f <= e} = {f \in S : f <= e} BY <2>1
  <2> QED BY <2>2 DEF Rank
<1>4. ASSUME NEW e \in T PROVE Rank(U, e) = N + Rank(T, e)
  <2> DEFINE B == {f \in T : f <= e}
  <2>0. ASSUME NEW f \in S PROVE f <= e /\ f \notin T
    <3>1. f < e /\ e \in Nat /\ f \in Nat BY <2>0
    <3>2. ASSUME f \in T PROVE FALSE
      <4>1. f < f BY <2>0, <3>2
      <4> QED BY <3>1, <4>1
    <3> QED BY <3>1, <3>2
  <2>1. {f \in U : f <= e} = S \cup B BY <2>0
  <2>2. IsFiniteSet(B) /\ S \cap B = {}
    <3>1. B \in SUBSET T OBVIOUS
    <3> QED BY <3>1, <2>0, FS_Subset
  <2>3. Cardinality(S \cap B) = 0 BY <2>2, FS_EmptySet
  <2>4. Cardinality(S \cup B) = N + Cardinality(B)
    <3> HIDE DEF B
    <3>1. Cardinality(B) \in Nat BY <2>2, FS_CardinalityType
    <3>2. Cardinality(S \cup B) = N + Cardinality(B) - Cardinality(S \cap B) BY <2>2, FS_Union
    <3> HIDE DEF N
    <3> QED BY <2>3, <3>1, <3>2, <1>2
  <2> QED BY <2>1, <2>4 DEF Rank
<1>5. /\ InOrder(S) \in [1..N -> S] /\ InOrder(T) \in [1..M -> T] /\ InOrder(U) \in [1..(N + M) -> U]
  BY <1>1, <1>2, InOrderRank
<1>6. Len(InOrder(S)) = N /\ Len(InOrder(T)) = M /\ InOrder(S) \in Seq(Nat) /\ InOrder(T) \in Seq(Nat)
  <2>1. InOrder(S) \in [1..N -> Nat] /\ InOrder(T) \in [1..M -> Nat] BY <1>5
  <2> QED BY <2>1, <1>2
<1>7. ASSUME NEW k \in 1..(N + M) PROVE InOrder(U)[k] = IF k <= N THEN InOrder(S)[k] ELSE InOrder(T)[k - N]
  <2>1. CASE k <= N
    <3>1. k \in 1..N BY <2>1, <1>2
    <3>2. InOrder(S)[k] \in S /\ Rank(S, InOrder(S)[k]) = k BY <3>1, <1>5, InOrderRank
    <3>3. Rank(U, InOrder(S)[k]) = k /\ InOrder(S)[k] \in U BY <3>2, <1>3
    <3>4. InOrder(U)[Rank(U, InOrder(S)[k])] = InOrder(S)[k] BY <3>3, <1>1, InOrderRank
    <3> QED BY <3>3, <3>4, <2>1
  <2>2. CASE ~(k <= N)
    <3>1. k - N \in 1..M BY <2>2, <1>2
    <3>2. InOrder(T)[k - N] \in T /\ Rank(T, InOrder(T)[k - N]) = k - N BY <3>1, <1>5, InOrderRank
    <3> DEFINE e == InOrder(T)[k - N]
    <3>0. e \in T /\ Rank(T, e) = k - N BY <3>2
    <3>5. Rank(U, e) = N + (k - N) BY <3>0, <1>4
    <3>6. N + (k - N) = k BY <1>2
    <3>3. Rank(U, InOrder(T)[k - N]) = k /\ InOrder(T)[k - N] \in U BY <3>0, <3>5, <3>6
    <3>4. InOrder(U)[Rank(U, InOrder(T)[k - N])] = InOrder(T)[k - N] BY <3>3, <1>1, InOrderRank
    <3> QED BY <3>3, <3>4, <2>2
  <2> QED BY <2>1, <2>2
<1> DEFINE V == InOrder(S) \o InOrder(T)
<1>8. V \in [1..(N + M) -> Nat] /\ \A k \in 1..(N + M) : V[k] = IF k <= N THEN InOrder(S)[k] ELSE InOrder(T)[k - N]
  <2> DEFINE a == InOrder(S)
             b == InOrder(T)
  <2>0. a \in Seq(Nat) /\ b \in Seq(Nat) /\ Len(a) = N /\ Len(b) = M BY <1>6
  <2> HIDE DEF a, b, N, M
  <2>1. a \o b \in Seq(Nat) /\ Len(a \o b) = N + M BY <2>0, ConcatProperties
  <2>2. a \o b \in [1..(N + M) -> Nat]
    <3> DEFINE c == a \o b
    <3>1. c \in Seq(Nat) /\ Len(c) = N + M BY <2>1
    <3> HIDE DEF c
    <3>2. c \in [1..Len(c) -> Nat] BY <3>1
    <3> QED BY <3>1, <3>2 DEF c
  <2>3. \A k \in 1..(N + M) : (a \o b)[k] = IF k <= N THEN a[k] ELSE b[k - N]
    BY <2>0, ConcatProperties
  <2> USE DEF a, b
  <2> QED BY <2>2, <2>3
<1>9. InOrder(U) \in [1..(N + M) -> Nat] BY <1>5, <1>1
<1>10. InOrder(U) = V
  <2> DEFINE c == InOrder(U)
             K == 1..(N + M)
  <2>1. c \in [K -> Nat] /\ V \in [K -> Nat] BY <1>8, <1>9
  <2>2. \A k \in K : c[k] = V[k] BY <1>7, <1>8
  <2> HIDE DEF c, V, K
  <2>3. c = V BY <2>1, <2>2
  <2> QED BY <2>3 DEF c
<1> QED BY <1>10

-----------------------------------------------------------------------------
(* What the model is sent. *)

Kinds == {"prefix", "prompt", "notes", "reminder", "reply", "touch", "load", "write", "more", "veto", "clear", "summary"}
Entries == [k : Kinds, notes : Nat, mods : SUBSET {"skills", "clock", "memory", "prompt"}, lo : Nat, hi : Nat]

(* A log goes on as another.                                               *)
GoesOnAs(l, m) == Len(l) <= Len(m) /\ \A i \in 1 .. Len(l) : m[i] = l[i]
NewIn(l, m) == {m[i].k : i \in (Len(l) + 1) .. Len(m)}
Summed(l) == LastOf(Where(l, {"summary"}))

ViewTypes ==
  /\ events \in Seq(Entries) /\ Len(events) <= MaxView
  /\ at \in {"top", "hooked", "model", "calls", "summarising", "summarised"}
  /\ begun \in BOOLEAN /\ note \in Notes /\ pending \in 0 .. 1
  /\ hooked \in [notes : Notes, shows : BOOLEAN, reminders : 0 .. 1]
  /\ range \in Nat \X Nat
  /\ others \in [writing : BOOLEAN, wrote : 0 .. MaxNotes]
  /\ mishaps \in [n : 0 .. MaxMishaps, block : BOOLEAN, reminder : BOOLEAN]

(* The request is what the log gives up to its end, and since then nothing *)
(* was taken out of the log or put before it.                              *)
SaidIn(l, s, n) == {i \in 1 .. n : i > s /\ l[i].k \in Spoken \cup {"notes", "reminder"}}
BodyOf(l, s, n) ==
  [p \in 1 .. Cardinality(SaidIn(l, s, n)) |->
     [i |-> InOrder(SaidIn(l, s, n))[p], stub |-> IsCleared(l, InOrder(SaidIn(l, s, n))[p])]]
VetoesIn(l, n) == {i \in 1 .. n : l[i].k = "veto" /\ \A j \in 1 .. n : l[j].k \in Replies => j < i}
SentFits(l, st, b) ==
  st # NothingSent =>
    /\ st.upto \in 1 .. Len(l)
    /\ \A i \in (st.upto + 1) .. Len(l) : l[i].k \notin {"summary", "clear"} /\ (st.begun => l[i].k # "prefix")
    /\ st.summary = Summed(l)
    /\ st.prefix = {i \in 1 .. st.upto : l[i].k = "prefix" /\ i > Summed(l)}
    /\ st.body = BodyOf(l, Summed(l), st.upto)
    /\ st.vetoes = VetoesIn(l, st.upto)
    /\ st.begun => b

(* Between the hooks and the request nothing changes what notes are seen.  *)
Differs(l, n) == IF InView(l) = 0 THEN n # 0 ELSE l[InView(l)].notes # n
HookFits(l, a, h, pd) ==
  /\ a \in {"hooked", "model"} => pd = 0 /\ Where(l, {"prompt"}) # {}
  /\ a = "hooked" => (h.shows <=> Differs(l, h.notes))

(* After the last summary there is a block with the last prompt before it. *)
PromptsBefore(l, s) == {i \in Where(l, {"prompt"}) : i < s}
HasPrompt(l, s, i) ==
  i > s /\ l[i].k = "prefix" /\ "prompt" \in l[i].mods /\ l[i].hi = LastOf(PromptsBefore(l, s))
PutBack(l) == \E i \in 1 .. Len(l) : HasPrompt(l, Summed(l), i)
BlockFits(l, a, cut) ==
  /\ Summed(l) # 0 /\ a # "summarised" /\ ~cut => PutBack(l)
  /\ a = "summarised" => Summed(l) # 0 /\ \A i \in Where(l, {"prompt"}) : i < Summed(l)

(* All that was said before the last summary is in a summary's range.      *)
InSummary(l, i) == \E s \in Where(l, {"summary"}) : l[s].lo <= i /\ i <= l[s].hi
CoverFits(l, a, rg) ==
  /\ CompactedThrough(l) <= Len(l)
  /\ \A i \in Where(l, Spoken) : /\ i <= Summed(l) => i <= CompactedThrough(l)
                                 /\ i <= CompactedThrough(l) => InSummary(l, i)
  /\ a = "summarising" => /\ rg[1] = CompactedThrough(l) + 1 /\ rg[2] <= Len(l)
                          /\ \A i \in Where(l, Spoken) : i <= rg[2]

(* The reminder is in the log, or with the hooks, or queued, or nowhere.   *)
RemindFits(l, a, h, pd, lost) ==
  /\ \A i, j \in Where(l, {"reminder"}) : i = j
  /\ pd = 1 \/ (a = "hooked" /\ h.reminders = 1) => Where(l, {"reminder"}) = {}
  /\ Where(l, Touches) # {} => Settled(l) \/ pd = 1 \/ (a = "hooked" /\ h.reminders = 1) \/ lost

(* What the request shows, once it is made.                                *)
Shown(l, st) == {p \in DOMAIN st.body : l[st.body[p].i].k = "notes"}
LastPrompt(l, st) == LastOf({i \in Where(l, {"prompt"}) : i <= st.upto})
Includes(l, st, i) == \E x \in DOMAIN st.body : st.body[x].i = i
WholeFits(l, a, h, st, cut) ==
  a = "model" =>
    /\ st # NothingSent
    /\ h.notes = IF Shown(l, st) = {} THEN 0 ELSE l[st.body[Max(Shown(l, st))].i].notes
    /\ \/ Includes(l, st, LastPrompt(l, st))
       \/ \E i \in st.prefix : "prompt" \in l[i].mods /\ l[i].hi = LastPrompt(l, st)
       \/ cut
    /\ \A i \in Where(l, Spoken) : i <= st.upto => Includes(l, st, i) \/ InSummary(l, i)

ViewFits ==
  /\ SentFits(events, sent, begun) /\ HookFits(events, at, hooked, pending)
  /\ BlockFits(events, at, mishaps.block) /\ CoverFits(events, at, range)
  /\ RemindFits(events, at, hooked, pending, mishaps.reminder)
  /\ WholeFits(events, at, hooked, sent, mishaps.block)
  /\ at = "summarised" => sent = NothingSent

ViewInv == ViewTypes /\ ViewFits

(* The last of some places of a log.                                       *)
LEMMA LastIs ==
  ASSUME NEW n \in Nat, NEW S \in SUBSET (1 .. n)
  PROVE  /\ LastOf(S) \in S \cup {0} /\ LastOf(S) \in 0 .. n
         /\ \A i \in S : i <= LastOf(S) /\ LastOf(S) # 0
<1>1. S \cup {0} \in SUBSET (0 .. n) /\ S \cup {0} # {} OBVIOUS
<1>2. Max(S \cup {0}) \in S \cup {0} /\ \A y \in S \cup {0} : y <= Max(S \cup {0}) BY <1>1, MaxIs
<1>3. LastOf(S) = Max(S \cup {0}) BY DEF LastOf
<1> HIDE DEF LastOf
<1>4. \A i \in S : i <= LastOf(S) /\ i \in 1 .. n BY <1>2, <1>3
<1>5. LastOf(S) \in S \cup {0} BY <1>2, <1>3
<1>6. LastOf(S) \in 0 .. n BY <1>1, <1>5
<1>7. \A i \in S : LastOf(S) # 0 BY <1>4, <1>6
<1>q. QED BY <1>4, <1>5, <1>6, <1>7

LEMMA LastIsOne ==
  ASSUME NEW n \in Nat, NEW S \in SUBSET (1 .. n), NEW x \in S, \A i \in S : i <= x
  PROVE  LastOf(S) = x
<1>1. LastOf(S) \in S \cup {0} /\ LastOf(S) \in 0 .. n /\ \A i \in S : i <= LastOf(S) /\ LastOf(S) # 0 BY LastIs
<1>2. LastOf(S) \in S /\ x <= LastOf(S) /\ LastOf(S) <= x BY <1>1
<1>q. QED BY <1>1, <1>2

LEMMA WhereIs ==
  ASSUME NEW l \in Seq(Entries), NEW ks
  PROVE  /\ Len(l) \in Nat /\ DOMAIN l = 1 .. Len(l) /\ Where(l, ks) \in SUBSET (1 .. Len(l))
         /\ \A i : i \in Where(l, ks) <=> i \in 1 .. Len(l) /\ l[i].k \in ks
         /\ LastOf(Where(l, ks)) \in 0 .. Len(l)
BY LastIs DEF Where

LEMMA SummedIs ==
  ASSUME NEW l \in Seq(Entries)
  PROVE  /\ Summed(l) \in 0 .. Len(l)
         /\ Summed(l) # 0 => l[Summed(l)].k = "summary"
         /\ \A i \in 1 .. Len(l) : l[i].k = "summary" => i <= Summed(l)
<1>1. /\ Len(l) \in Nat /\ Where(l, {"summary"}) \in SUBSET (1 .. Len(l))
      /\ \A i : i \in Where(l, {"summary"}) <=> i \in 1 .. Len(l) /\ l[i].k \in {"summary"}
  BY WhereIs
<1>2. /\ Summed(l) \in Where(l, {"summary"}) \cup {0} /\ Summed(l) \in 0 .. Len(l)
      /\ \A i \in Where(l, {"summary"}) : i <= Summed(l)
  BY <1>1, LastIs DEF Summed
<1>q. QED BY <1>1, <1>2

(* A log that goes on, without entries of some kinds.                      *)
LEMMA WhereGrows ==
  ASSUME NEW l \in Seq(Entries), NEW m \in Seq(Entries), GoesOnAs(l, m), NEW ks
  PROVE  /\ Where(l, ks) \subseteq Where(m, ks)
         /\ \A i \in Where(m, ks) : i <= Len(l) => i \in Where(l, ks)
         /\ NewIn(l, m) \cap ks = {} => Where(m, ks) = Where(l, ks)
<1>1. /\ Len(l) \in Nat /\ Len(m) \in Nat /\ Len(l) <= Len(m) /\ \A i \in 1 .. Len(l) : m[i] = l[i]
      /\ \A i : i \in Where(l, ks) <=> i \in 1 .. Len(l) /\ l[i].k \in ks
      /\ \A i : i \in Where(m, ks) <=> i \in 1 .. Len(m) /\ m[i].k \in ks
  BY WhereIs DEF GoesOnAs
<1>2. \A i : i \in Where(l, ks) => i \in Where(m, ks) BY <1>1
<1>3. \A i \in Where(m, ks) : i <= Len(l) => i \in Where(l, ks) BY <1>1
<1>4. ASSUME NewIn(l, m) \cap ks = {}, NEW i \in Where(m, ks) PROVE i \in Where(l, ks)
  <2>1. i \in 1 .. Len(m) /\ m[i].k \in ks BY <1>1
  <2>2. i > Len(l) => m[i].k \in NewIn(l, m) BY <2>1, <1>1 DEF NewIn
  <2>3. i <= Len(l) BY <2>1, <2>2, <1>1, <1>4
  <2>q. QED BY <2>3, <1>3
<1>5. Where(l, ks) \subseteq Where(m, ks) BY <1>2
<1>6. ASSUME NewIn(l, m) \cap ks = {} PROVE Where(m, ks) = Where(l, ks)
  <2>1. Where(m, ks) \subseteq Where(l, ks) BY <1>4, <1>6
  <2>q. QED BY <2>1, <1>5
<1>q. QED BY <1>5, <1>3, <1>6

LEMMA SummedGrows ==
  ASSUME NEW l \in Seq(Entries), NEW m \in Seq(Entries), GoesOnAs(l, m), "summary" \notin NewIn(l, m)
  PROVE  Summed(m) = Summed(l) /\ CompactedThrough(m) = CompactedThrough(l)
<1>1. NewIn(l, m) \cap {"summary"} = {} OBVIOUS
<1>2. Where(m, {"summary"}) = Where(l, {"summary"}) BY <1>1, WhereGrows
<1>3. Summed(m) = Summed(l) BY <1>2 DEF Summed
<1>4. Summed(l) \in 0 .. Len(l) BY SummedIs
<1>5. Summed(l) # 0 => m[Summed(l)] = l[Summed(l)] BY <1>4 DEF GoesOnAs
<1>6. CompactedThrough(l) = (IF Summed(l) = 0 THEN 0 ELSE l[Summed(l)].hi) BY DEF CompactedThrough, Summed
<1>7. CompactedThrough(m) = (IF Summed(m) = 0 THEN 0 ELSE m[Summed(m)].hi) BY DEF CompactedThrough, Summed
<1>q. QED BY <1>3, <1>5, <1>6, <1>7

(* What is appended. *)
LEMMA EntryIs ==
  ASSUME NEW k \in Kinds
  PROVE  /\ Entry(k) \in Entries /\ Entry(k).k = k
         /\ \A v \in Nat : [Entry(k) EXCEPT !.notes = v] \in Entries /\ [Entry(k) EXCEPT !.notes = v].k = k
                           /\ [Entry(k) EXCEPT !.notes = v].notes = v
BY DEF Entry, Entries

LEMMA OneEntry ==
  ASSUME NEW l \in Seq(Entries), NEW e \in Entries, NEW m, m = l \o <<e>>
  PROVE  /\ m \in Seq(Entries) /\ Len(m) = Len(l) + 1 /\ m[Len(l) + 1] = e
         /\ GoesOnAs(l, m) /\ NewIn(l, m) = {e.k}
<1>1. m \in Seq(Entries) /\ Len(m) = Len(l) + 1 /\ Len(l) \in Nat /\ m[Len(l) + 1] = e OBVIOUS
<1>2. \A i \in 1 .. Len(l) : m[i] = l[i] OBVIOUS
<1>3. GoesOnAs(l, m) BY <1>1, <1>2 DEF GoesOnAs
<1>4. (Len(l) + 1) .. Len(m) = {Len(l) + 1} BY <1>1
<1>5. NewIn(l, m) = {e.k} BY <1>1, <1>4 DEF NewIn
<1>q. QED BY <1>1, <1>3, <1>5

(* The same, of what the two logs give.                                    *)
LEMMA GoesOnIs ==
  ASSUME NEW l \in Seq(Entries), NEW m \in Seq(Entries), GoesOnAs(l, m)
  PROVE  /\ Len(l) \in Nat /\ Len(m) \in Nat /\ Len(l) <= Len(m)
         /\ \A i \in 1 .. Len(l) : m[i] = l[i] /\ l[i] \in Entries
         /\ \A i \in 1 .. Len(m) : i > Len(l) => m[i].k \in NewIn(l, m)
BY DEF GoesOnAs, NewIn

LEMMA ClearedGrows ==
  ASSUME NEW l \in Seq(Entries), NEW m \in Seq(Entries), GoesOnAs(l, m), "clear" \notin NewIn(l, m),
         NEW i \in 1 .. Len(l)
  PROVE  IsCleared(m, i) <=> IsCleared(l, i)
<1>1. NewIn(l, m) \cap {"clear"} = {} OBVIOUS
<1>2. Where(m, {"clear"}) = Where(l, {"clear"}) BY <1>1, WhereGrows
<1>3. \A c \in Where(l, {"clear"}) : m[c] = l[c] BY WhereIs, GoesOnIs
<1>4. m[i] = l[i] BY GoesOnIs
<1>q. QED BY <1>2, <1>3, <1>4 DEF IsCleared

LEMMA SaidGrows ==
  ASSUME NEW l \in Seq(Entries), NEW m \in Seq(Entries), GoesOnAs(l, m), NEW s, NEW n \in 0 .. Len(l)
  PROVE  SaidIn(m, s, n) = SaidIn(l, s, n)
<1>1. \A i \in 1 .. n : m[i] = l[i]
  <2>1. \A i \in 1 .. n : i \in 1 .. Len(l) BY GoesOnIs
  <2>q. QED BY <2>1, GoesOnIs
<1>q. QED BY <1>1 DEF SaidIn

LEMMA SaidIs ==
  ASSUME NEW l, NEW s, NEW n \in Nat
  PROVE  /\ SaidIn(l, s, n) \in SUBSET (1 .. n) /\ SaidIn(l, s, n) \in SUBSET Nat
         /\ IsFiniteSet(SaidIn(l, s, n)) /\ Cardinality(SaidIn(l, s, n)) \in Nat
<1>1. SaidIn(l, s, n) \in SUBSET (1 .. n) BY DEF SaidIn
<1>2. IsFiniteSet(1 .. n) BY FS_Interval
<1>3. IsFiniteSet(SaidIn(l, s, n)) BY <1>1, <1>2, FS_Subset
<1>q. QED BY <1>1, <1>3, FS_CardinalityType

(* A conversation has all of its places once and in order.                 *)
LEMMA BodyIs ==
  ASSUME NEW l, NEW s, NEW n \in Nat, NEW b, b = BodyOf(l, s, n)
  PROVE  /\ DOMAIN b = 1 .. Cardinality(SaidIn(l, s, n)) /\ Cardinality(SaidIn(l, s, n)) \in Nat
         /\ \A p \in DOMAIN b : b[p].i \in SaidIn(l, s, n)
         /\ \A i \in SaidIn(l, s, n) : \E p \in DOMAIN b : b[p].i = i
         /\ \A p, q \in DOMAIN b : p < q => b[p].i < b[q].i
<1> DEFINE S == SaidIn(l, s, n)
           N == Cardinality(S)
           o == InOrder(S)
<1>1. S \in SUBSET Nat /\ IsFiniteSet(S) /\ N \in Nat BY SaidIs
<1>2. /\ o \in [1 .. N -> S]
      /\ \A e \in S : Rank(S, e) \in 1 .. N /\ o[Rank(S, e)] = e
      /\ \A k \in 1 .. N : Rank(S, o[k]) = k
  BY <1>1, InOrderRank
<1>3. DOMAIN b = 1 .. N /\ \A p \in 1 .. N : b[p].i = o[p] BY DEF BodyOf
<1>4. ASSUME NEW p \in 1 .. N, NEW q \in 1 .. N, p < q PROVE o[p] < o[q]
  <2>1. o[p] \in S /\ o[q] \in S /\ Rank(S, o[p]) = p /\ Rank(S, o[q]) = q BY <1>2
  <2>2. o[q] < o[p] => Rank(S, o[q]) < Rank(S, o[p]) BY <2>1, <1>1, RankIs
  <2>3. o[p] # o[q] /\ ~(o[q] < o[p])
    <3> HIDE DEF S, N, o
    <3>q. QED BY <2>1, <2>2, <1>4, <1>1
  <2>4. o[p] \in Nat /\ o[q] \in Nat BY <2>1, <1>1
  <2> HIDE DEF S, N, o
  <2>q. QED BY <2>3, <2>4
<1> HIDE DEF o
<1>q. QED BY <1>1, <1>2, <1>3, <1>4

LEMMA BodyGrows ==
  ASSUME NEW l \in Seq(Entries), NEW m \in Seq(Entries), GoesOnAs(l, m), "clear" \notin NewIn(l, m),
         NEW s, NEW n \in 0 .. Len(l)
  PROVE  BodyOf(m, s, n) = BodyOf(l, s, n)
<1> DEFINE S == SaidIn(l, s, n)
           N == Cardinality(S)
           o == InOrder(S)
<1>0. n \in Nat /\ n <= Len(l) /\ Len(l) \in Nat BY GoesOnIs
<1>1. SaidIn(m, s, n) = S BY SaidGrows
<1>2. S \in SUBSET (1 .. n) /\ o \in [1 .. N -> S] BY <1>0, SaidIs, InOrderRank
<1>3. \A p \in 1 .. N : o[p] \in 1 .. Len(l) BY <1>0, <1>2
<1>4. \A p \in 1 .. N : IsCleared(m, o[p]) <=> IsCleared(l, o[p]) BY <1>3, ClearedGrows
<1>5. BodyOf(m, s, n) = [p \in 1 .. N |-> [i |-> o[p], stub |-> IsCleared(m, o[p])]] BY <1>1 DEF BodyOf
<1>6. BodyOf(l, s, n) = [p \in 1 .. N |-> [i |-> o[p], stub |-> IsCleared(l, o[p])]] BY DEF BodyOf
<1> HIDE DEF S, N, o
<1>7. ASSUME NEW p \in 1 .. N
      PROVE  [i |-> o[p], stub |-> IsCleared(m, o[p])] = [i |-> o[p], stub |-> IsCleared(l, o[p])]
  <2>1. IsCleared(m, o[p]) <=> IsCleared(l, o[p]) BY <1>4
  <2>2. IsCleared(m, o[p]) = IsCleared(l, o[p]) BY <2>1, Zenon DEF IsCleared
  <2>q. QED BY <2>2, Zenon
<1>8. [p \in 1 .. N |-> [i |-> o[p], stub |-> IsCleared(m, o[p])]] = [p \in 1 .. N |-> [i |-> o[p], stub |-> IsCleared(l, o[p])]]
  BY <1>7, Zenon
<1>q. QED BY <1>5, <1>6, <1>8, Zenon

(* What was true of a log is true of one that goes on, unless an entry of  *)
(* some kind has come.                                                     *)
LEMMA SentKeeps ==
  ASSUME NEW l \in Seq(Entries), NEW m \in Seq(Entries), GoesOnAs(l, m), NEW st, NEW b, NEW c,
         SentFits(l, st, b), b => c,
         "summary" \notin NewIn(l, m), "clear" \notin NewIn(l, m), b => "prefix" \notin NewIn(l, m)
  PROVE  SentFits(m, st, c)
<1> SUFFICES ASSUME st # NothingSent PROVE SentFits(m, st, c) BY DEF SentFits
<1>1. /\ st.upto \in 1 .. Len(l)
      /\ \A i \in (st.upto + 1) .. Len(l) : l[i].k \notin {"summary", "clear"} /\ (st.begun => l[i].k # "prefix")
      /\ st.summary = Summed(l)
      /\ st.prefix = {i \in 1 .. st.upto : l[i].k = "prefix" /\ i > Summed(l)}
      /\ st.body = BodyOf(l, Summed(l), st.upto)
      /\ st.vetoes = VetoesIn(l, st.upto)
      /\ st.begun => b
  BY DEF SentFits
<1>2. /\ Len(l) \in Nat /\ Len(m) \in Nat /\ Len(l) <= Len(m)
      /\ \A i \in 1 .. Len(l) : m[i] = l[i] /\ l[i] \in Entries
      /\ \A i \in 1 .. Len(m) : i > Len(l) => m[i].k \in NewIn(l, m)
  BY GoesOnIs
<1>3. Summed(m) = Summed(l) BY SummedGrows
<1>4. st.upto \in 0 .. Len(l) /\ st.upto \in 1 .. Len(m) BY <1>1, <1>2
<1>5. st.body = BodyOf(m, Summed(m), st.upto) BY <1>1, <1>3, <1>4, BodyGrows
<1>6. ASSUME NEW i \in (st.upto + 1) .. Len(m)
      PROVE  m[i].k \notin {"summary", "clear"} /\ (st.begun => m[i].k # "prefix")
  <2>1. CASE i <= Len(l)
    <3>1. i \in (st.upto + 1) .. Len(l) /\ i \in 1 .. Len(l) BY <2>1, <1>2, <1>4
    <3>q. QED BY <3>1, <1>1, <1>2
  <2>2. CASE ~(i <= Len(l))
    <3>1. i \in 1 .. Len(m) /\ i > Len(l) BY <2>2, <1>2, <1>4
    <3>q. QED BY <3>1, <1>1, <1>2
  <2>q. QED BY <2>1, <2>2
<1>7. \A i \in 1 .. st.upto : m[i] = l[i] BY <1>2, <1>4
<1>8. st.prefix = {i \in 1 .. st.upto : m[i].k = "prefix" /\ i > Summed(m)} BY <1>1, <1>3, <1>7
<1>9. st.vetoes = VetoesIn(m, st.upto) BY <1>1, <1>7 DEF VetoesIn
<1>q. QED BY <1>1, <1>3, <1>4, <1>5, <1>6, <1>8, <1>9 DEF SentFits

LEMMA InViewIs ==
  ASSUME NEW l \in Seq(Entries)
  PROVE  /\ InView(l) \in 0 .. Len(l)
         /\ InView(l) # 0 => l[InView(l)].k = "notes" /\ InView(l) > Summed(l)
         /\ \A i \in 1 .. Len(l) : l[i].k = "notes" /\ i > Summed(l) => i <= InView(l) /\ InView(l) # 0
<1>1. /\ Len(l) \in Nat /\ Where(l, {"notes"}) \in SUBSET (1 .. Len(l))
      /\ \A i : i \in Where(l, {"notes"}) <=> i \in 1 .. Len(l) /\ l[i].k \in {"notes"}
  BY WhereIs
<1> DEFINE v == LastOf(Where(l, {"notes"}))
<1>2. v \in Where(l, {"notes"}) \cup {0} /\ v \in 0 .. Len(l) /\ \A i \in Where(l, {"notes"}) : i <= v
  BY <1>1, LastIs
<1>3. InView(l) = IF v > Summed(l) THEN v ELSE 0 BY DEF InView, Summed
<1>4. Summed(l) \in 0 .. Len(l) BY SummedIs
<1> HIDE DEF v
<1>5. v > Summed(l) => v # 0 BY <1>2, <1>4, <1>1
<1>6. \A i \in 1 .. Len(l) : l[i].k = "notes" /\ i > Summed(l) => i <= v /\ v > Summed(l) BY <1>1, <1>2, <1>4
<1>7. v # 0 => l[v].k = "notes" BY <1>1, <1>2
<1>q. QED BY <1>1, <1>2, <1>3, <1>4, <1>5, <1>6, <1>7

LEMMA InViewGrows ==
  ASSUME NEW l \in Seq(Entries), NEW m \in Seq(Entries), GoesOnAs(l, m),
         "summary" \notin NewIn(l, m), "notes" \notin NewIn(l, m)
  PROVE  InView(m) = InView(l) /\ \A n : Differs(m, n) <=> Differs(l, n)
<1>1. NewIn(l, m) \cap {"notes"} = {} /\ NewIn(l, m) \cap {"summary"} = {} OBVIOUS
<1>2. Where(m, {"notes"}) = Where(l, {"notes"}) /\ Where(m, {"summary"}) = Where(l, {"summary"})
  BY <1>1, WhereGrows
<1>3. InView(m) = InView(l) BY <1>2 DEF InView
<1>4. InView(l) # 0 => m[InView(l)] = l[InView(l)]
  <2>1. InView(l) \in 0 .. Len(l) BY InViewIs
  <2>q. QED BY <2>1, GoesOnIs
<1>q. QED BY <1>3, <1>4 DEF Differs

LEMMA HookKeeps ==
  ASSUME NEW l \in Seq(Entries), NEW m \in Seq(Entries), GoesOnAs(l, m), NEW a, NEW h, NEW pd,
         HookFits(l, a, h, pd), "summary" \notin NewIn(l, m), "notes" \notin NewIn(l, m)
  PROVE  HookFits(m, a, h, pd)
<1>1. Where(l, {"prompt"}) \subseteq Where(m, {"prompt"}) BY WhereGrows
<1>2. Differs(m, h.notes) <=> Differs(l, h.notes) BY InViewGrows
<1>q. QED BY <1>1, <1>2 DEF HookFits

LEMMA PutBackGrows ==
  ASSUME NEW l \in Seq(Entries), NEW m \in Seq(Entries), GoesOnAs(l, m), "summary" \notin NewIn(l, m)
  PROVE  PutBack(l) => PutBack(m)
<1>1. Summed(m) = Summed(l) /\ Summed(l) \in 0 .. Len(l) BY SummedGrows, SummedIs
<1>2. /\ Len(l) \in Nat /\ Len(m) \in Nat /\ Len(l) <= Len(m) /\ \A i \in 1 .. Len(l) : m[i] = l[i]
  BY GoesOnIs
<1>3. PromptsBefore(m, Summed(l)) = PromptsBefore(l, Summed(l))
  <2>1. ASSUME NEW i \in PromptsBefore(m, Summed(l)) PROVE i \in PromptsBefore(l, Summed(l))
    <3>1. i \in Where(m, {"prompt"}) /\ i < Summed(l) BY <2>1 DEF PromptsBefore
    <3>2. i \in 1 .. Len(m) BY <3>1, WhereIs
    <3>3. i <= Len(l) BY <3>1, <3>2, <1>1, <1>2
    <3>4. i \in Where(l, {"prompt"}) BY <3>1, <3>3, WhereGrows
    <3>q. QED BY <3>1, <3>4 DEF PromptsBefore
  <2>2. PromptsBefore(l, Summed(l)) \subseteq PromptsBefore(m, Summed(l))
    <3>1. Where(l, {"prompt"}) \subseteq Where(m, {"prompt"}) BY WhereGrows
    <3>q. QED BY <3>1 DEF PromptsBefore
  <2>q. QED BY <2>1, <2>2
<1>4. ASSUME NEW i \in 1 .. Len(l), HasPrompt(l, Summed(l), i) PROVE HasPrompt(m, Summed(m), i) /\ i \in 1 .. Len(m)
  BY <1>1, <1>2, <1>3, <1>4 DEF HasPrompt
<1>q. QED BY <1>4 DEF PutBack

LEMMA PutBackKeeps ==
  ASSUME NEW l \in Seq(Entries), NEW m \in Seq(Entries), GoesOnAs(l, m), NEW a, NEW cut,
         BlockFits(l, a, cut), "summary" \notin NewIn(l, m), a = "summarised" => "prompt" \notin NewIn(l, m)
  PROVE  BlockFits(m, a, cut)
<1>1. Summed(m) = Summed(l) BY SummedGrows
<1>2. PutBack(l) => PutBack(m) BY PutBackGrows
<1>3. ASSUME a = "summarised", NEW i \in Where(m, {"prompt"}) PROVE Summed(l) # 0 /\ i < Summed(l)
  <2>1. NewIn(l, m) \cap {"prompt"} = {} BY <1>3
  <2>2. Where(m, {"prompt"}) = Where(l, {"prompt"}) BY <2>1, WhereGrows
  <2>q. QED BY <2>2, <1>3 DEF BlockFits
<1>q. QED BY <1>1, <1>2, <1>3 DEF BlockFits

LEMMA InSummaryGrows ==
  ASSUME NEW l \in Seq(Entries), NEW m \in Seq(Entries), GoesOnAs(l, m), NEW i, InSummary(l, i)
  PROVE  InSummary(m, i)
<1>1. PICK s \in Where(l, {"summary"}) : l[s].lo <= i /\ i <= l[s].hi BY DEF InSummary
<1>2. s \in Where(m, {"summary"}) BY <1>1, WhereGrows
<1>3. m[s] = l[s] BY <1>1, WhereIs, GoesOnIs
<1>q. QED BY <1>1, <1>2, <1>3 DEF InSummary

LEMMA CoverKeeps ==
  ASSUME NEW l \in Seq(Entries), NEW m \in Seq(Entries), GoesOnAs(l, m), NEW a, NEW rg \in Nat \X Nat,
         CoverFits(l, a, rg), "summary" \notin NewIn(l, m), a = "summarising" => NewIn(l, m) \cap Spoken = {}
  PROVE  CoverFits(m, a, rg)
<1>1. Summed(m) = Summed(l) /\ CompactedThrough(m) = CompactedThrough(l) BY SummedGrows
<1>2. Summed(l) \in 0 .. Len(l) BY SummedIs
<1>3. Len(l) \in Nat /\ Len(m) \in Nat /\ Len(l) <= Len(m) BY GoesOnIs
<1>4. CompactedThrough(l) <= Len(l) BY DEF CoverFits
<1>h. CompactedThrough(l) \in Nat
  <2>1. CompactedThrough(l) = (IF Summed(l) = 0 THEN 0 ELSE l[Summed(l)].hi) BY DEF CompactedThrough, Summed
  <2>2. Summed(l) # 0 => l[Summed(l)] \in Entries BY <1>2, GoesOnIs
  <2>3. Summed(l) # 0 => l[Summed(l)].hi \in Nat BY <2>2 DEF Entries
  <2>q. QED BY <2>1, <2>3
<1>5. ASSUME NEW i \in Where(m, Spoken)
      PROVE  (i <= Summed(m) => i <= CompactedThrough(m)) /\ (i <= CompactedThrough(m) => InSummary(m, i))
  <2>0. i \in 1 .. Len(m) BY WhereIs
  <2>1. i <= Len(l) => i \in Where(l, Spoken) BY WhereGrows
  <2>2. i <= Summed(l) => i <= Len(l) BY <2>0, <1>2, <1>3
  <2>3. i <= CompactedThrough(l) => i <= Len(l) BY <2>0, <1>4, <1>3, <1>h
  <2>4. i \in Where(l, Spoken) => (i <= Summed(l) => i <= CompactedThrough(l))
                                  /\ (i <= CompactedThrough(l) => InSummary(l, i)) BY DEF CoverFits
  <2>5. InSummary(l, i) => InSummary(m, i) BY InSummaryGrows
  <2>q. QED BY <2>1, <2>2, <2>3, <2>4, <2>5, <1>1
<1>6. ASSUME a = "summarising" PROVE \A i \in Where(m, Spoken) : i <= rg[2]
  <2>1. Where(m, Spoken) = Where(l, Spoken) BY <1>6, WhereGrows
  <2>q. QED BY <2>1, <1>6 DEF CoverFits
<1>7. a = "summarising" => rg[1] = CompactedThrough(m) + 1 /\ rg[2] <= Len(l) BY <1>1 DEF CoverFits
<1>8. a = "summarising" => \A i \in Where(m, Spoken) : i <= rg[2] BY <1>6
<1>9. CompactedThrough(m) <= Len(m) BY <1>1, <1>3, <1>4, <1>h
<1>10. a = "summarising" => rg[2] <= Len(m) BY <1>7, <1>3
<1>q. QED BY <1>5, <1>7, <1>8, <1>9, <1>10 DEF CoverFits

LEMMA RemindKeeps ==
  ASSUME NEW l \in Seq(Entries), NEW m \in Seq(Entries), GoesOnAs(l, m), NEW a, NEW h, NEW pd, NEW lost,
         RemindFits(l, a, h, pd, lost), NewIn(l, m) \cap ({"reminder"} \cup Touches) = {}
  PROVE  RemindFits(m, a, h, pd, lost)
<1>1. NewIn(l, m) \cap {"reminder"} = {} /\ NewIn(l, m) \cap Touches = {} OBVIOUS
<1>2. Where(m, {"reminder"}) = Where(l, {"reminder"}) /\ Where(m, Touches) = Where(l, Touches)
  BY <1>1, WhereGrows
<1>3. Settled(l) => Settled(m)
  <2>1. Where(l, {"load", "reminder"}) \subseteq Where(m, {"load", "reminder"}) BY WhereGrows
  <2>q. QED BY <2>1 DEF Settled
<1>q. QED BY <1>2, <1>3 DEF RemindFits

(* The request's places are in the log.                                    *)
LEMMA SentIs ==
  ASSUME NEW l \in Seq(Entries), NEW st, NEW b, SentFits(l, st, b), st # NothingSent
  PROVE  /\ st.upto \in 1 .. Len(l) /\ \A x \in DOMAIN st.body : st.body[x].i \in 1 .. Len(l)
         /\ \A i \in st.prefix : i \in 1 .. Len(l)
<1>1. st.upto \in 1 .. Len(l) /\ Len(l) \in Nat BY DEF SentFits
<1>2. st.body = BodyOf(l, Summed(l), st.upto) BY DEF SentFits
<1>3. st.upto \in Nat BY <1>1
<1>4. \A x \in DOMAIN st.body : st.body[x].i \in SaidIn(l, Summed(l), st.upto) BY <1>2, <1>3, BodyIs
<1>5. SaidIn(l, Summed(l), st.upto) \in SUBSET (1 .. st.upto) BY <1>3, SaidIs
<1>6. \A x \in DOMAIN st.body : st.body[x].i \in 1 .. Len(l) BY <1>1, <1>4, <1>5
<1>7. \A i \in st.prefix : i \in 1 .. st.upto BY DEF SentFits
<1>q. QED BY <1>1, <1>6, <1>7

LEMMA WholeKeeps ==
  ASSUME NEW l \in Seq(Entries), NEW m \in Seq(Entries), GoesOnAs(l, m), NEW a, NEW h, NEW st, NEW b, NEW cut,
         WholeFits(l, a, h, st, cut), SentFits(l, st, b)
  PROVE  WholeFits(m, a, h, st, cut)
<1> SUFFICES ASSUME a = "model" PROVE WholeFits(m, a, h, st, cut) BY DEF WholeFits
<1>1. /\ st # NothingSent
      /\ h.notes = IF Shown(l, st) = {} THEN 0 ELSE l[st.body[Max(Shown(l, st))].i].notes
      /\ \/ Includes(l, st, LastPrompt(l, st))
         \/ \E i \in st.prefix : "prompt" \in l[i].mods /\ l[i].hi = LastPrompt(l, st)
         \/ cut
      /\ \A i \in Where(l, Spoken) : i <= st.upto => Includes(l, st, i) \/ InSummary(l, i)
  BY DEF WholeFits
<1>2. /\ st.upto \in 1 .. Len(l) /\ \A x \in DOMAIN st.body : st.body[x].i \in 1 .. Len(l)
      /\ \A i \in st.prefix : i \in 1 .. Len(l)
  BY <1>1, SentIs
<1>3. /\ Len(l) \in Nat /\ Len(m) \in Nat /\ Len(l) <= Len(m) /\ \A i \in 1 .. Len(l) : m[i] = l[i]
  BY GoesOnIs
<1>4. \A x \in DOMAIN st.body : m[st.body[x].i] = l[st.body[x].i] BY <1>2, <1>3
<1>5. Shown(m, st) = Shown(l, st) BY <1>4 DEF Shown
<1>6. h.notes = IF Shown(m, st) = {} THEN 0 ELSE m[st.body[Max(Shown(m, st))].i].notes
  <2>1. CASE Shown(l, st) = {} BY <2>1, <1>1, <1>5
  <2>2. CASE Shown(l, st) # {}
    <3>1. Max(Shown(l, st)) \in Shown(l, st)
      <4>1. st.body = BodyOf(l, Summed(l), st.upto) BY <1>1 DEF SentFits
      <4>2. st.upto \in Nat BY <1>2
      <4>3. /\ DOMAIN st.body = 1 .. Cardinality(SaidIn(l, Summed(l), st.upto))
            /\ Cardinality(SaidIn(l, Summed(l), st.upto)) \in Nat
        BY <4>1, <4>2, BodyIs
      <4>4. Shown(l, st) \in SUBSET (0 .. Cardinality(SaidIn(l, Summed(l), st.upto))) BY <4>3 DEF Shown
      <4>q. QED BY <4>3, <4>4, <2>2, MaxIs
    <3>2. Max(Shown(l, st)) \in DOMAIN st.body BY <3>1 DEF Shown
    <3>q. QED BY <2>2, <3>2, <1>1, <1>4, <1>5
  <2>q. QED BY <2>1, <2>2
<1>7. LastPrompt(m, st) = LastPrompt(l, st)
  <2>1. ASSUME NEW i \in Where(m, {"prompt"}), i <= st.upto PROVE i \in Where(l, {"prompt"})
    <3>1. i \in 1 .. Len(m) BY WhereIs
    <3>2. i <= Len(l) BY <3>1, <2>1, <1>2, <1>3
    <3>q. QED BY <3>2, WhereGrows
  <2>2. Where(l, {"prompt"}) \subseteq Where(m, {"prompt"}) BY WhereGrows
  <2>3. {i \in Where(m, {"prompt"}) : i <= st.upto} = {i \in Where(l, {"prompt"}) : i <= st.upto} BY <2>1, <2>2
  <2>q. QED BY <2>3 DEF LastPrompt
<1>8. \A i : Includes(m, st, i) <=> Includes(l, st, i) BY DEF Includes
<1>9. \A i \in st.prefix : m[i] = l[i] BY <1>2, <1>3
<1>10. \/ Includes(m, st, LastPrompt(m, st))
       \/ \E i \in st.prefix : "prompt" \in m[i].mods /\ m[i].hi = LastPrompt(m, st)
       \/ cut
  BY <1>1, <1>7, <1>8, <1>9
<1>11. ASSUME NEW i \in Where(m, Spoken), i <= st.upto PROVE Includes(m, st, i) \/ InSummary(m, i)
  <2>1. i \in 1 .. Len(m) BY WhereIs
  <2>2. i <= Len(l) BY <2>1, <1>11, <1>2, <1>3
  <2>3. i \in Where(l, Spoken) BY <2>2, WhereGrows
  <2>4. Includes(l, st, i) \/ InSummary(l, i) BY <2>3, <1>1, <1>11
  <2>q. QED BY <2>4, <1>8, InSummaryGrows
<1>q. QED BY <1>1, <1>6, <1>10, <1>11 DEF WholeFits

LEMMA ViewBounds == MaxView \in Nat /\ MaxSaid \in Nat /\ MaxNotes \in Nat /\ MaxMishaps \in Nat
BY ViewAssumption

LEMMA StartEntryIs ==
  ASSUME NEW e, e = [Entry("prefix") EXCEPT !.mods = {"skills", "clock", "memory"}]
  PROVE  e \in Entries /\ e.k = "prefix"
BY DEF Entry, Entries, Kinds

LEMMA SeqOfSame ==
  ASSUME NEW S, NEW n \in Nat, NEW e \in S, NEW s, s = [i \in 1 .. n |-> e]
  PROVE  s \in Seq(S) /\ Len(s) = n /\ \A i \in 1 .. n : s[i] = e
<1>1. s \in [1 .. n -> S] OBVIOUS
<1>q. QED BY <1>1

LEMMA SeqOfOne ==
  ASSUME NEW S, NEW e \in S, NEW s, s = <<e>>
  PROVE  s \in Seq(S) /\ Len(s) = 1 /\ s[1] = e
OBVIOUS

LEMMA TwoParts ==
  ASSUME NEW S, NEW s \in Seq(S), NEW t \in Seq(S), NEW u, u = s \o t
  PROVE  /\ u \in Seq(S) /\ Len(u) = Len(s) + Len(t) /\ Len(s) \in Nat /\ Len(t) \in Nat
         /\ \A i \in 1 .. Len(s) : u[i] = s[i]
         /\ \A i \in 1 .. Len(t) : u[Len(s) + i] = t[i]
OBVIOUS

LEMMA LoggedIs ==
  ASSUME ViewTypes, NEW e \in Entries, AppendOne(e)
  PROVE  /\ events \in Seq(Entries) /\ events' \in Seq(Entries) /\ Len(events') <= MaxView
         /\ Len(events') = Len(events) + 1 /\ events'[Len(events) + 1] = e
         /\ GoesOnAs(events, events') /\ NewIn(events, events') = {e.k}
<1>1. events \in Seq(Entries) /\ Len(events) \in Nat BY DEF ViewTypes
<1>2. events' = events \o <<e>> /\ Len(events) + Len(<<e>>) <= MaxView BY DEF AppendOne, AppendAll
<1>3. /\ events' \in Seq(Entries) /\ Len(events') = Len(events) + 1 /\ events'[Len(events) + 1] = e
      /\ GoesOnAs(events, events') /\ NewIn(events, events') = {e.k}
  BY <1>1, <1>2, OneEntry
<1>q. QED BY <1>1, <1>2, <1>3

LEMMA ViewInvIs ==
  ASSUME ViewInv
  PROVE  /\ ViewTypes /\ SentFits(events, sent, begun) /\ HookFits(events, at, hooked, pending)
         /\ BlockFits(events, at, mishaps.block) /\ CoverFits(events, at, range)
         /\ RemindFits(events, at, hooked, pending, mishaps.reminder)
         /\ WholeFits(events, at, hooked, sent, mishaps.block)
         /\ (at = "summarised" => sent = NothingSent)
         /\ events \in Seq(Entries) /\ Len(events) \in Nat /\ range \in Nat \X Nat
BY DEF ViewInv, ViewFits, ViewTypes

LEMMA SessionStartStep == ASSUME ViewInv, SessionStart PROVE ViewInv'
<1> DEFINE e == [Entry("prefix") EXCEPT !.mods = {"skills", "clock", "memory"}]
<1>1. e \in Entries /\ e.k = "prefix" BY StartEntryIs
<1>2. /\ ~begun /\ begun' = TRUE /\ AppendOne(e)
      /\ UNCHANGED <<at, note, pending, hooked, range, sent, others, mishaps>>
  BY DEF SessionStart
<1> HIDE DEF e
<1>3. /\ events \in Seq(Entries) /\ events' \in Seq(Entries) /\ Len(events') <= MaxView
      /\ GoesOnAs(events, events') /\ NewIn(events, events') = {"prefix"}
  BY <1>1, <1>2, LoggedIs, ViewInvIs
<1>4. ViewTypes' BY <1>2, <1>3, ViewInvIs DEF ViewTypes
<1>5. SentFits(events', sent', begun') BY <1>2, <1>3, ViewInvIs, SentKeeps
<1>6. HookFits(events', at', hooked', pending') BY <1>2, <1>3, ViewInvIs, HookKeeps
<1>7. BlockFits(events', at', mishaps'.block) BY <1>2, <1>3, ViewInvIs, PutBackKeeps
<1>8. CoverFits(events', at', range')
  <2>1. NewIn(events, events') \cap Spoken = {} BY <1>3 DEF Spoken, LogResults
  <2>q. QED BY <1>2, <1>3, <2>1, ViewInvIs, CoverKeeps
<1>9. RemindFits(events', at', hooked', pending', mishaps'.reminder)
  <2>1. NewIn(events, events') \cap ({"reminder"} \cup Touches) = {} BY <1>3 DEF Touches
  <2>q. QED BY <1>2, <1>3, <2>1, ViewInvIs, RemindKeeps
<1>10. WholeFits(events', at', hooked', sent', mishaps'.block) BY <1>2, <1>3, ViewInvIs, WholeKeeps
<1>11. at' = "summarised" => sent' = NothingSent BY <1>2, ViewInvIs
<1>q. QED BY <1>4, <1>5, <1>6, <1>7, <1>8, <1>9, <1>10, <1>11 DEF ViewInv, ViewFits

LEMMA PromptStep == ASSUME ViewInv, PromptWithID PROVE ViewInv'
<1>1. Entry("prompt") \in Entries /\ Entry("prompt").k = "prompt" BY EntryIs DEF Kinds
<1>2. /\ at \notin {"summarising", "summarised"} /\ AppendOne(Entry("prompt"))
      /\ UNCHANGED <<at, begun, note, pending, hooked, range, sent, others, mishaps>>
  BY DEF PromptWithID
<1>3. /\ events \in Seq(Entries) /\ events' \in Seq(Entries) /\ Len(events') <= MaxView
      /\ GoesOnAs(events, events') /\ NewIn(events, events') = {"prompt"}
  BY <1>1, <1>2, LoggedIs, ViewInvIs
<1>4. ViewTypes' BY <1>2, <1>3, ViewInvIs DEF ViewTypes
<1>5. SentFits(events', sent', begun') BY <1>2, <1>3, ViewInvIs, SentKeeps
<1>6. HookFits(events', at', hooked', pending') BY <1>2, <1>3, ViewInvIs, HookKeeps
<1>7. BlockFits(events', at', mishaps'.block) BY <1>2, <1>3, ViewInvIs, PutBackKeeps
<1>8. CoverFits(events', at', range') BY <1>2, <1>3, ViewInvIs, CoverKeeps
<1>9. RemindFits(events', at', hooked', pending', mishaps'.reminder)
  <2>1. NewIn(events, events') \cap ({"reminder"} \cup Touches) = {} BY <1>3 DEF Touches
  <2>q. QED BY <1>2, <1>3, <2>1, ViewInvIs, RemindKeeps
<1>10. WholeFits(events', at', hooked', sent', mishaps'.block) BY <1>2, <1>3, ViewInvIs, WholeKeeps
<1>11. at' = "summarised" => sent' = NothingSent BY <1>2, ViewInvIs
<1>q. QED BY <1>4, <1>5, <1>6, <1>7, <1>8, <1>9, <1>10, <1>11 DEF ViewInv, ViewFits

LEMMA StopVetoedStep == ASSUME ViewInv, StopVetoed PROVE ViewInv'
<1>1. Entry("veto") \in Entries /\ Entry("veto").k = "veto" BY EntryIs DEF Kinds
<1>2. /\ at = "calls" /\ AppendOne(Entry("veto"))
      /\ UNCHANGED <<at, begun, note, pending, hooked, range, sent, others, mishaps>>
  BY DEF StopVetoed
<1>3. /\ events \in Seq(Entries) /\ events' \in Seq(Entries) /\ Len(events') <= MaxView
      /\ GoesOnAs(events, events') /\ NewIn(events, events') = {"veto"}
  BY <1>1, <1>2, LoggedIs, ViewInvIs
<1>4. ViewTypes' BY <1>2, <1>3, ViewInvIs DEF ViewTypes
<1>5. SentFits(events', sent', begun') BY <1>2, <1>3, ViewInvIs, SentKeeps
<1>6. HookFits(events', at', hooked', pending') BY <1>2, <1>3, ViewInvIs, HookKeeps
<1>7. BlockFits(events', at', mishaps'.block) BY <1>2, <1>3, ViewInvIs, PutBackKeeps
<1>8. CoverFits(events', at', range') BY <1>2, <1>3, ViewInvIs, CoverKeeps
<1>9. RemindFits(events', at', hooked', pending', mishaps'.reminder)
  <2>1. NewIn(events, events') \cap ({"reminder"} \cup Touches) = {} BY <1>3 DEF Touches
  <2>q. QED BY <1>2, <1>3, <2>1, ViewInvIs, RemindKeeps
<1>10. WholeFits(events', at', hooked', sent', mishaps'.block) BY <1>2, <1>3, ViewInvIs, WholeKeeps
<1>11. at' = "summarised" => sent' = NothingSent BY <1>2, ViewInvIs
<1>q. QED BY <1>4, <1>5, <1>6, <1>7, <1>8, <1>9, <1>10, <1>11 DEF ViewInv, ViewFits

LEMMA BeforeRequestStep == ASSUME ViewInv, BeforeRequest PROVE ViewInv'
<1>1. /\ at = "top" /\ Where(events, {"prompt"}) # {} /\ at' = "hooked"
      /\ hooked' = [notes |-> note, reminders |-> pending,
                    shows |-> IF InView(events) = 0 THEN note # 0 ELSE events[InView(events)].notes # note]
      /\ pending' = 0
      /\ UNCHANGED <<events, begun, note, range, sent, others, mishaps>>
  BY DEF BeforeRequest
<1>2. note \in Notes /\ pending \in 0 .. 1 BY ViewInvIs DEF ViewTypes
<1>3. hooked' \in [notes : Notes, shows : BOOLEAN, reminders : 0 .. 1] BY <1>1, <1>2
<1>4. ViewTypes' BY <1>1, <1>3, ViewInvIs DEF ViewTypes
<1>5. hooked'.notes = note /\ hooked'.reminders = pending BY <1>1
<1>6. hooked'.shows <=> Differs(events, note) BY <1>1, Zenon DEF Differs
<1>7. SentFits(events', sent', begun') BY <1>1, ViewInvIs
<1>8. HookFits(events', at', hooked', pending') BY <1>1, <1>5, <1>6 DEF HookFits
<1>9. BlockFits(events', at', mishaps'.block) BY <1>1, ViewInvIs DEF BlockFits
<1>10. CoverFits(events', at', range') BY <1>1, ViewInvIs DEF CoverFits
<1>11. RemindFits(events', at', hooked', pending', mishaps'.reminder)
  BY <1>1, <1>2, <1>5, ViewInvIs DEF RemindFits
<1>12. WholeFits(events', at', hooked', sent', mishaps'.block) BY <1>1 DEF WholeFits
<1>q. QED BY <1>1, <1>4, <1>7, <1>8, <1>9, <1>10, <1>11, <1>12 DEF ViewInv, ViewFits

(* Where only the place changes, to one where little has to hold.          *)
LEMMA RestStep ==
  ASSUME ViewInv, at' \in {"top", "calls"}, at \in {"top", "model", "calls"},
         hooked' \in [notes : Notes, shows : BOOLEAN, reminders : 0 .. 1],
         UNCHANGED <<events, begun, note, pending, range, sent, others, mishaps>>
  PROVE  ViewInv'
<1>4. ViewTypes' BY ViewInvIs DEF ViewTypes
<1>7. SentFits(events', sent', begun') BY ViewInvIs
<1>8. HookFits(events', at', hooked', pending') BY DEF HookFits
<1>9. BlockFits(events', at', mishaps'.block) BY ViewInvIs DEF BlockFits
<1>10. CoverFits(events', at', range') BY ViewInvIs DEF CoverFits
<1>11. RemindFits(events', at', hooked', pending', mishaps'.reminder) BY ViewInvIs DEF RemindFits
<1>12. WholeFits(events', at', hooked', sent', mishaps'.block) BY DEF WholeFits
<1>q. QED BY <1>4, <1>7, <1>8, <1>9, <1>10, <1>11, <1>12 DEF ViewInv, ViewFits

LEMMA NoReplyStep == ASSUME ViewInv, NoReply PROVE ViewInv'
<1>1. NothingHooked \in [notes : Notes, shows : BOOLEAN, reminders : 0 .. 1]
  BY ViewBounds DEF NothingHooked, Notes, Torn
<1>q. QED BY <1>1, RestStep DEF NoReply

LEMMA TurnDoneStep == ASSUME ViewInv, TurnDone PROVE ViewInv'
<1>1. hooked \in [notes : Notes, shows : BOOLEAN, reminders : 0 .. 1] BY ViewInvIs DEF ViewTypes
<1>q. QED BY <1>1, RestStep DEF TurnDone

LEMMA CompactedIs ==
  ASSUME NEW l \in Seq(Entries)
  PROVE  /\ CompactedThrough(l) \in Nat
         /\ CompactedThrough(l) = IF Summed(l) = 0 THEN 0 ELSE l[Summed(l)].hi
<1>1. CompactedThrough(l) = (IF Summed(l) = 0 THEN 0 ELSE l[Summed(l)].hi) BY DEF CompactedThrough, Summed
<1>2. Summed(l) \in 0 .. Len(l) /\ Len(l) \in Nat BY SummedIs
<1>3. Summed(l) # 0 => l[Summed(l)] \in Entries BY <1>2
<1>4. Summed(l) # 0 => l[Summed(l)].hi \in Nat BY <1>3 DEF Entries
<1>q. QED BY <1>1, <1>4

LEMMA BeginSummaryStep == ASSUME ViewInv, BeginSummary PROVE ViewInv'
<1>1. /\ at = "top" /\ at' = "summarising" /\ range' = <<CompactedThrough(events) + 1, Len(events)>>
      /\ UNCHANGED <<events, begun, note, pending, hooked, sent, others, mishaps>>
  BY DEF BeginSummary, RangeOf
<1>2. range' \in Nat \X Nat BY <1>1, CompactedIs, ViewInvIs
<1>4. ViewTypes' BY <1>1, <1>2, ViewInvIs DEF ViewTypes
<1>7. SentFits(events', sent', begun') BY <1>1, ViewInvIs
<1>8. HookFits(events', at', hooked', pending') BY <1>1 DEF HookFits
<1>9. BlockFits(events', at', mishaps'.block) BY <1>1, ViewInvIs DEF BlockFits
<1>10. CoverFits(events', at', range')
  <2>1. \A i \in Where(events, Spoken) : i <= Len(events) BY WhereIs, ViewInvIs
  <2>2. range'[1] = CompactedThrough(events) + 1 /\ range'[2] = Len(events) BY <1>1
  <2>q. QED BY <1>1, <2>1, <2>2, ViewInvIs DEF CoverFits
<1>11. RemindFits(events', at', hooked', pending', mishaps'.reminder) BY <1>1, ViewInvIs DEF RemindFits
<1>12. WholeFits(events', at', hooked', sent', mishaps'.block) BY <1>1 DEF WholeFits
<1>q. QED BY <1>1, <1>4, <1>7, <1>8, <1>9, <1>10, <1>11, <1>12 DEF ViewInv, ViewFits

LEMMA NotesStep ==
  ASSUME ViewInv, note' \in Notes, others' \in [writing : BOOLEAN, wrote : 0 .. MaxNotes],
         UNCHANGED <<events, at, begun, pending, hooked, range, sent, mishaps>>
  PROVE  ViewInv'
<1>1. ViewTypes' BY ViewInvIs DEF ViewTypes
<1>q. QED BY <1>1, ViewInvIs DEF ViewInv, ViewFits

LEMMA OthersSteps == ASSUME ViewInv, OtherWrites \/ OtherWrote \/ OtherRemoves PROVE ViewInv'
<1>1. note \in Notes /\ others \in [writing : BOOLEAN, wrote : 0 .. MaxNotes] BY ViewInvIs DEF ViewTypes
<1>2. Torn \in Notes /\ 0 \in Notes /\ \A v \in 0 .. MaxNotes : v \in Notes BY ViewBounds DEF Torn, Notes
<1>3. CASE OtherWrites
  <2>1. /\ others.wrote < MaxNotes /\ note' = Torn /\ others' = [writing |-> TRUE, wrote |-> others.wrote + 1]
        /\ UNCHANGED <<events, at, begun, pending, hooked, range, sent, mishaps>>
    BY <1>3 DEF OtherWrites
  <2>2. others' \in [writing : BOOLEAN, wrote : 0 .. MaxNotes] BY <2>1, <1>1, ViewBounds
  <2>q. QED BY <2>1, <2>2, <1>2, NotesStep
<1>4. CASE OtherWrote
  <2>1. /\ note' = (IF note = Torn THEN others.wrote ELSE note) /\ others' = [others EXCEPT !.writing = FALSE]
        /\ UNCHANGED <<events, at, begun, pending, hooked, range, sent, mishaps>>
    BY <1>4 DEF OtherWrote
  <2>2. others' \in [writing : BOOLEAN, wrote : 0 .. MaxNotes] BY <2>1, <1>1
  <2>3. note' \in Notes BY <2>1, <1>1, <1>2
  <2>q. QED BY <2>1, <2>2, <2>3, NotesStep
<1>5. CASE OtherRemoves
  <2>1. note' = 0 /\ UNCHANGED <<events, at, begun, pending, hooked, range, sent, others, mishaps>>
    BY <1>5 DEF OtherRemoves
  <2>q. QED BY <2>1, <1>1, <1>2, NotesStep
<1>q. QED BY <1>3, <1>4, <1>5

LEMMA DropReminderStep == ASSUME ViewInv, DropReminder PROVE ViewInv'
<1>1. /\ at = "top" /\ pending' = 0 /\ mishaps' = [mishaps EXCEPT !.reminder = TRUE]
      /\ UNCHANGED <<events, at, begun, note, hooked, range, sent, others>>
  BY DEF DropReminder
<1>2. mishaps \in [n : 0 .. MaxMishaps, block : BOOLEAN, reminder : BOOLEAN] BY ViewInvIs DEF ViewTypes
<1>3. /\ mishaps' \in [n : 0 .. MaxMishaps, block : BOOLEAN, reminder : BOOLEAN]
      /\ mishaps'.reminder /\ mishaps'.block = mishaps.block
  BY <1>1, <1>2
<1>4. ViewTypes' BY <1>1, <1>3, ViewInvIs DEF ViewTypes
<1>8. HookFits(events', at', hooked', pending') BY <1>1 DEF HookFits
<1>9. BlockFits(events', at', mishaps'.block) BY <1>1, <1>3, ViewInvIs
<1>11. RemindFits(events', at', hooked', pending', mishaps'.reminder) BY <1>1, <1>3, ViewInvIs DEF RemindFits
<1>12. WholeFits(events', at', hooked', sent', mishaps'.block) BY <1>1 DEF WholeFits
<1>q. QED BY <1>1, <1>4, <1>8, <1>9, <1>11, <1>12, ViewInvIs DEF ViewInv, ViewFits

LEMMA DaemonRestartsStep == ASSUME ViewInv, DaemonRestarts PROVE ViewInv'
<1>1. /\ mishaps.n < MaxMishaps
      /\ at' = "top" /\ pending' = 0 /\ begun' = TRUE /\ hooked' = NothingHooked /\ range' = <<0, 0>>
      /\ others' = [others EXCEPT !.writing = FALSE]
      /\ mishaps' = [n |-> mishaps.n + 1, block |-> mishaps.block \/ at = "summarised",
                     reminder |-> mishaps.reminder \/ pending > 0 \/ (at = "hooked" /\ hooked.reminders > 0)]
      /\ UNCHANGED <<events, note, sent>>
  BY DEF DaemonRestarts
<1>2. /\ mishaps \in [n : 0 .. MaxMishaps, block : BOOLEAN, reminder : BOOLEAN]
      /\ others \in [writing : BOOLEAN, wrote : 0 .. MaxNotes] /\ pending \in 0 .. 1
      /\ hooked \in [notes : Notes, shows : BOOLEAN, reminders : 0 .. 1]
  BY ViewInvIs DEF ViewTypes
<1>3. /\ mishaps' \in [n : 0 .. MaxMishaps, block : BOOLEAN, reminder : BOOLEAN]
  BY <1>1, <1>2, ViewBounds
<1>a. mishaps'.block <=> mishaps.block \/ at = "summarised" BY <1>1, Zenon
<1>b. mishaps'.reminder <=> mishaps.reminder \/ pending > 0 \/ (at = "hooked" /\ hooked.reminders > 0) BY <1>1, Zenon
<1>c. NothingHooked \in [notes : Notes, shows : BOOLEAN, reminders : 0 .. 1]
  BY ViewBounds DEF NothingHooked, Notes, Torn
<1>d. others' \in [writing : BOOLEAN, wrote : 0 .. MaxNotes] /\ range' \in Nat \X Nat BY <1>1, <1>2
<1>4. ViewTypes' BY <1>1, <1>3, <1>c, <1>d, ViewInvIs DEF ViewTypes
<1>5. SentFits(events', sent', begun') BY <1>1, ViewInvIs DEF SentFits
<1>8. HookFits(events', at', hooked', pending') BY <1>1 DEF HookFits
<1>9. BlockFits(events', at', mishaps'.block) BY <1>1, <1>a, ViewInvIs DEF BlockFits
<1>10. CoverFits(events', at', range') BY <1>1, ViewInvIs DEF CoverFits
<1>11. RemindFits(events', at', hooked', pending', mishaps'.reminder) BY <1>1, <1>2, <1>b, ViewInvIs DEF RemindFits
<1>12. WholeFits(events', at', hooked', sent', mishaps'.block) BY <1>1 DEF WholeFits
<1>q. QED BY <1>1, <1>4, <1>5, <1>8, <1>9, <1>10, <1>11, <1>12 DEF ViewInv, ViewFits

(* A call is logged; if it touched files of the skill, this is seen to.    *)
Queued(l, pd, lost, qd, later) ==
  qd = (IF Settled(l) \/ pd > 0 THEN pd ELSE pd + 1) /\ later = FALSE
LEMMA RemindCall ==
  ASSUME NEW l \in Seq(Entries), NEW m \in Seq(Entries), GoesOnAs(l, m), NEW a, a # "hooked", NEW h, NEW g,
         NEW pd \in 0 .. 1, NEW lost, NEW qd, NEW later, NEW k \in Replies \cup {"more"}, NewIn(l, m) = {k},
         RemindFits(l, a, h, pd, lost),
         Queued(l, pd, lost, qd, later) \/ (k \notin Touches /\ qd = pd /\ later = lost)
  PROVE  RemindFits(m, "calls", g, qd, later) /\ qd \in 0 .. 1
<1>1. NewIn(l, m) \cap {"reminder"} = {} BY DEF Replies
<1>2. Where(m, {"reminder"}) = Where(l, {"reminder"}) BY <1>1, WhereGrows
<1>3. Settled(l) => Settled(m)
  <2>1. Where(l, {"load", "reminder"}) \subseteq Where(m, {"load", "reminder"}) BY WhereGrows
  <2>q. QED BY <2>1 DEF Settled
<1>4. ~Settled(l) => Where(l, {"reminder"}) = {} BY DEF Settled, Where
<1>5. CASE Queued(l, pd, lost, qd, later) BY <1>2, <1>3, <1>4, <1>5 DEF RemindFits, Queued
<1>6. CASE k \notin Touches /\ qd = pd /\ later = lost
  <2>1. NewIn(l, m) \cap Touches = {} BY <1>6
  <2>2. Where(m, Touches) = Where(l, Touches) BY <2>1, WhereGrows
  <2>q. QED BY <1>2, <1>3, <1>6, <2>2 DEF RemindFits
<1>q. QED BY <1>5, <1>6

(* A reply or a call is in the log, and the loop is at the calls.          *)
LEMMA CallLogged ==
  ASSUME ViewInv, at \in {"model", "calls"}, at' = "calls", NEW k \in Replies \cup {"more"}, AppendOne(Entry(k)),
         \/ ToolResult
         \/ k \notin Touches /\ UNCHANGED <<pending, mishaps>>,
         note' \in Notes, others' \in [writing : BOOLEAN, wrote : 0 .. MaxNotes],
         hooked' \in [notes : Notes, shows : BOOLEAN, reminders : 0 .. 1],
         UNCHANGED <<begun, range, sent>>
  PROVE  ViewInv'
<1>0. k \in Kinds /\ k \notin {"summary", "clear", "prefix", "reminder"} BY DEF Replies, Kinds
<1>1. Entry(k) \in Entries /\ Entry(k).k = k BY <1>0, EntryIs
<1>3. /\ events \in Seq(Entries) /\ events' \in Seq(Entries) /\ Len(events') <= MaxView
      /\ GoesOnAs(events, events') /\ NewIn(events, events') = {k}
  BY <1>1, LoggedIs, ViewInvIs
<1>2. mishaps \in [n : 0 .. MaxMishaps, block : BOOLEAN, reminder : BOOLEAN] /\ pending \in 0 .. 1 BY ViewInvIs DEF ViewTypes
<1>a. /\ mishaps' \in [n : 0 .. MaxMishaps, block : BOOLEAN, reminder : BOOLEAN]
      /\ mishaps'.block = mishaps.block
      /\ \/ Queued(events, pending, mishaps.reminder, pending', mishaps'.reminder)
         \/ k \notin Touches /\ pending' = pending /\ mishaps'.reminder = mishaps.reminder
  <2>1. CASE ToolResult
    <3>1. mishaps' = [mishaps EXCEPT !.reminder = FALSE]
          /\ pending' = (IF Settled(events) \/ pending > 0 THEN pending ELSE pending + 1)
      BY <2>1 DEF ToolResult
    <3>q. QED BY <3>1, <1>2 DEF Queued
  <2>2. CASE k \notin Touches /\ UNCHANGED <<pending, mishaps>> BY <2>2, <1>2
  <2>q. QED BY <2>1, <2>2
<1>b. RemindFits(events', "calls", hooked', pending', mishaps'.reminder) /\ pending' \in 0 .. 1
  <2>1. at # "hooked" OBVIOUS
  <2>2. RemindFits(events, at, hooked, pending, mishaps.reminder) BY ViewInvIs
  <2>q. QED BY <2>1, <2>2, <1>2, <1>3, <1>a, RemindCall
<1>4. ViewTypes' BY <1>3, <1>a, <1>b, ViewInvIs DEF ViewTypes
<1>5. SentFits(events', sent', begun') BY <1>0, <1>3, ViewInvIs, SentKeeps
<1>6. HookFits(events', at', hooked', pending') BY DEF HookFits
<1>7. BlockFits(events', at', mishaps'.block)
  <2>1. BlockFits(events, "calls", mishaps.block) BY ViewInvIs DEF BlockFits
  <2>q. QED BY <1>0, <1>3, <1>a, <2>1, PutBackKeeps
<1>8. CoverFits(events', at', range')
  <2>1. CoverFits(events, "calls", range) BY ViewInvIs DEF CoverFits
  <2>q. QED BY <1>0, <1>3, <2>1, ViewInvIs, CoverKeeps
<1>10. WholeFits(events', at', hooked', sent', mishaps'.block) BY DEF WholeFits
<1>q. QED BY <1>4, <1>5, <1>6, <1>7, <1>8, <1>b, <1>10 DEF ViewInv, ViewFits

LEMMA TouchStep == ASSUME ViewInv, Touch PROVE ViewInv'
<1>1. /\ at = "calls" /\ at' = "calls" /\ AppendOne(Entry("more")) /\ ToolResult
      /\ UNCHANGED <<begun, note, hooked, range, sent, others>>
  BY DEF Touch
<1>2. /\ note' \in Notes /\ others' \in [writing : BOOLEAN, wrote : 0 .. MaxNotes]
      /\ hooked' \in [notes : Notes, shows : BOOLEAN, reminders : 0 .. 1]
  BY <1>1, ViewInvIs DEF ViewTypes
<1>3. "more" \in Replies \cup {"more"} OBVIOUS
<1>q. QED BY <1>1, <1>2, <1>3, CallLogged

LEMMA ModelReplyStep == ASSUME ViewInv, ModelReply PROVE ViewInv'
<1>1. /\ at = "model" /\ at' = "calls" /\ hooked' = NothingHooked /\ UNCHANGED <<begun, range, sent>>
  BY DEF ModelReply
<1>2. PICK k \in Replies :
        /\ AppendOne(Entry(k))
        /\ IF k = "touch" THEN ToolResult ELSE UNCHANGED <<pending, mishaps>>
        /\ IF k = "write" THEN OwnNote ELSE UNCHANGED <<note, others>>
  BY DEF ModelReply
<1>3. hooked' \in [notes : Notes, shows : BOOLEAN, reminders : 0 .. 1]
  BY <1>1, ViewBounds DEF NothingHooked, Notes, Torn
<1>4. note \in Notes /\ others \in [writing : BOOLEAN, wrote : 0 .. MaxNotes] BY ViewInvIs DEF ViewTypes
<1>5. note' \in Notes /\ others' \in [writing : BOOLEAN, wrote : 0 .. MaxNotes]
  <2>1. CASE OwnNote
    <3>1. CASE others.wrote < MaxNotes /\ note' = others.wrote + 1 /\ others' = [others EXCEPT !.wrote = @ + 1]
      <4>1. others.wrote + 1 \in 0 .. MaxNotes BY <3>1, <1>4, ViewBounds
      <4>2. others.wrote + 1 \in Notes BY <4>1, ViewBounds DEF Notes, Torn
      <4>q. QED BY <3>1, <4>1, <4>2, <1>4
    <3>2. CASE note' = 0 /\ UNCHANGED others BY <3>2, <1>4, ViewBounds DEF Notes, Torn
    <3>q. QED BY <2>1, <3>1, <3>2 DEF OwnNote
  <2>2. CASE UNCHANGED <<note, others>> BY <2>2, <1>4
  <2>q. QED BY <1>2, <2>1, <2>2
<1>6. ToolResult \/ (k \notin Touches /\ UNCHANGED <<pending, mishaps>>)
  <2>1. k # "touch" => k \notin Touches BY DEF Replies, Touches
  <2>q. QED BY <1>2, <2>1
<1>q. QED BY <1>1, <1>2, <1>3, <1>5, <1>6, CallLogged

LEMMA ClearingIs ==
  ASSUME NEW l \in Seq(Entries)
  PROVE  Clearing(l) = <<>> \/ \E e \in Entries : e.k = "clear" /\ Clearing(l) = <<e>>
<1> DEFINE old == {i \in Where(l, LogResults) : i < KeepFrom(l) /\ ~IsCleared(l, i)}
<1>1. old \in SUBSET (1 .. Len(l)) /\ Len(l) \in Nat BY WhereIs
<1>2. Clearing(l) = (IF old = {} THEN <<>> ELSE <<[Entry("clear") EXCEPT !.lo = Min(old), !.hi = Max(old)]>>)
  BY DEF Clearing
<1> HIDE DEF old
<1>3. CASE old = {} BY <1>2, <1>3
<1>4. CASE old # {}
  <2>1. old \in SUBSET Nat /\ old \in SUBSET (0 .. Len(l)) BY <1>1
  <2>2. Min(old) \in old /\ Max(old) \in old BY <2>1, <1>1, <1>4, MinIs, MaxIs
  <2>3. Min(old) \in Nat /\ Max(old) \in Nat BY <2>1, <2>2
  <2> DEFINE e == [Entry("clear") EXCEPT !.lo = Min(old), !.hi = Max(old)]
  <2>4. e \in Entries /\ e.k = "clear" BY <2>3 DEF Entry, Entries, Kinds
  <2>5. Clearing(l) = <<e>> BY <1>2, <1>4
  <2>q. QED BY <2>4, <2>5
<1>q. QED BY <1>3, <1>4

LEMMA ClearingGoesOn ==
  ASSUME NEW l \in Seq(Entries), Clearing(l) # <<>>
  PROVE  /\ l \o Clearing(l) \in Seq(Entries) /\ GoesOnAs(l, l \o Clearing(l))
         /\ NewIn(l, l \o Clearing(l)) = {"clear"}
<1>1. PICK e \in Entries : e.k = "clear" /\ Clearing(l) = <<e>> BY ClearingIs
<1>2. l \o <<e>> \in Seq(Entries) /\ GoesOnAs(l, l \o <<e>>) /\ NewIn(l, l \o <<e>>) = {e.k} BY OneEntry
<1>q. QED BY <1>1, <1>2

(* Results are stubbed, or not; and the loop is at the top.                *)
LEMMA ClearStep ==
  ASSUME ViewInv, at \in {"calls", "summarising"}, at' = "top",
         events' = events \/ events' = events \o Clearing(events), Len(events') <= MaxView,
         sent' = IF events' = events THEN sent ELSE NothingSent, range' \in Nat \X Nat,
         UNCHANGED <<begun, note, pending, hooked, others, mishaps>>
  PROVE  ViewInv'
<1>1. CASE events' = events
  <2>1. ViewTypes' BY <1>1, ViewInvIs DEF ViewTypes
  <2>2. SentFits(events', sent', begun') BY <1>1, ViewInvIs
  <2>3. HookFits(events', at', hooked', pending') BY DEF HookFits
  <2>4. BlockFits(events', at', mishaps'.block) BY <1>1, ViewInvIs DEF BlockFits
  <2>5. CoverFits(events', at', range') BY <1>1, ViewInvIs DEF CoverFits
  <2>6. RemindFits(events', at', hooked', pending', mishaps'.reminder) BY <1>1, ViewInvIs DEF RemindFits
  <2>7. WholeFits(events', at', hooked', sent', mishaps'.block) BY DEF WholeFits
  <2>q. QED BY <2>1, <2>2, <2>3, <2>4, <2>5, <2>6, <2>7 DEF ViewInv, ViewFits
<1>2. CASE events' # events
  <2>0. events' = events \o Clearing(events) /\ events \in Seq(Entries) BY <1>2, ViewInvIs
  <2>1. Clearing(events) # <<>> BY <2>0, <1>2
  <2>3. events' \in Seq(Entries) /\ GoesOnAs(events, events') /\ NewIn(events, events') = {"clear"}
    BY <2>0, <2>1, ClearingGoesOn
  <2>4. ViewTypes' BY <2>3, ViewInvIs DEF ViewTypes
  <2>5. sent' = NothingSent BY <1>2
  <2>6. SentFits(events', sent', begun') BY <2>5 DEF SentFits
  <2>7. HookFits(events', at', hooked', pending') BY DEF HookFits
  <2>8. BlockFits(events', at', mishaps'.block)
    <3>1. BlockFits(events, "top", mishaps.block) BY ViewInvIs DEF BlockFits
    <3>q. QED BY <2>0, <2>3, <3>1, PutBackKeeps
  <2>9. CoverFits(events', at', range')
    <3>1. CoverFits(events, "top", range') BY ViewInvIs DEF CoverFits
    <3>q. QED BY <2>0, <2>3, <3>1, CoverKeeps
  <2>10. RemindFits(events', at', hooked', pending', mishaps'.reminder)
    <3>1. RemindFits(events, "top", hooked, pending, mishaps.reminder) BY ViewInvIs DEF RemindFits
    <3>2. NewIn(events, events') \cap ({"reminder"} \cup Touches) = {} BY <2>3 DEF Touches
    <3>q. QED BY <2>0, <2>3, <3>1, <3>2, RemindKeeps
  <2>11. WholeFits(events', at', hooked', sent', mishaps'.block) BY DEF WholeFits
  <2>q. QED BY <2>4, <2>6, <2>7, <2>8, <2>9, <2>10, <2>11 DEF ViewInv, ViewFits
<1>q. QED BY <1>1, <1>2

LEMMA ClearResultsStep == ASSUME ViewInv, ClearResults PROVE ViewInv'
<1>1. /\ at = "calls" /\ at' = "top" /\ AppendAll(Clearing(events))
      /\ sent' = IF events' = events THEN sent ELSE NothingSent
      /\ UNCHANGED <<begun, note, pending, hooked, range, others, mishaps>>
  BY DEF ClearResults
<1>2. events' = events \o Clearing(events) /\ Len(events) + Len(Clearing(events)) <= MaxView BY <1>1 DEF AppendAll
<1>3. Len(events') = Len(events) + Len(Clearing(events))
  <2>1. Clearing(events) \in Seq(Entries)
    <3>1. CASE Clearing(events) = <<>> BY <3>1
    <3>2. CASE \E e \in Entries : e.k = "clear" /\ Clearing(events) = <<e>> BY <3>2
    <3>q. QED BY <3>1, <3>2, ClearingIs, ViewInvIs
  <2>q. QED BY <1>2, <2>1, ViewInvIs
<1>q. QED BY <1>1, <1>2, <1>3, ViewInvIs, ClearStep

LEMMA SummaryFailsStep == ASSUME ViewInv, SummaryFails PROVE ViewInv'
<1>1. /\ at = "summarising" /\ at' = "top"
      /\ events' \in {events, events \o Clearing(events)} /\ Len(events') <= MaxView
      /\ range' = <<0, 0>> /\ sent' = IF events' = events THEN sent ELSE NothingSent
      /\ UNCHANGED <<begun, note, pending, hooked, others, mishaps>>
  BY DEF SummaryFails
<1>q. QED BY <1>1, ClearStep

LEMMA SummaryWrittenStep == ASSUME ViewInv, SummaryWritten PROVE ViewInv'
<1> DEFINE e == [Entry("summary") EXCEPT !.lo = range[1], !.hi = range[2]]
<1>1. /\ at = "summarising" /\ at' = "summarised" /\ AppendOne(e) /\ range' = <<0, 0>> /\ sent' = NothingSent
      /\ UNCHANGED <<begun, note, pending, hooked, others, mishaps>>
  BY DEF SummaryWritten
<1>2. e \in Entries /\ e.k = "summary" /\ e.lo = range[1] /\ e.hi = range[2]
  <2>1. range[1] \in Nat /\ range[2] \in Nat BY ViewInvIs
  <2>q. QED BY <2>1 DEF e, Entry, Entries, Kinds
<1> HIDE DEF e
<1> DEFINE n == Len(events)
<1>3. /\ events \in Seq(Entries) /\ events' \in Seq(Entries) /\ Len(events') <= MaxView
      /\ Len(events') = n + 1 /\ events'[n + 1] = e /\ n \in Nat
      /\ GoesOnAs(events, events') /\ NewIn(events, events') = {"summary"}
  BY <1>1, <1>2, LoggedIs, ViewInvIs
<1>4. ViewTypes' BY <1>1, <1>3, ViewInvIs DEF ViewTypes
<1>5. SentFits(events', sent', begun') BY <1>1 DEF SentFits
<1>6. HookFits(events', at', hooked', pending') BY <1>1 DEF HookFits
<1>7. Summed(events') = n + 1
  <2>1. /\ Where(events', {"summary"}) \in SUBSET (1 .. n + 1)
        /\ n + 1 \in Where(events', {"summary"})
    BY <1>2, <1>3, WhereIs
  <2>2. n + 1 \in Nat /\ \A i \in Where(events', {"summary"}) : i <= n + 1 BY <2>1, <1>3
  <2>3. LastOf(Where(events', {"summary"})) = n + 1 BY <2>1, <2>2, LastIsOne
  <2>q. QED BY <2>3 DEF Summed
<1>8. CompactedThrough(events') = range[2] BY <1>2, <1>3, <1>7, CompactedIs
<1>9. BlockFits(events', at', mishaps'.block)
  <2>1. ASSUME NEW i \in Where(events', {"prompt"}) PROVE i < n + 1
    <3>1. i \in 1 .. n + 1 /\ events'[i].k = "prompt" BY <2>1, <1>3, WhereIs
    <3>2. i # n + 1 BY <3>1, <1>2, <1>3
    <3>q. QED BY <3>1, <3>2, <1>3
  <2>q. QED BY <2>1, <1>1, <1>3, <1>7 DEF BlockFits
<1>10. CoverFits(events', at', range')
  <2>1. /\ range[1] = CompactedThrough(events) + 1 /\ range[2] <= n
        /\ \A i \in Where(events, Spoken) : i <= range[2]
        /\ \A i \in Where(events, Spoken) : i <= CompactedThrough(events) => InSummary(events, i)
    BY <1>1, ViewInvIs DEF CoverFits
  <2>2. Where(events', Spoken) = Where(events, Spoken)
    <3>1. NewIn(events, events') \cap Spoken = {} BY <1>3 DEF Spoken, LogResults
    <3>q. QED BY <1>3, <3>1, WhereGrows
  <2>3. ASSUME NEW i \in Where(events, Spoken) PROVE i <= range[2] /\ InSummary(events', i)
    <3>0. i \in 1 .. n BY <1>3, WhereIs
    <3>1. CASE i <= CompactedThrough(events) BY <3>1, <2>1, <1>3, InSummaryGrows
    <3>2. CASE ~(i <= CompactedThrough(events))
      <4>1. range[1] <= i BY <3>2, <2>1, <3>0, <1>3, CompactedIs
      <4>2. n + 1 \in Where(events', {"summary"}) BY <1>2, <1>3, WhereIs
      <4>3. events'[n + 1].lo <= i /\ i <= events'[n + 1].hi BY <4>1, <2>1, <1>2, <1>3
      <4>q. QED BY <4>2, <4>3, <2>1 DEF InSummary
    <3>q. QED BY <3>1, <3>2, <2>1
  <2>4. range[2] \in Nat BY ViewInvIs
  <2>q. QED BY <2>1, <2>2, <2>3, <2>4, <1>1, <1>3, <1>8 DEF CoverFits
<1>11. RemindFits(events', at', hooked', pending', mishaps'.reminder)
  <2>1. RemindFits(events, "summarised", hooked, pending, mishaps.reminder) BY <1>1, ViewInvIs DEF RemindFits
  <2>2. NewIn(events, events') \cap ({"reminder"} \cup Touches) = {} BY <1>3 DEF Touches
  <2>q. QED BY <1>1, <1>3, <2>1, <2>2, RemindKeeps
<1>12. WholeFits(events', at', hooked', sent', mishaps'.block) BY <1>1 DEF WholeFits
<1>q. QED BY <1>1, <1>4, <1>5, <1>6, <1>9, <1>10, <1>11, <1>12 DEF ViewInv, ViewFits

LEMMA AfterCompactionStep == ASSUME ViewInv, AfterCompaction PROVE ViewInv'
<1>0. /\ at = "summarised" /\ at' = "top" /\ UNCHANGED <<begun, note, pending, hooked, range, sent, others>>
  BY DEF AfterCompaction
<1> DEFINE P == LastOf(Where(events, {"prompt"}))
<1>1. PICK cut \in {{}, {"prompt"}} :
       /\ cut # {} => mishaps.n < MaxMishaps
       /\ AppendOne([Entry("prefix") EXCEPT !.mods = {"skills", "clock", "memory", "prompt"} \ cut, !.hi = P])
       /\ mishaps' = [mishaps EXCEPT !.n = IF cut = {} THEN @ ELSE @ + 1, !.block = cut # {}]
  BY DEF AfterCompaction
<1> DEFINE e == [Entry("prefix") EXCEPT !.mods = {"skills", "clock", "memory", "prompt"} \ cut, !.hi = P]
<1>2. P \in Nat BY WhereIs, ViewInvIs
<1> HIDE DEF P
<1>3. e \in Entries /\ e.k = "prefix" /\ e.mods = {"skills", "clock", "memory", "prompt"} \ cut /\ e.hi = P
  <2>1. {"skills", "clock", "memory", "prompt"} \ cut \in SUBSET {"skills", "clock", "memory", "prompt"} OBVIOUS
  <2>q. QED BY <1>2, <2>1 DEF e, Entry, Entries, Kinds
<1> HIDE DEF e
<1> DEFINE n == Len(events)
<1>4. /\ events \in Seq(Entries) /\ events' \in Seq(Entries) /\ Len(events') <= MaxView
      /\ Len(events') = n + 1 /\ events'[n + 1] = e /\ n \in Nat
      /\ GoesOnAs(events, events') /\ NewIn(events, events') = {"prefix"}
  <2>1. AppendOne(e) BY <1>1 DEF e
  <2>q. QED BY <2>1, <1>3, LoggedIs, ViewInvIs
<1>5. mishaps \in [n : 0 .. MaxMishaps, block : BOOLEAN, reminder : BOOLEAN] BY ViewInvIs DEF ViewTypes
<1>6. mishaps' \in [n : 0 .. MaxMishaps, block : BOOLEAN, reminder : BOOLEAN] /\ mishaps'.reminder = mishaps.reminder
  <2>1. (IF cut = {} THEN mishaps.n ELSE mishaps.n + 1) \in 0 .. MaxMishaps BY <1>1, <1>5, ViewBounds
  <2>q. QED BY <2>1, <1>1, <1>5
<1>7. mishaps'.block <=> cut # {}
  <2>1. mishaps' = [mishaps EXCEPT !.n = IF cut = {} THEN @ ELSE @ + 1, !.block = cut # {}] BY <1>1
  <2>2. mishaps'.block = (cut # {}) BY <2>1, <1>5
  <2>q. QED BY <2>2, Zenon
<1>8. ViewTypes' BY <1>0, <1>4, <1>6, ViewInvIs DEF ViewTypes
<1>9. sent' = NothingSent BY <1>0, ViewInvIs
<1>10. SentFits(events', sent', begun') BY <1>9 DEF SentFits
<1>11. HookFits(events', at', hooked', pending') BY <1>0 DEF HookFits
<1>12. Summed(events') = Summed(events) /\ Summed(events) \in 0 .. n BY <1>4, SummedGrows, SummedIs
<1>13. BlockFits(events', at', mishaps'.block)
  <2>1. ASSUME cut = {} PROVE HasPrompt(events', Summed(events'), n + 1)
    <3>1. \A i \in Where(events, {"prompt"}) : i < Summed(events) BY <1>0, ViewInvIs DEF BlockFits
    <3>2. Where(events', {"prompt"}) = Where(events, {"prompt"})
      <4>1. NewIn(events, events') \cap {"prompt"} = {} BY <1>4
      <4>q. QED BY <4>1, <1>4, WhereGrows
    <3>3. PromptsBefore(events', Summed(events')) = Where(events, {"prompt"})
      BY <3>1, <3>2, <1>12 DEF PromptsBefore
    <3>4. e.hi = LastOf(PromptsBefore(events', Summed(events'))) BY <3>3, <1>3 DEF P
    <3>5. n + 1 > Summed(events') BY <1>12, <1>4
    <3>q. QED BY <2>1, <3>4, <3>5, <1>3, <1>4 DEF HasPrompt
  <2>2. n + 1 \in 1 .. Len(events') BY <1>4
  <2>3. cut = {} => PutBack(events') BY <2>1, <2>2 DEF PutBack
  <2>q. QED BY <2>3, <1>0, <1>7 DEF BlockFits
<1>14. CoverFits(events', at', range')
  <2>1. CoverFits(events, "top", range) BY <1>0, ViewInvIs DEF CoverFits
  <2>q. QED BY <1>0, <1>4, <2>1, ViewInvIs, CoverKeeps
<1>15. RemindFits(events', at', hooked', pending', mishaps'.reminder)
  <2>1. RemindFits(events, "top", hooked, pending, mishaps.reminder) BY <1>0, ViewInvIs DEF RemindFits
  <2>2. NewIn(events, events') \cap ({"reminder"} \cup Touches) = {} BY <1>4 DEF Touches
  <2>q. QED BY <1>0, <1>4, <1>6, <2>1, <2>2, RemindKeeps
<1>16. WholeFits(events', at', hooked', sent', mishaps'.block) BY <1>0 DEF WholeFits
<1>q. QED BY <1>0, <1>8, <1>10, <1>11, <1>13, <1>14, <1>15, <1>16 DEF ViewInv, ViewFits

-----------------------------------------------------------------------------
(* The request. *)
LEMMA ShownIs ==
  ASSUME NEW l \in Seq(Entries), NEW st, st.body = BodyOf(l, Summed(l), Len(l))
  PROVE  IF InView(l) = 0 THEN Shown(l, st) = {}
         ELSE Shown(l, st) # {} /\ st.body[Max(Shown(l, st))].i = InView(l)
<1> DEFINE S == SaidIn(l, Summed(l), Len(l))
           v == InView(l)
<1>0. Len(l) \in Nat OBVIOUS
<1>1. /\ DOMAIN st.body = 1 .. Cardinality(S) /\ Cardinality(S) \in Nat
      /\ \A p \in DOMAIN st.body : st.body[p].i \in S
      /\ \A i \in S : \E p \in DOMAIN st.body : st.body[p].i = i
      /\ \A p, q \in DOMAIN st.body : p < q => st.body[p].i < st.body[q].i
  BY <1>0, BodyIs
<1>2. \A i : i \in S <=> i \in 1 .. Len(l) /\ i > Summed(l) /\ l[i].k \in Spoken \cup {"notes", "reminder"}
  BY DEF SaidIn
<1>3. /\ v \in 0 .. Len(l) /\ (v # 0 => l[v].k = "notes" /\ v > Summed(l))
      /\ \A i \in 1 .. Len(l) : l[i].k = "notes" /\ i > Summed(l) => i <= v /\ v # 0
  BY InViewIs
<1> HIDE DEF S, v
<1>4. \A p \in Shown(l, st) : p \in DOMAIN st.body /\ st.body[p].i <= v /\ v # 0 BY <1>1, <1>2, <1>3 DEF Shown
<1>5. CASE v = 0
  <2>1. Shown(l, st) = {} BY <1>4, <1>5
  <2>q. QED BY <2>1, <1>5 DEF v
<1>6. CASE v # 0
  <2>1. v \in S BY <1>2, <1>3, <1>6
  <2>2. PICK p \in DOMAIN st.body : st.body[p].i = v BY <2>1, <1>1
  <2>3. p \in Shown(l, st) BY <2>2, <1>3, <1>6 DEF Shown
  <2>4. Shown(l, st) \in SUBSET (0 .. Cardinality(S)) BY <1>1, <1>4
  <2> DEFINE M == Max(Shown(l, st))
  <2>5. M \in Shown(l, st) /\ p <= M BY <2>3, <2>4, <1>1, MaxIs
  <2> HIDE DEF M
  <2>6. M \in DOMAIN st.body /\ st.body[M].i <= v /\ st.body[M].i \in Nat
    <3>1. M \in DOMAIN st.body /\ st.body[M].i <= v BY <2>5, <1>4
    <3>2. st.body[M].i \in S BY <3>1, <1>1
    <3>3. st.body[M].i \in Nat BY <3>2, <1>0, <1>2
    <3>q. QED BY <3>1, <3>3
  <2>7. ~(p < M) BY <2>2, <2>6, <1>1, <1>3
  <2>8. p = M BY <2>5, <2>6, <2>7, <2>2, <1>1
  <2>q. QED BY <2>2, <2>3, <2>8, <1>6 DEF v, M
<1>q. QED BY <1>5, <1>6

(* A request made of a log shows what it ought to, when the notes in view  *)
(* are what the hooks read.                                                *)
LEMMA RequestIsWhole ==
  ASSUME NEW l \in Seq(Entries), NEW h, NEW st, NEW cut, NEW rg,
         st # NothingSent, st.upto = Len(l), st.body = BodyOf(l, Summed(l), Len(l)),
         st.prefix = {i \in 1 .. Len(l) : l[i].k = "prefix" /\ i > Summed(l)},
         ~Differs(l, h.notes), Where(l, {"prompt"}) # {},
         BlockFits(l, "model", cut), CoverFits(l, "model", rg)
  PROVE  WholeFits(l, "model", h, st, cut)
<1> DEFINE S == SaidIn(l, Summed(l), Len(l))
<1>0. Len(l) \in Nat /\ Summed(l) \in 0 .. Len(l) BY SummedIs
<1>1. \A i \in S : Includes(l, st, i)
  <2>1. \A i \in S : \E p \in DOMAIN st.body : st.body[p].i = i BY <1>0, BodyIs
  <2>q. QED BY <2>1 DEF Includes
<1>2. \A i : i \in S <=> i \in 1 .. Len(l) /\ i > Summed(l) /\ l[i].k \in Spoken \cup {"notes", "reminder"}
  BY DEF SaidIn
<1> HIDE DEF S
<1>3. h.notes = IF Shown(l, st) = {} THEN 0 ELSE l[st.body[Max(Shown(l, st))].i].notes
  BY ShownIs DEF Differs
<1> DEFINE P == LastPrompt(l, st)
<1>4. /\ P \in Where(l, {"prompt"}) /\ P \in 1 .. Len(l) /\ l[P].k = "prompt"
      /\ P = LastOf(Where(l, {"prompt"})) /\ \A i \in Where(l, {"prompt"}) : i <= P
  <2>1. Where(l, {"prompt"}) \in SUBSET (1 .. Len(l)) BY WhereIs
  <2>2. {i \in Where(l, {"prompt"}) : i <= st.upto} = Where(l, {"prompt"}) BY <2>1, <1>0
  <2>3. P = LastOf(Where(l, {"prompt"})) BY <2>2 DEF LastPrompt
  <2> HIDE DEF P
  <2>4. P \in Where(l, {"prompt"}) \cup {0} /\ \A i \in Where(l, {"prompt"}) : i <= P /\ P # 0
    BY <2>1, <2>3, <1>0, LastIs
  <2>5. P \in Where(l, {"prompt"}) BY <2>4
  <2>q. QED BY <2>3, <2>4, <2>5, WhereIs
<1> HIDE DEF P
<1>5. \/ Includes(l, st, P)
      \/ \E i \in st.prefix : "prompt" \in l[i].mods /\ l[i].hi = P
      \/ cut
  <2>1. CASE P > Summed(l)
    <3>1. P \in S BY <1>2, <1>4, <2>1 DEF Spoken
    <3>q. QED BY <3>1, <1>1
  <2>2. CASE ~(P > Summed(l)) /\ ~cut
    <3>1. Summed(l) # 0 BY <2>2, <1>0, <1>4
    <3>2. Summed(l) # P BY <3>1, <1>4, SummedIs
    <3>3. P < Summed(l) BY <3>2, <2>2, <1>0, <1>4
    <3>4. PutBack(l) BY <3>1, <2>2 DEF BlockFits
    <3>5. PICK i \in 1 .. Len(l) : HasPrompt(l, Summed(l), i) BY <3>4 DEF PutBack
    <3>6. \A j \in Where(l, {"prompt"}) : j < Summed(l)
      <4>1. Where(l, {"prompt"}) \in SUBSET (1 .. Len(l)) BY WhereIs
      <4>q. QED BY <4>1, <3>3, <1>0, <1>4
    <3>7. PromptsBefore(l, Summed(l)) = Where(l, {"prompt"}) BY <3>6 DEF PromptsBefore
    <3>8. i \in st.prefix /\ "prompt" \in l[i].mods /\ l[i].hi = P BY <3>5, <3>7, <1>4 DEF HasPrompt
    <3>q. QED BY <3>8
  <2>q. QED BY <2>1, <2>2
<1>6. ASSUME NEW i \in Where(l, Spoken) PROVE Includes(l, st, i) \/ InSummary(l, i)
  <2>1. i \in 1 .. Len(l) /\ l[i].k \in Spoken BY WhereIs
  <2>2. CASE i > Summed(l)
    <3>1. i \in S BY <2>1, <2>2, <1>2
    <3>q. QED BY <3>1, <1>1
  <2>3. CASE ~(i > Summed(l))
    <3>1. i <= Summed(l) BY <2>3, <2>1, <1>0
    <3>q. QED BY <3>1 DEF CoverFits
  <2>q. QED BY <2>2, <2>3
<1>q. QED BY <1>3, <1>5, <1>6 DEF WholeFits, P

(* What the hooks had to say is logged.                                    *)
LEMMA HooksLogged ==
  ASSUME ViewInv, Request
  PROVE  /\ events' \in Seq(Entries) /\ Len(events') <= MaxView /\ GoesOnAs(events, events')
         /\ NewIn(events, events') \subseteq {"notes", "reminder"}
         /\ ~Differs(events', hooked.notes)
         /\ \A i, j \in Where(events', {"reminder"}) : i = j
         /\ hooked.reminders = 1 => Where(events', {"reminder"}) # {}
<1> DEFINE nt == IF hooked.shows THEN <<[Entry("notes") EXCEPT !.notes = hooked.notes]>> ELSE <<>>
           rm == [i \in 1 .. hooked.reminders |-> Entry("reminder")]
           n == Len(events)
           k == Len(nt)
           r == hooked.reminders
<1>1. /\ events \in Seq(Entries) /\ n \in Nat /\ hooked \in [notes : Notes, shows : BOOLEAN, reminders : 0 .. 1]
      /\ (hooked.shows <=> Differs(events, hooked.notes))
  BY ViewInvIs DEF ViewTypes, HookFits, Request
<1>2. events' = events \o (nt \o rm) /\ n + Len(nt \o rm) <= MaxView BY DEF Request, AppendAll
<1>3. hooked.notes \in Nat BY <1>1, ViewBounds DEF Notes, Torn
<1>4. [Entry("notes") EXCEPT !.notes = hooked.notes] \in Entries /\ Entry("reminder") \in Entries
  BY <1>3 DEF Entry, Entries, Kinds
<1>5. nt \in Seq(Entries) /\ k = (IF hooked.shows THEN 1 ELSE 0)
      /\ (k = 1 => nt[1].k = "notes" /\ nt[1].notes = hooked.notes)
  <2>1. CASE hooked.shows
    <3>1. nt = <<[Entry("notes") EXCEPT !.notes = hooked.notes]>> BY <2>1
    <3>2. [Entry("notes") EXCEPT !.notes = hooked.notes].k = "notes"
          /\ [Entry("notes") EXCEPT !.notes = hooked.notes].notes = hooked.notes BY DEF Entry
    <3>3. nt \in Seq(Entries) /\ Len(nt) = 1 /\ nt[1] = [Entry("notes") EXCEPT !.notes = hooked.notes]
      BY <3>1, <1>4, SeqOfOne
    <3> HIDE DEF nt
    <3>q. QED BY <3>2, <3>3, <2>1
  <2>2. CASE ~hooked.shows
    <3>1. nt = <<>> BY <2>2
    <3>q. QED BY <3>1, <2>2
  <2>q. QED BY <2>1, <2>2
<1>6. rm \in Seq(Entries) /\ Len(rm) = r /\ r \in 0 .. 1 /\ \A i \in 1 .. r : rm[i].k = "reminder"
  <2>1. r \in 0 .. 1 BY <1>1
  <2>2. r \in Nat BY <2>1
  <2>3. rm \in Seq(Entries) /\ Len(rm) = r BY <2>2, <1>4, SeqOfSame
  <2>4. \A i \in 1 .. r : rm[i].k = "reminder" BY DEF Entry
  <2>q. QED BY <2>1, <2>3, <2>4
<1> HIDE DEF nt, rm, n, k, r
<1>7. /\ events' \in Seq(Entries) /\ Len(events') = n + k + r /\ Len(events') <= MaxView /\ k \in 0 .. 1
      /\ \A i \in 1 .. n : events'[i] = events[i]
      /\ \A i \in 1 .. k : events'[n + i] = nt[i]
      /\ \A i \in 1 .. r : events'[n + k + i] = rm[i]
  <2> DEFINE es == nt \o rm
  <2>1. /\ es \in Seq(Entries) /\ Len(es) = k + r
        /\ (\A i \in 1 .. k : es[i] = nt[i]) /\ (\A i \in 1 .. r : es[k + i] = rm[i])
    BY <1>5, <1>6, TwoParts DEF k
  <2>2. k \in 0 .. 1 /\ r \in 0 .. 1 BY <1>5, <1>6
  <2> HIDE DEF es
  <2>3. events' = events \o es BY <1>2 DEF es
  <2>4. /\ events' \in Seq(Entries) /\ Len(events') = n + Len(es)
        /\ (\A i \in 1 .. n : events'[i] = events[i]) /\ (\A i \in 1 .. Len(es) : events'[n + i] = es[i])
    <3>1. events \in Seq(Entries) /\ es \in Seq(Entries) BY <1>1, <2>1
    <3>2. /\ events' \in Seq(Entries) /\ Len(events') = Len(events) + Len(es)
          /\ (\A i \in 1 .. Len(events) : events'[i] = events[i])
          /\ (\A i \in 1 .. Len(es) : events'[Len(events) + i] = es[i])
      BY <3>1, <2>3, TwoParts
    <3>q. QED BY <3>2 DEF n
  <2>5. \A i \in 1 .. k : events'[n + i] = nt[i] BY <2>1, <2>2, <2>4
  <2>6. \A i \in 1 .. r : events'[n + k + i] = rm[i]
    <3>1. \A i \in 1 .. r : k + i \in 1 .. Len(es) /\ n + (k + i) = n + k + i BY <2>1, <2>2, <1>1
    <3>2. \A i \in 1 .. r : events'[n + (k + i)] = es[k + i] BY <3>1, <2>4
    <3>q. QED BY <3>1, <3>2, <2>1
  <2>7. Len(events') <= MaxView BY <1>2, <2>4 DEF es
  <2>q. QED BY <2>1, <2>2, <2>4, <2>5, <2>6, <2>7, <1>1
<1>8. GoesOnAs(events, events') BY <1>1, <1>5, <1>6, <1>7 DEF GoesOnAs, n
<1>9. ASSUME NEW i \in (n + 1) .. (n + k + r)
      PROVE  \/ k = 1 /\ i = n + 1 /\ events'[i].k = "notes" /\ events'[i].notes = hooked.notes
             \/ r = 1 /\ i = n + k + 1 /\ events'[i].k = "reminder"
  <2>1. k = 0 \/ k = 1 BY <1>7
  <2>2. r = 0 \/ r = 1 BY <1>6
  <2>3. (k = 1 /\ i = n + 1) \/ (r = 1 /\ i = n + k + 1) BY <2>1, <2>2, <1>1
  <2>4. k = 1 => events'[n + 1] = nt[1] BY <1>7
  <2>5. r = 1 => events'[n + k + 1] = rm[1] /\ rm[1].k = "reminder" BY <1>6, <1>7
  <2>q. QED BY <2>3, <2>4, <2>5, <1>5
<1>10. NewIn(events, events') \subseteq {"notes", "reminder"} BY <1>7, <1>9 DEF NewIn, n
<1>11. "summary" \notin NewIn(events, events') BY <1>10
<1>12. Summed(events') = Summed(events) /\ Summed(events) \in 0 .. n
  BY <1>1, <1>7, <1>8, <1>11, SummedGrows, SummedIs DEF n
<1>13. ~Differs(events', hooked.notes)
  <2>1. CASE k = 0
    <3>1. \A i \in (n + 1) .. (n + k + r) : events'[i].k = "reminder" BY <2>1, <1>9
    <3>2. "notes" \notin NewIn(events, events') BY <3>1, <1>7 DEF NewIn, n
    <3>3. ~Differs(events, hooked.notes) BY <2>1, <1>1, <1>5
    <3>q. QED BY <3>2, <3>3, <1>1, <1>7, <1>8, <1>11, InViewGrows
  <2>2. CASE k = 1
    <3>1. n + 1 \in 1 .. Len(events') /\ events'[n + 1].k = "notes" /\ events'[n + 1].notes = hooked.notes
      BY <2>2, <1>1, <1>5, <1>6, <1>7
    <3>2. n + 1 > Summed(events') BY <1>12, <1>1
    <3>3. /\ InView(events') \in 0 .. Len(events') /\ (InView(events') # 0 => events'[InView(events')].k = "notes")
          /\ n + 1 <= InView(events') /\ InView(events') # 0
      BY <3>1, <3>2, <1>7, InViewIs
    <3>4. InView(events') \in (n + 1) .. (n + k + r) BY <3>3, <1>7, <1>1
    <3>5. InView(events') = n + 1 BY <3>3, <3>4, <1>9
    <3>q. QED BY <3>1, <3>3, <3>5 DEF Differs
  <2>q. QED BY <2>1, <2>2, <1>7
<1>14. /\ \A i, j \in Where(events', {"reminder"}) : i = j
       /\ r = 1 => Where(events', {"reminder"}) # {}
  <2>1. /\ \A i, j \in Where(events, {"reminder"}) : i = j
        /\ r = 1 => Where(events, {"reminder"}) = {}
    BY ViewInvIs DEF RemindFits, Request, r
  <2>2. \A i \in Where(events', {"reminder"}) : i \in 1 .. (n + k + r) /\ events'[i].k = "reminder"
    BY <1>7, WhereIs
  <2>3. \A i \in Where(events', {"reminder"}) : i <= n => i \in Where(events, {"reminder"})
    BY <1>1, <1>7, <1>8, WhereGrows DEF n
  <2>4. \A i \in Where(events', {"reminder"}) : i > n => r = 1 /\ i = n + k + 1
    <3>1. \A i \in Where(events', {"reminder"}) : i > n => i \in (n + 1) .. (n + k + r)
      BY <2>2, <1>1, <1>6, <1>7
    <3>q. QED BY <3>1, <2>2, <1>9
  <2>5. \A i, j \in Where(events', {"reminder"}) : i = j BY <2>1, <2>2, <2>3, <2>4, <1>1
  <2>6. ASSUME r = 1 PROVE n + k + 1 \in Where(events', {"reminder"})
    <3>1. n + k + 1 \in 1 .. Len(events') BY <2>6, <1>1, <1>7
    <3>2. events'[n + k + 1] = rm[1] /\ rm[1].k = "reminder" BY <2>6, <1>6, <1>7
    <3>q. QED BY <3>1, <3>2, <1>7, WhereIs
  <2>q. QED BY <2>5, <2>6
<1>q. QED BY <1>7, <1>8, <1>10, <1>13, <1>14 DEF r

(* The request itself is what the log gives.                               *)
LEMMA RequestIs ==
  ASSUME NEW l \in Seq(Entries), l # <<>>, NEW b \in BOOLEAN, NEW st,
         st = LET a == Assembled(l)
              IN  [prefix |-> a.prefix, summary |-> a.summary, body |-> a.body, vetoes |-> a.vetoes,
                   upto |-> Len(l), begun |-> b]
  PROVE  /\ st # NothingSent /\ st.upto = Len(l) /\ st.begun = b /\ st.summary = Summed(l)
         /\ st.body = BodyOf(l, Summed(l), Len(l))
         /\ st.prefix = {i \in 1 .. Len(l) : l[i].k = "prefix" /\ i > Summed(l)}
         /\ st.vetoes = VetoesIn(l, Len(l))
<1> DEFINE S == SaidIn(l, Summed(l), Len(l))
<1>0. Len(l) \in Nat /\ DOMAIN l = 1 .. Len(l) /\ Len(l) # 0 OBVIOUS
<1>1. st.prefix = {i \in Where(l, {"prefix"}) : i > Summed(l)} /\ st.summary = Summed(l) /\ st.body = Since(l)
      /\ st.upto = Len(l) /\ st.begun = b /\ st.vetoes = OutstandingVetoes(l)
  BY DEF Assembled, Conversation, Summed
<1>2. InTurn(l, Summed(l)) = S BY <1>0 DEF InTurn, SaidIn
<1>3. Since(l) = [p \in DOMAIN InOrder(S) |-> [i |-> InOrder(S)[p], stub |-> IsCleared(l, InOrder(S)[p])]]
  BY <1>2 DEF Since, Summed
<1>4. DOMAIN InOrder(S) = 1 .. Cardinality(S) BY DEF InOrder
<1>5. Since(l) = BodyOf(l, Summed(l), Len(l)) BY <1>3, <1>4 DEF BodyOf
<1>6. st.upto # NothingSent.upto BY <1>0, <1>1 DEF NothingSent
<1>7. \A i : i \in Where(l, {"prefix"}) <=> i \in 1 .. Len(l) /\ l[i].k = "prefix" BY WhereIs
<1>8. OutstandingVetoes(l) = VetoesIn(l, Len(l))
  <2>1. \A i : i \in Where(l, {"veto"}) <=> i \in 1 .. Len(l) /\ l[i].k = "veto" BY WhereIs
  <2>2. \A i : i \in Where(l, Replies) <=> i \in 1 .. Len(l) /\ l[i].k \in Replies BY WhereIs
  <2>q. QED BY <2>1, <2>2 DEF OutstandingVetoes, VetoesIn
<1>q. QED BY <1>1, <1>5, <1>6, <1>7, <1>8

LEMMA RequestStep == ASSUME ViewInv, Request PROVE ViewInv'
<1>1. /\ at = "hooked" /\ at' = "model"
      /\ sent' = LET a == Assembled(events')
                 IN  [prefix |-> a.prefix, summary |-> a.summary, body |-> a.body, vetoes |-> a.vetoes,
                      upto |-> Len(events'), begun |-> begun]
      /\ UNCHANGED <<begun, note, pending, hooked, range, others, mishaps>>
  BY DEF Request
<1>2. /\ events' \in Seq(Entries) /\ Len(events') <= MaxView /\ GoesOnAs(events, events')
      /\ NewIn(events, events') \subseteq {"notes", "reminder"}
      /\ ~Differs(events', hooked.notes)
      /\ \A i, j \in Where(events', {"reminder"}) : i = j
      /\ hooked.reminders = 1 => Where(events', {"reminder"}) # {}
  BY HooksLogged
<1>3. events \in Seq(Entries) /\ begun \in BOOLEAN /\ range \in Nat \X Nat BY ViewInvIs DEF ViewTypes
<1>4. ViewTypes' BY <1>1, <1>2, ViewInvIs DEF ViewTypes
<1>5. pending = 0 /\ Where(events', {"prompt"}) # {}
  <2>1. pending = 0 /\ Where(events, {"prompt"}) # {} BY <1>1, ViewInvIs DEF HookFits
  <2>2. Where(events, {"prompt"}) \subseteq Where(events', {"prompt"}) BY <1>2, <1>3, WhereGrows
  <2>q. QED BY <2>1, <2>2
<1>6. Len(events') \in Nat /\ Len(events') # 0 /\ events' # <<>>
  <2>1. Len(events') \in Nat /\ Where(events', {"prompt"}) \in SUBSET (1 .. Len(events')) BY <1>2, WhereIs
  <2>2. Len(events') # 0 BY <2>1, <1>5
  <2>q. QED BY <2>1, <2>2
<1>7. /\ sent' # NothingSent /\ sent'.upto = Len(events') /\ sent'.begun = begun /\ sent'.summary = Summed(events')
      /\ sent'.body = BodyOf(events', Summed(events'), Len(events'))
      /\ sent'.prefix = {i \in 1 .. Len(events') : events'[i].k = "prefix" /\ i > Summed(events')}
      /\ sent'.vetoes = VetoesIn(events', Len(events'))
  BY <1>1, <1>2, <1>3, <1>6, RequestIs
<1>8. SentFits(events', sent', begun') BY <1>1, <1>6, <1>7 DEF SentFits
<1>9. HookFits(events', at', hooked', pending') BY <1>1, <1>5 DEF HookFits
<1>10. BlockFits(events', "model", mishaps.block)
  <2>1. BlockFits(events, "model", mishaps.block) BY <1>1, ViewInvIs DEF BlockFits
  <2>q. QED BY <1>2, <1>3, <2>1, PutBackKeeps
<1>11. CoverFits(events', "model", range)
  <2>1. CoverFits(events, "model", range) BY <1>1, ViewInvIs DEF CoverFits
  <2>q. QED BY <1>2, <1>3, <2>1, CoverKeeps
<1>12. RemindFits(events', at', hooked', pending', mishaps'.reminder)
  <2>1. Where(events', Touches) = Where(events, Touches)
    <3>1. NewIn(events, events') \cap Touches = {} BY <1>2 DEF Touches
    <3>q. QED BY <1>2, <1>3, <3>1, WhereGrows
  <2>2. Settled(events) => Settled(events')
    <3>1. Where(events, {"load", "reminder"}) \subseteq Where(events', {"load", "reminder"})
      BY <1>2, <1>3, WhereGrows
    <3>q. QED BY <3>1 DEF Settled
  <2>3. hooked.reminders = 1 => Settled(events') BY <1>2 DEF Settled, Where
  <2>4. Where(events, Touches) # {} => Settled(events) \/ hooked.reminders = 1 \/ mishaps.reminder
    BY <1>1, <1>5, ViewInvIs DEF RemindFits
  <2>q. QED BY <1>1, <1>2, <1>5, <2>1, <2>2, <2>3, <2>4 DEF RemindFits
<1>13. WholeFits(events', "model", hooked, sent', mishaps.block)
  BY <1>2, <1>5, <1>7, <1>10, <1>11, RequestIsWhole
<1>q. QED BY <1>1, <1>4, <1>8, <1>9, <1>10, <1>11, <1>12, <1>13 DEF ViewInv, ViewFits

LEMMA ViewInitFits == ViewInit => ViewInv
<1> SUFFICES ASSUME ViewInit PROVE ViewInv OBVIOUS
<1>1. /\ events = <<>> /\ at = "top" /\ begun = FALSE /\ note = 0 /\ pending = 0 /\ hooked = NothingHooked
      /\ range = <<0, 0>> /\ sent = NothingSent /\ others = [writing |-> FALSE, wrote |-> 0]
      /\ mishaps = [n |-> 0, block |-> FALSE, reminder |-> FALSE]
  BY DEF ViewInit
<1>2. hooked \in [notes : Notes, shows : BOOLEAN, reminders : 0 .. 1]
  BY <1>1, ViewBounds DEF NothingHooked, Notes, Torn
<1>3. events \in Seq(Entries) /\ Len(events) = 0 /\ note \in Notes BY <1>1, ViewBounds DEF Notes, Torn
<1>4. /\ mishaps \in [n : 0 .. MaxMishaps, block : BOOLEAN, reminder : BOOLEAN] /\ ~mishaps.block
      /\ others \in [writing : BOOLEAN, wrote : 0 .. MaxNotes]
  BY <1>1, ViewBounds
<1>a. range \in Nat \X Nat /\ begun \in BOOLEAN /\ pending \in 0 .. 1
      /\ at \in {"top", "hooked", "model", "calls", "summarising", "summarised"}
  <2>1. range = <<0, 0>> /\ begun = FALSE /\ pending = 0 /\ at = "top" BY <1>1
  <2>2. <<0, 0>> \in Nat \X Nat /\ 0 \in 0 .. 1 OBVIOUS
  <2>3. pending \in 0 .. 1 /\ range \in Nat \X Nat BY <2>1, <2>2
  <2>4. begun \in BOOLEAN BY <2>1
  <2>5. at \in {"top", "hooked", "model", "calls", "summarising", "summarised"} BY <2>1
  <2>q. QED BY <2>3, <2>4, <2>5
<1>b. Len(events) <= MaxView BY <1>3, ViewBounds
<1>5. ViewTypes BY <1>2, <1>3, <1>4, <1>a, <1>b DEF ViewTypes
<1>6. Summed(events) = 0 /\ CompactedThrough(events) = 0 /\ \A ks : Where(events, ks) = {}
  <2>0. events \in Seq(Entries) BY <1>3
  <2>s. Summed(events) \in 0 .. Len(events) BY <2>0, SummedIs
  <2>1. Summed(events) = 0 BY <2>s, <1>3
  <2>2. \A ks : Where(events, ks) = {}
    <3>1. ASSUME NEW ks PROVE Where(events, ks) = {}
      <4>1. Where(events, ks) \in SUBSET (1 .. 0) BY <1>3, WhereIs
      <4>q. QED BY <4>1
    <3>q. QED BY <3>1
  <2>q. QED BY <2>1, <2>2, <1>3, CompactedIs
<1>7. SentFits(events, sent, begun) BY <1>1 DEF SentFits
<1>8. HookFits(events, at, hooked, pending) BY <1>1 DEF HookFits
<1>9. BlockFits(events, at, mishaps.block) BY <1>1, <1>6 DEF BlockFits
<1>10. CoverFits(events, at, range) BY <1>1, <1>3, <1>6 DEF CoverFits
<1>11. RemindFits(events, at, hooked, pending, mishaps.reminder) BY <1>1, <1>6 DEF RemindFits
<1>12. WholeFits(events, at, hooked, sent, mishaps.block) BY <1>1 DEF WholeFits
<1>q. QED BY <1>1, <1>5, <1>7, <1>8, <1>9, <1>10, <1>11, <1>12 DEF ViewInv, ViewFits

LEMMA ViewStep == ViewInv /\ [ViewNext]_viewVars => ViewInv'
<1> SUFFICES ASSUME ViewInv, [ViewNext]_viewVars PROVE ViewInv' OBVIOUS
<1>0. CASE UNCHANGED viewVars BY <1>0, ViewInvIs DEF viewVars, ViewInv, ViewTypes, ViewFits
<1>1. CASE SessionStart BY <1>1, SessionStartStep
<1>2. CASE PromptWithID BY <1>2, PromptStep
<1>3. CASE BeforeRequest BY <1>3, BeforeRequestStep
<1>4. CASE Request BY <1>4, RequestStep
<1>5. CASE NoReply BY <1>5, NoReplyStep
<1>6. CASE ModelReply BY <1>6, ModelReplyStep
<1>7. CASE Touch BY <1>7, TouchStep
<1>v. CASE StopVetoed BY <1>v, StopVetoedStep
<1>8. CASE TurnDone BY <1>8, TurnDoneStep
<1>9. CASE ClearResults BY <1>9, ClearResultsStep
<1>10. CASE BeginSummary BY <1>10, BeginSummaryStep
<1>11. CASE SummaryWritten BY <1>11, SummaryWrittenStep
<1>12. CASE SummaryFails BY <1>12, SummaryFailsStep
<1>13. CASE AfterCompaction BY <1>13, AfterCompactionStep
<1>14. CASE OtherWrites \/ OtherWrote \/ OtherRemoves BY <1>14, OthersSteps
<1>15. CASE DropReminder BY <1>15, DropReminderStep
<1>16. CASE DaemonRestarts BY <1>16, DaemonRestartsStep
<1>q. QED BY <1>0, <1>1, <1>2, <1>3, <1>4, <1>5, <1>6, <1>7, <1>8, <1>9, <1>10, <1>11, <1>12, <1>13, <1>14,
             <1>15, <1>16, <1>v DEF ViewNext

LEMMA ViewInvAlways == ViewSpec => []ViewInv
BY ViewInitFits, ViewStep, PTL DEF ViewSpec

LEMMA ViewInvGives == ViewInv => ViewTypeOK /\ ViewIsWhole
<1> SUFFICES ASSUME ViewInv PROVE ViewTypeOK /\ ViewIsWhole OBVIOUS
<1>1. ViewTypeOK BY ViewInvIs DEF ViewTypes, ViewTypeOK
<1>2. ASSUME at = "model" PROVE NotesAreCurrent /\ PromptIsKept /\ SkillIsNamed /\ NothingFallsOut
  <2>1. /\ hooked.notes = IF Shown(events, sent) = {} THEN 0 ELSE events[sent.body[Max(Shown(events, sent))].i].notes
        /\ \/ Includes(events, sent, LastPrompt(events, sent))
           \/ \E i \in sent.prefix : "prompt" \in events[i].mods /\ events[i].hi = LastPrompt(events, sent)
           \/ mishaps.block
        /\ \A i \in Where(events, Spoken) : i <= sent.upto => Includes(events, sent, i) \/ InSummary(events, i)
    BY <1>2, ViewInvIs DEF WholeFits
  <2>2. NotesAreCurrent BY <2>1 DEF NotesAreCurrent, Shown
  <2>3. PromptIsKept BY <2>1 DEF PromptIsKept, LastPrompt, Includes
  <2>4. NothingFallsOut BY <2>1 DEF NothingFallsOut, Includes, InSummary
  <2>5. SkillIsNamed
    <3>1. pending = 0 BY <1>2, ViewInvIs DEF HookFits
    <3>2. \A i, j \in Where(events, {"reminder"}) : i = j BY ViewInvIs DEF RemindFits
    <3>3. Where(events, Touches) # {} => Settled(events) \/ mishaps.reminder
      BY <1>2, <3>1, ViewInvIs DEF RemindFits
    <3>4. Cardinality(Where(events, {"reminder"})) <= 1
      <4>1. CASE Where(events, {"reminder"}) = {} BY <4>1, FS_EmptySet
      <4>2. CASE Where(events, {"reminder"}) # {}
        <5>1. PICK i \in Where(events, {"reminder"}) : TRUE BY <4>2
        <5>2. Where(events, {"reminder"}) = {i} BY <5>1, <3>2
        <5>3. Cardinality({i}) = 1 BY FS_Singleton
        <5>q. QED BY <5>2, <5>3
      <4>q. QED BY <4>1, <4>2
    <3>q. QED BY <3>3, <3>4 DEF SkillIsNamed
  <2>q. QED BY <2>2, <2>3, <2>4, <2>5
<1>q. QED BY <1>1, <1>2 DEF ViewIsWhole

(* The log, the request and what the hooks and the modules hold            *)
(* (request.go, compaction.go, notes.go, skills.go) are always of their    *)
(* types; no reminder is queued twice.                                     *)
THEOREM ViewTypeCorrect == ViewSpec => []ViewTypeOK
<1>1. ViewInv => ViewTypeOK BY ViewInvGives
<1>q. QED BY <1>1, ViewInvAlways, PTL

(* For any log, any number of prompts, notes, restarts and hooks cut off:  *)
(* whatever other sessions write and whenever the history is summarised,   *)
(* a request has the notes as its hooks read them, the last prompt word    *)
(* for word, a touched skill named once, and all that was said or was      *)
(* given to a summariser (request.go, compaction.go, notes.go, skills.go). *)
THEOREM ViewIsAlwaysWhole == ViewSpec => []ViewIsWhole
<1>1. ViewInv => ViewIsWhole BY ViewInvGives
<1>q. QED BY <1>1, ViewInvAlways, PTL

(* A conversation is the beginning of a longer one of the same log.        *)
LEMMA BodyExtends ==
  ASSUME NEW l \in Seq(Entries), NEW s, NEW n \in Nat, NEW u \in 0 .. n
  PROVE  IsPrefix(BodyOf(l, s, u), BodyOf(l, s, n))
<1> DEFINE S == SaidIn(l, s, u)
           T == {i \in (u + 1) .. n : i \in SaidIn(l, s, n)}
           N == Cardinality(S)
           M == Cardinality(T)
           K == Cardinality(SaidIn(l, s, n))
<1>0. u \in Nat /\ u <= n OBVIOUS
<1>1. S \in SUBSET Nat /\ IsFiniteSet(S) /\ N \in Nat /\ S \in SUBSET (1 .. u) BY <1>0, SaidIs
<1>2. T \in SUBSET Nat /\ IsFiniteSet(T)
  <2>1. IsFiniteSet(SaidIn(l, s, n)) /\ SaidIn(l, s, n) \in SUBSET Nat BY SaidIs
  <2>2. T \in SUBSET SaidIn(l, s, n) OBVIOUS
  <2> HIDE DEF T
  <2>q. QED BY <2>1, <2>2, FS_Subset
<1>3. SaidIn(l, s, n) = S \cup T
  <2>1. \A i : i \in SaidIn(l, s, n) <=> i \in 1 .. n /\ i > s /\ l[i].k \in Spoken \cup {"notes", "reminder"}
    BY DEF SaidIn
  <2>2. \A i : i \in S <=> i \in 1 .. u /\ i > s /\ l[i].k \in Spoken \cup {"notes", "reminder"}
    BY DEF SaidIn
  <2>3. \A i : i \in T <=> i \in (u + 1) .. n /\ i \in SaidIn(l, s, n) OBVIOUS
  <2>4. \A i : i \in 1 .. n <=> i \in 1 .. u \/ i \in (u + 1) .. n BY <1>0
  <2>5. \A i : i \in (u + 1) .. n => i \in 1 .. n BY <1>0
  <2> HIDE DEF S, T
  <2>6. \A i : i \in SaidIn(l, s, n) <=> i \in S \/ i \in T BY <2>1, <2>2, <2>3, <2>4, <2>5
  <2>q. QED BY <2>6
<1>4. \A i \in S, j \in T : i < j BY <1>0, <1>1
<1> HIDE DEF S, T
<1>5. InOrder(SaidIn(l, s, n)) = InOrder(S) \o InOrder(T) BY <1>1, <1>2, <1>3, <1>4, InOrderThen
<1>6. InOrder(S) \in [1 .. N -> Nat] /\ InOrder(T) \in [1 .. M -> Nat] /\ M \in Nat
  <2>1. InOrder(S) \in [1 .. N -> S] /\ InOrder(T) \in [1 .. M -> T] /\ M \in Nat BY <1>1, <1>2, InOrderRank
  <2>q. QED BY <2>1, <1>1, <1>2
<1>7. N <= K /\ K \in Nat
  <2>1. S \in SUBSET SaidIn(l, s, n) BY <1>3
  <2>2. IsFiniteSet(SaidIn(l, s, n)) BY SaidIs
  <2>q. QED BY <2>1, <2>2, FS_Subset, FS_CardinalityType
<1> HIDE DEF N, M, K
<1>8. \A p \in 1 .. N : InOrder(SaidIn(l, s, n))[p] = InOrder(S)[p]
  <2>1. InOrder(S) \in Seq(Nat) /\ InOrder(T) \in Seq(Nat) /\ Len(InOrder(S)) = N BY <1>1, <1>6
  <2>q. QED BY <2>1, <1>5
<1> DEFINE c == BodyOf(l, s, u)
           d == BodyOf(l, s, n)
<1>9. /\ c = [p \in 1 .. N |-> [i |-> InOrder(S)[p], stub |-> IsCleared(l, InOrder(S)[p])]]
      /\ d = [p \in 1 .. K |-> [i |-> InOrder(SaidIn(l, s, n))[p], stub |-> IsCleared(l, InOrder(SaidIn(l, s, n))[p])]]
  BY DEF BodyOf, S, N, K
<1> HIDE DEF c, d
<1>10. Len(c) = N /\ Len(d) = K BY <1>1, <1>7, <1>9
<1>11. ASSUME NEW p \in 1 .. N PROVE c[p] = d[p]
  <2>1. p \in 1 .. K BY <1>1, <1>7
  <2>2. c[p] = [i |-> InOrder(S)[p], stub |-> IsCleared(l, InOrder(S)[p])] BY <1>9
  <2>3. d[p] = [i |-> InOrder(SaidIn(l, s, n))[p], stub |-> IsCleared(l, InOrder(SaidIn(l, s, n))[p])] BY <1>9, <2>1
  <2>4. InOrder(SaidIn(l, s, n))[p] = InOrder(S)[p] BY <1>8
  <2>q. QED BY <2>2, <2>3, <2>4, Zenon
<1>12. SubSeq(c, 1, N) = SubSeq(d, 1, N)
  <2>1. SubSeq(c, 1, N) = [p \in 1 .. N |-> c[p]] BY <1>1
  <2>2. SubSeq(d, 1, N) = [p \in 1 .. N |-> d[p]] BY <1>1
  <2>q. QED BY <2>1, <2>2, <1>11
<1>q. QED BY <1>7, <1>10, <1>12 DEF IsPrefix, c, d

(* A step that makes a request of a later one.                             *)
Extends ==
  sent.begun /\ sent' # NothingSent
     => /\ sent'.prefix = sent.prefix /\ sent'.summary = sent.summary
        /\ IsPrefix(sent.body, sent'.body)
        /\ IF \E i \in Where(events, Replies) : i > sent.upto
           THEN sent'.vetoes \cap sent.vetoes = {}
           ELSE sent.vetoes \subseteq sent'.vetoes

LEMMA RequestIsLonger == ASSUME ViewInv, Request, sent.begun PROVE Extends
<1>1. sent # NothingSent BY DEF NothingSent
<1>2. /\ sent.upto \in 1 .. Len(events)
      /\ \A i \in (sent.upto + 1) .. Len(events) : events[i].k # "prefix"
      /\ sent.summary = Summed(events)
      /\ sent.prefix = {i \in 1 .. sent.upto : events[i].k = "prefix" /\ i > Summed(events)}
      /\ sent.body = BodyOf(events, Summed(events), sent.upto)
      /\ sent.vetoes = VetoesIn(events, sent.upto)
  BY <1>1, ViewInvIs DEF SentFits
<1>3. /\ events' \in Seq(Entries) /\ GoesOnAs(events, events') /\ events \in Seq(Entries)
      /\ NewIn(events, events') \subseteq {"notes", "reminder"}
  BY HooksLogged, ViewInvIs
<1>4. /\ Len(events) \in Nat /\ Len(events') \in Nat /\ Len(events) <= Len(events')
      /\ \A i \in 1 .. Len(events) : events'[i] = events[i]
      /\ \A i \in 1 .. Len(events') : i > Len(events) => events'[i].k \in NewIn(events, events')
  BY <1>3, GoesOnIs
<1>5. events' # <<>> /\ begun \in BOOLEAN
  <2>1. Len(events') # 0 BY <1>2, <1>4
  <2>q. QED BY <2>1, ViewInvIs DEF ViewTypes
<1>6. /\ sent'.summary = Summed(events') /\ sent'.body = BodyOf(events', Summed(events'), Len(events'))
      /\ sent'.prefix = {i \in 1 .. Len(events') : events'[i].k = "prefix" /\ i > Summed(events')}
      /\ sent'.vetoes = VetoesIn(events', Len(events'))
  BY <1>3, <1>5, RequestIs DEF Request
<1>7. Summed(events') = Summed(events) BY <1>3, SummedGrows
<1>8. sent'.prefix = sent.prefix
  <2>1. ASSUME NEW i \in 1 .. Len(events'), events'[i].k = "prefix"
        PROVE  i \in 1 .. sent.upto /\ events[i].k = "prefix"
    <3>1. i <= Len(events) BY <2>1, <1>3, <1>4
    <3>2. i \in 1 .. Len(events) /\ events[i].k = "prefix" BY <3>1, <2>1, <1>4
    <3>3. ~(i \in (sent.upto + 1) .. Len(events)) BY <3>2, <1>2
    <3>q. QED BY <3>2, <3>3, <1>2, <1>4
  <2>2. ASSUME NEW i \in 1 .. sent.upto, events[i].k = "prefix"
        PROVE  i \in 1 .. Len(events') /\ events'[i].k = "prefix"
    BY <2>2, <1>2, <1>4
  <2>q. QED BY <2>1, <2>2, <1>2, <1>6, <1>7
<1>9. IsPrefix(sent.body, sent'.body)
  <2>1. sent.upto \in 0 .. Len(events) /\ sent.upto \in 0 .. Len(events') BY <1>2, <1>4
  <2>2. sent.body = BodyOf(events', Summed(events'), sent.upto) BY <2>1, <1>2, <1>3, <1>7, BodyGrows
  <2>q. QED BY <2>1, <2>2, <1>3, <1>4, <1>6, BodyExtends
<1>10. IF \E i \in Where(events, Replies) : i > sent.upto
       THEN sent'.vetoes \cap sent.vetoes = {}
       ELSE sent.vetoes \subseteq sent'.vetoes
  <2> DEFINE u == sent.upto
  <2>0. u \in Nat /\ u <= Len(events) BY <1>2, <1>4
  <2>1. \A i : i \in Where(events, Replies) <=> i \in 1 .. Len(events) /\ events[i].k \in Replies
    BY <1>3, WhereIs
  <2>2. \A i \in sent.vetoes : i \in 1 .. u /\ events[i].k = "veto"
                               /\ \A j \in 1 .. u : events[j].k \in Replies => j < i
    BY <1>2 DEF VetoesIn
  <2>3. \A i : i \in sent'.vetoes <=> /\ i \in 1 .. Len(events') /\ events'[i].k = "veto"
                                      /\ \A j \in 1 .. Len(events') : events'[j].k \in Replies => j < i
    BY <1>6 DEF VetoesIn
  <2> HIDE DEF u
  <2>4. ASSUME NEW r \in Where(events, Replies), r > u, NEW i \in sent'.vetoes, i \in sent.vetoes PROVE FALSE
    <3>1. r \in 1 .. Len(events') /\ events'[r].k \in Replies BY <2>1, <2>4, <1>4
    <3>2. r < i BY <3>1, <2>3, <2>4
    <3>q. QED BY <3>1, <3>2, <2>0, <2>2, <2>4
  <2>5. ASSUME ~(\E r \in Where(events, Replies) : r > u), NEW i \in sent.vetoes PROVE i \in sent'.vetoes
    <3>1. i \in 1 .. Len(events') /\ events'[i].k = "veto" BY <2>0, <2>2, <1>4
    <3>2. ASSUME NEW j \in 1 .. Len(events'), events'[j].k \in Replies PROVE j < i
      <4>1. j <= Len(events)
        <5>1. events'[j].k \notin {"notes", "reminder"} BY <3>2 DEF Replies
        <5>q. QED BY <5>1, <3>2, <1>3, <1>4
      <4>2. j \in 1 .. Len(events) /\ events[j].k \in Replies BY <4>1, <3>2, <1>4
      <4>3. j \in Where(events, Replies) BY <4>2, <2>1
      <4>4. j \in 1 .. u BY <4>2, <4>3, <2>5, <2>0
      <4>q. QED BY <4>2, <4>4, <2>2
    <3>q. QED BY <3>1, <3>2, <2>3
  <2>6. CASE \E r \in Where(events, Replies) : r > u BY <2>4, <2>6 DEF u
  <2>7. CASE ~(\E r \in Where(events, Replies) : r > u) BY <2>5, <2>7 DEF u
  <2>q. QED BY <2>6, <2>7
<1>q. QED BY <1>2, <1>6, <1>7, <1>8, <1>9, <1>10 DEF Extends

LEMMA StepExtends == ViewInv /\ [ViewNext]_viewVars => [sent' # sent => Extends]_viewVars
<1> SUFFICES ASSUME ViewInv, ViewNext, sent' # sent, sent.begun, sent' # NothingSent PROVE Extends BY DEF Extends
<1>1. Request
  <2>1. \/ SessionStart \/ PromptWithID \/ BeforeRequest \/ Request \/ NoReply \/ ModelReply \/ Touch
        \/ StopVetoed \/ TurnDone \/ ClearResults \/ BeginSummary \/ SummaryWritten
        \/ SummaryFails \/ AfterCompaction \/ OtherWrites \/ OtherWrote \/ OtherRemoves
        \/ DropReminder \/ DaemonRestarts
    BY DEF ViewNext
  <2>2. ~ClearResults /\ ~SummaryWritten /\ ~SummaryFails BY DEF ClearResults, SummaryWritten, SummaryFails
  <2>3. ~SessionStart /\ ~PromptWithID /\ ~BeforeRequest /\ ~NoReply /\ ~ModelReply /\ ~Touch
    BY DEF SessionStart, PromptWithID, BeforeRequest, NoReply, ModelReply, Touch
  <2>4. ~StopVetoed /\ ~TurnDone /\ ~BeginSummary /\ ~AfterCompaction /\ ~OtherWrites /\ ~OtherWrote /\ ~OtherRemoves
    BY DEF StopVetoed, TurnDone, BeginSummary, AfterCompaction, OtherWrites, OtherWrote, OtherRemoves
  <2>5. ~DropReminder /\ ~DaemonRestarts BY DEF DropReminder, DaemonRestarts
  <2>q. QED BY <2>1, <2>2, <2>3, <2>4, <2>5
<1>q. QED BY <1>1, RequestIsLonger

(* For any log: between two compactions a request is the one before it and *)
(* what was logged since, once Create has logged its blocks, so that a     *)
(* provider's prompt cache holds; but the stop gates' objections at its    *)
(* end are gone when the model has replied (request.go, assemble.go,       *)
(* compaction.go).                                                         *)
THEOREM RequestsAlwaysExtend == ViewSpec => RequestsExtend
<1>1. [sent' # sent => Extends]_viewVars
      <=> [sent' # sent /\ sent.begun /\ sent' # NothingSent
           => /\ sent'.prefix = sent.prefix /\ sent'.summary = sent.summary
              /\ IsPrefix(sent.body, sent'.body)
              /\ IF \E i \in Where(events, Replies) : i > sent.upto
                 THEN sent'.vetoes \cap sent.vetoes = {}
                 ELSE sent.vetoes \subseteq sent'.vetoes]_viewVars
  BY DEF Extends
<1>2. ViewInv /\ [ViewNext]_viewVars
      => [sent' # sent /\ sent.begun /\ sent' # NothingSent
          => /\ sent'.prefix = sent.prefix /\ sent'.summary = sent.summary
             /\ IsPrefix(sent.body, sent'.body)
             /\ IF \E i \in Where(events, Replies) : i > sent.upto
                THEN sent'.vetoes \cap sent.vetoes = {}
                ELSE sent.vetoes \subseteq sent'.vetoes]_viewVars
  BY <1>1, StepExtends
<1>q. QED BY <1>2, ViewInvAlways, PTL DEF ViewSpec, RequestsExtend
=============================================================================
