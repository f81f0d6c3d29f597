------------------------------- MODULE Stats -------------------------------
(***************************************************************************)
(* How much work sessions were, from their logs alone: one session (Of),   *)
(* a session and all under it (Tree), every session over some days         *)
(* (Totals), days one by one (Usage) and a tool's calls (Calls); and how   *)
(* the daemon reads all the logs to answer (handler.go allLogs), while     *)
(* sessions go on, are archived and are restored.                          *)
(***************************************************************************)
EXTENDS Naturals, Sequences, FiniteSets, SequencesExt, FiniteSetsExt

CONSTANTS
  HomeId, StepId,      \* a session, and one made under it
  DayLength,       \* the length of a day
  MaxGap,          \* maxGap: the most a quiet stretch counts for
  Before,          \* the logs there may be at first
  MaxTime, MaxWork \* bounds on the clock and on what is logged from then on

ASSUME StatsAssumption == HomeId # StepId /\ DayLength \in Nat \ {0} /\ MaxGap \in Nat

Measured == {HomeId, StepId}
Events == {"user", "assistant", "interrupted", "call", "error", "running", "idle", "labels"}

VARIABLES
  time, work, \* the time, and each session's log of [k, at]
  since,      \* how much has been logged since
  inArchive,  \* the sessions in the archive
  reading,    \* allLogs: what is left of its list, and what it has
  moved       \* history: archived, or restored, while the logs were read

statsVars == <<time, work, since, inArchive, reading, moved>>

(* Of: a turn is a message of the model's; a result counts for its tool    *)
(* when the log has the call; a quiet stretch while running counts up to   *)
(* MaxGap.                                                                 *)
Count(log, ks) == Len(SelectSeq(log, LAMBDA e : e.k \in ks))
Turns(log) == Count(log, {"assistant", "interrupted"})
Errors(log) == Cardinality({i \in DOMAIN log :
                 log[i].k = "error" /\ \E j \in 1..(i - 1) : log[j].k = "call"})
Running(log, i) ==
  LET changes == {j \in 1..i : log[j].k \in {"running", "idle"}}
  IN changes # {} /\ log[Max(changes)].k = "running"
Gap(log, i) == Min({log[i].at - log[i - 1].at, MaxGap})
Working(log) == MapThenSumSet(LAMBDA i : Gap(log, i), {i \in 2..Len(log) : Running(log, i - 1)})

Of(log) ==
  [turns |-> Turns(log), prompts |-> Count(log, {"user"}), tokens |-> Count(log, {"assistant"}),
   calls |-> Count(log, {"call"}), errors |-> Errors(log), working |-> Working(log)]

(* Usage: a day for each step of a day's length from the first moment to   *)
(* the last, and the turns of each.                                        *)
DayOf(t) == t \div DayLength
Days(first, last) == {DayOf(first + n * DayLength) : n \in {m \in 0..last : first + m * DayLength <= last}}
Usage(logs, first, last) ==
  [d \in Days(first, last) |->
     MapThenSumSet(LAMBDA i : Turns(SelectSeq(logs[i], LAMBDA e : DayOf(e.at) = d)), DOMAIN logs)]

(* tally: the sessions' numbers added up.                                  *)
Tally(logs) ==
  [f \in {"turns", "prompts", "tokens", "calls", "errors", "working"} |->
     MapThenSumSet(LAMBDA i : Of(logs[i])[f], DOMAIN logs)]

MadeUnder(s) == IF s = StepId THEN HomeId ELSE "none"
Unattended(l) == MadeUnder(l.of) # "none" \/ Count(l.log, {"labels"}) > 0
OfKind(l, kind) == kind = "all" \/ Unattended(l) = (kind = "unattended")
Cut(log, from, to) == SelectSeq(log, LAMBDA e : from <= e.at /\ e.at < to)

(* Totals: each log of the kind cut to the period; one with nothing in it  *)
(* is not counted.                                                         *)
Cuts(logs, from, to, kind) ==
  LET kept == SelectSeq(logs, LAMBDA l : OfKind(l, kind) /\ Cut(l.log, from, to) # << >>)
  IN [i \in DOMAIN kept |-> Cut(kept[i].log, from, to)]
Totals(logs, from, to, kind) == Tally(Cuts(logs, from, to, kind))

(* Tree: the root and what is under it, each once, by creation.            *)
Under(root, l) == l.of = root \/ MadeUnder(l.of) = root
(* Mutant: a session that was read twice is a member twice.                *)
EveryUnder(root, logs) == SelectSeq(logs, LAMBDA l : Under(root, l))
Members(root, logs) ==
  LET first == {i \in DOMAIN logs : Under(root, logs[i]) /\ \A j \in 1..(i - 1) : logs[j].of # logs[i].of}
  IN IF \E i \in first : logs[i].of = root
     THEN [n \in 1..Cardinality(first) |-> logs[SetToSortSeq(first, <)[n]]] ELSE << >>
LogsOf(members) == [i \in DOMAIN members |-> members[i].log]
Moments(members) == UNION {{e.at : e \in Range(m.log)} : m \in Range(members)}
PerDay(members) ==
  LET at == Moments(members) IN IF at = {} THEN << >> ELSE Usage(LogsOf(members), Min(at), Max(at))

(* Calls: the tool's calls of the period.                                  *)
CallsIn(logs, from, to, kind) ==
  {c \in UNION {{<<i, j>> : j \in DOMAIN logs[i].log} : i \in DOMAIN logs} :
     LET l == logs[c[1]] e == l.log[c[2]] IN OfKind(l, kind) /\ e.k = "call" /\ from <= e.at /\ e.at < to}

---------------------------------------------------------------------------
NotReading == [at |-> "no", left |-> {}, got |-> << >>, skipped |-> 0, began |-> [s \in Measured |-> << >>]]

StatsInit ==
  /\ work \in Before /\ time = Max({0} \cup UNION {{e.at : e \in Range(work[s])} : s \in Measured})
  /\ since = 0 /\ inArchive = {} /\ reading = NotReading /\ moved = {}

Passes == time < MaxTime /\ time' = time + 1 /\ UNCHANGED <<work, since, inArchive, reading, moved>>

Happens(s, k) ==
  /\ s \notin inArchive /\ since < MaxWork /\ since' = since + 1
  /\ work' = [work EXCEPT ![s] = Append(@, [k |-> k, at |-> time])]
  /\ UNCHANGED <<time, inArchive, reading, moved>>

(* A session is archived when it is not running, or restored.              *)
MovesLog(s) ==
  /\ ~Running(work[s], Len(work[s]))
  /\ inArchive' = IF s \in inArchive THEN inArchive \ {s} ELSE inArchive \cup {s}
  /\ moved' = IF reading.at = "no" THEN moved
              ELSE moved \cup {IF s \in inArchive THEN "restored" ELSE "archived"}
  /\ UNCHANGED <<time, work, since, reading>>

(* allLogs: the list of the sessions in use, each one's log, and then      *)
(* the archive's.                                                          *)
ListsSessions ==
  /\ reading.at = "no"
  /\ reading' = [NotReading EXCEPT !.at = "active", !.left = Measured \ inArchive, !.began = work]
  /\ UNCHANGED <<time, work, since, inArchive, moved>>

GetsLog(s) ==
  /\ reading.at = "active" /\ s \in reading.left
  /\ reading' = IF s \in inArchive THEN [reading EXCEPT !.left = @ \ {s}, !.skipped = @ + 1]
                ELSE [reading EXCEPT !.left = @ \ {s}, !.got = Append(@, [of |-> s, log |-> work[s]])]
  /\ UNCHANGED <<time, work, since, inArchive, moved>>

GetsArchive ==
  /\ reading.at = "active" /\ reading.left = {}
  /\ \E more \in SetToSeqs(inArchive) :
       reading' = [reading EXCEPT !.at = "done",
                     !.got = @ \o [i \in DOMAIN more |-> [of |-> more[i], log |-> work[more[i]]]]]
  /\ UNCHANGED <<time, work, since, inArchive, moved>>

StatsAnswered == reading.at = "done" /\ reading' = NotReading /\ moved' = {} /\ UNCHANGED <<time, work, since, inArchive>>

StatsNext ==
  \/ Passes \/ ListsSessions \/ GetsArchive \/ StatsAnswered
  \/ \E s \in Measured : MovesLog(s) \/ GetsLog(s) \/ \E k \in Events : Happens(s, k)

StatsSpec == StatsInit /\ [][StatsNext]_statsVars

---------------------------------------------------------------------------
StatsTypeOK ==
  /\ time \in 0..MaxTime /\ since \in 0..MaxWork /\ inArchive \subseteq Measured /\ moved \subseteq {"archived", "restored"}
  /\ reading.at \in {"no", "active", "done"} /\ reading.left \subseteq Measured
  /\ reading.skipped \in 0..2

Total(f) == MapThenSumSet(LAMBDA x : f[x], DOMAIN f)
Logs(of) == [i \in 1..2 |-> of[IF i = 1 THEN HomeId ELSE StepId]]

(* Of what was read: a tree counts every session of it once, even one that *)
(* was archived while the logs were read; a period cut in two at a         *)
(* midnight, and the kinds, add up to the whole but for the work that runs *)
(* through the cut; the calls listed are the calls counted; the turns of   *)
(* the days are the turns, when the last event is not earlier in its day   *)
(* than the first; and unless a session was restored meanwhile every turn  *)
(* logged before the question is in the answer, once if none was archived  *)
(* either (stats.go, tree.go, window.go, handler.go allLogs).              *)
EndOfTime == MaxTime + 1
TreeIsWhole(got) ==
  LET m == Members(HomeId, got) days == PerDay(m) IN
  /\ \A i, j \in DOMAIN m : m[i].of = m[j].of => i = j
  /\ "restored" \notin moved => Len(m) = 2
  /\ m # << >> /\ Max(Moments(m) \cup {0}) % DayLength >= Min(Moments(m) \cup {EndOfTime}) % DayLength =>
       Total(days) = Tally(LogsOf(m))["turns"]
PeriodsAddUp(got, at) ==
  LET all == Totals(got, 0, EndOfTime, "all")
      one == Totals(got, 0, at, "all") two == Totals(got, at, EndOfTime, "all") IN
  /\ \A f \in {"turns", "prompts", "tokens", "calls"} : one[f] + two[f] = all[f]
  /\ \A f \in {"errors", "working"} : one[f] + two[f] <= all[f]
  /\ one["calls"] = Cardinality(CallsIn(got, 0, at, "all"))
  /\ Total(Usage(Cuts(got, 0, at, "all"), 0, at - 1)) = one["turns"]
  /\ \A f \in DOMAIN all :
       all[f] = Totals(got, 0, EndOfTime, "interactive")[f] + Totals(got, 0, EndOfTime, "unattended")[f]
StatsAddUp ==
  reading.at = "done" =>
    /\ TreeIsWhole(reading.got)
    /\ \A d \in 1..DayOf(MaxTime) : PeriodsAddUp(reading.got, d * DayLength)
    /\ LET turns == Tally(LogsOf(reading.got))["turns"] IN
       /\ "restored" \notin moved => turns >= Tally(Logs(reading.began))["turns"]
       /\ moved = {} => reading.skipped = 0 /\ turns <= Tally(Logs(work))["turns"]
    /\ \A l \in Range(reading.got) : l.log # << >> => Working(l.log) <= Last(l.log).at - Head(l.log).at

(* handler.go allLogs, which "counts the ones it could not read so a total *)
(* is never silently short": what the answer lacks, it says.               *)
NeverSilentlyShort ==
  reading.at = "done" /\ reading.skipped = 0 =>
    Tally(LogsOf(reading.got))["turns"] >= Tally(Logs(reading.began))["turns"]
=============================================================================
