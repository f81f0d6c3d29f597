----------------------------- MODULE Repetition -----------------------------
(***************************************************************************)
(* The loop module (daemon/modules/loop/loop.go): what it takes from the   *)
(* log since the person's last message, the notices it puts in the next    *)
(* request, and the calls it refuses or stops the session at.              *)
(*                                                                         *)
(* A call is its key: the tool and its arguments.  A result is what the    *)
(* log has of it, its status and content.                                  *)
(***************************************************************************)
EXTENDS Naturals, Sequences, FiniteSets, SequencesExt

CONSTANTS
  Edits,      \* keys of write and edit calls, all on one path
  Commands,   \* keys of shell commands that change the workspace
  Checks,     \* keys of calls that only look
  Waiting,    \* the checks whose command waits on purpose
  IdenticalAfter, HaltAfter, NotLandingAfter, WatchAfter, StalledAfter, StalledHaltAfter,
  MaxBatch,   \* bound on the calls of one reply
  MaxSpeaks,  \* bound on the person's messages
  MaxLog      \* bound on the log

ASSUME RepetitionAssumption ==
  /\ IdenticalAfter >= 2 /\ HaltAfter >= 1 /\ NotLandingAfter >= 2 /\ WatchAfter >= 2
  /\ StalledAfter >= 2 /\ StalledHaltAfter >= 1 /\ Waiting \subseteq Checks

VARIABLES
  log,    \* "user" and "reply" messages, and the results of the model's calls
  told,   \* what the model was told since the person's last message
  stopped \* why a gate halted the session, or "no"

repetitionVars == <<log, told, stopped>>

Keys == Edits \cup Commands \cup Checks
Outcomes(key) == IF key \in Edits THEN {"ok", "unchanged", "no match"} ELSE IF key \in Commands THEN {"pass"} ELSE {"error", "pass"}
Message(who) == [k |-> who, key |-> "none", result |-> "none", refused |-> FALSE]
Result(key, r) == [k |-> "result", key |-> key, result |-> r, refused |-> r = "refused"]

RepetitionInit == log = <<Message("user")>> /\ told = {} /\ stopped = "no"

---------------------------------------------------------------------------
(* sincePerson, history.                                                   *)
SincePerson(l) == LET last == SelectLastInSeq(l, LAMBDA e : e.k = "user")
                  IN  SubSeq(l, last + 1, Len(l))
History(l)  == SelectSeq(SincePerson(l), LAMBDA e : e.k = "result")
FreshFrom(l) == LET s == SincePerson(l)
                    last == SelectLastInSeq(s, LAMBDA e : e.k = "reply")
                IN  Len(SelectSeq(SubSeq(s, 1, last), LAMBDA e : e.k = "result"))

Changes(a) == a.key \in Edits \cup Commands /\ a.result \in {"ok", "unchanged", "pass"}

(* identicalRun: every edit is on the one path, so any change touches it.  *)
IdenticalRun(atts, key) ==
  LET Follow(st, a) ==
        IF a.key # key THEN [st EXCEPT !.disturbed = @ \/ (st.runs > 0 /\ Changes(a))]
        ELSE IF a.refused THEN [st EXCEPT !.refusals = @ + 1]
        ELSE IF st.runs > 0 /\ ~st.disturbed /\ a.result = st.last THEN [st EXCEPT !.runs = @ + 1]
        ELSE [runs |-> 1, refusals |-> 0, last |-> a.result, disturbed |-> FALSE]
  IN  FoldLeft(Follow, [runs |-> 0, refusals |-> 0, last |-> "none", disturbed |-> FALSE], atts)

(* checkStreak.                                                            *)
CheckStreak(atts, key) ==
  LET Follow(st, a) ==
        IF a.key # key THEN [st EXCEPT !.gap = @ \/ Changes(a)]
        ELSE IF st.runs > 0 /\ a.result = st.last
             THEN [runs |-> st.runs + 1, last |-> st.last, lastGap |-> st.gap,
                   anyChange |-> st.anyChange \/ st.gap, gap |-> FALSE]
        ELSE [runs |-> 1, last |-> a.result, lastGap |-> FALSE, anyChange |-> FALSE, gap |-> FALSE]
  IN  FoldLeft(Follow, [runs |-> 0, last |-> "none", lastGap |-> FALSE, anyChange |-> FALSE, gap |-> FALSE],
               SelectSeq(atts, LAMBDA a : ~a.refused))

(* turns: the replies that made calls, each with what came back, and       *)
(* whether all of it had come back in an earlier one.  The turn that is    *)
(* being made counts with what it has so far.                              *)
Turns(l) ==
  LET s == SincePerson(l)
      Add(ts, e) ==
        IF e.k = "reply" THEN Append(ts, [calls |-> <<>>])
        ELSE [ts EXCEPT ![Len(ts)].calls = Append(@, e)]
      all == FoldLeft(Add, <<>>, s)
      Seen(i) == UNION {{c.result : c \in Range(all[j].calls)} : j \in 1 .. i - 1}
      Stale(i) == \A c \in Range(all[i].calls) :
                    /\ ~(c.key \in Edits /\ c.result = "ok")
                    /\ c.result \in Seen(i)
      Mark(i) == [keys |-> {c.key : c \in Range(all[i].calls)}, some |-> all[i].calls # <<>>,
                  stale |-> Stale(i), latest |-> i = Len(all)]
  IN  SelectSeq([i \in DOMAIN all |-> Mark(i)], LAMBDA t : t.some)

(* stalled: a run of stale turns counts from the StalledAfter-th on, if    *)
(* more than one call was made in it by then.                              *)
Stalled(ts) ==
  LET Follow(st, t) ==
        IF ~t.stale THEN [st EXCEPT !.len = 0, !.keys = {}, !.counted = FALSE, !.latest = FALSE]
        ELSE LET grown == [st EXCEPT !.len = @ + 1, !.keys = @ \cup t.keys, !.latest = t.latest]
                 now == grown.len = StalledAfter /\ Cardinality(grown.keys) > 1
             IN  [grown EXCEPT !.counted = @ \/ now, !.runs = IF now THEN @ + 1 ELSE @]
  IN  FoldLeft(Follow, [len |-> 0, keys |-> {}, counted |-> FALSE, latest |-> FALSE, runs |-> 0], ts)

Halts(st) == st.runs >= 2 \/ (st.counted /\ st.len >= StalledAfter + StalledHaltAfter)

---------------------------------------------------------------------------
(* Mutant: the edit may run once more than the notice says.                *)
VerdictLater(l, key) ==
  LET st == IdenticalRun(History(l), key) IN
  IF Halts(Stalled(Turns(l))) THEN "stalled"
  ELSE IF key \notin Edits \/ st.runs <= IdenticalAfter THEN "allow"
  ELSE IF st.refusals >= HaltAfter THEN "repeated" ELSE "deny"

(* GateTool.                                                               *)
Verdict(l, key) ==
  LET st == IdenticalRun(History(l), key) IN
  IF Halts(Stalled(Turns(l))) THEN "stalled"
  ELSE IF key \notin Edits \/ st.runs < IdenticalAfter THEN "allow"
  ELSE IF st.refusals >= HaltAfter THEN "repeated"
  ELSE "deny"

(* BeforeRequest: what is said of the calls made since the last reply.     *)
Failed(a) == a.result = "error"
ChangeNotices(l) ==
  LET atts == History(l)
  IN  {i \in FreshFrom(l) + 1 .. Len(atts) :
         /\ atts[i].key \in Edits /\ ~atts[i].refused
         /\ \A j \in i + 1 .. Len(atts) : atts[j].key # atts[i].key \/ atts[j].refused
         /\ IdenticalRun(SubSeq(atts, 1, i), atts[i].key).runs >= IdenticalAfter}

CheckNotices(l) ==
  LET atts == History(l)
      Streak(i) == CheckStreak(SubSeq(atts, 1, i), atts[i].key)
  IN  {i \in FreshFrom(l) + 1 .. Len(atts) :
         /\ atts[i].key \notin Edits /\ ~Changes(atts[i])
         /\ \A j \in i + 1 .. Len(atts) : atts[j].key # atts[i].key
         /\ \/ Failed(atts[i]) /\ Streak(i).lastGap /\ Streak(i).runs >= NotLandingAfter
            \/ /\ ~Streak(i).anyChange /\ Streak(i).runs >= WatchAfter
               /\ Streak(i).runs % WatchAfter = 0 /\ atts[i].key \notin Waiting}

StallNotice(l) ==
  LET st == Stalled(Turns(l)) IN st.counted /\ st.len = StalledAfter /\ st.latest

Notices(l) ==
  IF ChangeNotices(l) # {} THEN {"change"} \cup (IF CheckNotices(l) # {} THEN {"check"} ELSE {})
  ELSE IF StallNotice(l) THEN {"stall"}
  ELSE IF CheckNotices(l) # {} THEN {"check"} ELSE {}

---------------------------------------------------------------------------
(* A request and the model's reply to it.                                  *)
Reply ==
  /\ stopped = "no" /\ Len(log) < MaxLog /\ Last(log).k # "reply"
  /\ told' = told \cup Notices(log)
  /\ log' = Append(log, Message("reply")) /\ UNCHANGED stopped

Call(key) ==
  /\ stopped = "no" /\ Len(log) < MaxLog
  /\ \E i \in Len(log) - MaxBatch + 1 .. Len(log) :
       i > 0 /\ log[i].k = "reply" /\ \A j \in i + 1 .. Len(log) : log[j].k = "result"
  /\ LET v == Verdict(log, key) IN
     \/ /\ v = "allow" /\ \E r \in Outcomes(key) : log' = Append(log, Result(key, r))
        /\ UNCHANGED <<told, stopped>>
     \/ /\ v = "deny" /\ log' = Append(log, Result(key, "refused"))
        /\ told' = told \cup {"refusal"} /\ UNCHANGED stopped
     \/ /\ v \in {"stalled", "repeated"} /\ stopped' = v
        /\ log' = Append(log, Result(key, "refused")) /\ UNCHANGED told

(* A word from the person starts every count again.                        *)
Speak ==
  /\ Len(log) < MaxLog /\ Cardinality({i \in DOMAIN log : log[i].k = "user"}) < MaxSpeaks
  /\ log' = Append(log, Message("user")) /\ told' = {} /\ stopped' = "no"

RepetitionNext == Reply \/ Speak \/ \E key \in Keys : Call(key)

RepetitionSpec == RepetitionInit /\ [][RepetitionNext]_repetitionVars

---------------------------------------------------------------------------
RepetitionTypeOK ==
  /\ \A i \in DOMAIN log : log[i].k \in {"user", "reply", "result"} /\ log[i].key \in Keys \cup {"none"}
  /\ Len(log) <= MaxLog
  /\ told \subseteq {"change", "check", "stall", "refusal"} /\ stopped \in {"no", "stalled", "repeated"}

(* However the model mixes its calls, one edit runs at most IdenticalAfter *)
(* times with one result while nothing else changes the file; and no       *)
(* session is stopped for going in circles before the model was told that  *)
(* it does.                                                                *)
CirclesEnd ==
  LET atts == History(log)
      Ran(key, r) == {i \in DOMAIN atts : atts[i].key = key /\ atts[i].result = r}
      Between(i, j) == i + 1 .. j - 1
  IN  /\ \A key \in Edits : \A r \in Outcomes(key) : \A first, last \in Ran(key, r) :
           (first < last /\ \A x \in Between(first, last) :
              IF atts[x].key = key THEN atts[x].result \in {r, "refused"} ELSE ~Changes(atts[x]))
           => Cardinality({i \in Ran(key, r) : first <= i /\ i <= last}) <= IdenticalAfter
      /\ stopped # "no" => told \cap {"change", "stall", "refusal"} # {}
=============================================================================
