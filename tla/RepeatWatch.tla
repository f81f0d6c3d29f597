---------------------------- MODULE RepeatWatch ----------------------------
(***************************************************************************)
(* The watch on a stream (daemon/agent/repeat.go): whether its end has     *)
(* become one passage over and over, found from the nearest earlier        *)
(* occurrence of its last bytes, and what is then kept of the stream.      *)
(***************************************************************************)
EXTENDS Naturals, Sequences, FiniteSets, SequencesExt

CONSTANTS
  Letters,  \* what streams are made of
  Limit,    \* copies in a row that trip the watch
  MinSpan,  \* repeatMinSpan
  Every,    \* repeatEvery
  Window,   \* repeatWindow
  MaxText   \* bound on the stream

ASSUME RepeatWatchAssumption ==
  /\ Limit \in Nat \ {0} /\ MinSpan \in Nat \ {0} /\ Every \in Nat \ {0}
  /\ Every >= MinSpan /\ Window > MinSpan

VARIABLES text, checked, period, start, full

watchVars == <<text, checked, period, start, full>>

WatchInit == text = <<>> /\ checked = 0 /\ period = 0 /\ start = 0 /\ full = <<>>

Greatest(S) == CHOOSE x \in S : \A y \in S : y <= x
Least(S)    == CHOOSE x \in S : \A y \in S : x <= y
From(t, n)  == SubSeq(t, n + 1, Len(t))   \* text[n:]

(* check: the last MinSpan bytes recur one period back, so the candidates  *)
(* are their earlier occurrences, nearest first, those in the window.  The *)
(* first that holds for Limit copies is the smallest period; it counts if  *)
(* it is a passage.  0 is no period.                                       *)
Periods(t) ==
  LET n == Len(t)
      lo == IF n > Window THEN n - Window ELSE 0
  IN  {p \in 1 .. n - MinSpan - lo : SubSeq(t, n - MinSpan - p + 1, n - p) = From(t, n - MinSpan)}

Span(p) == Limit * (IF p > MinSpan THEN p ELSE MinSpan)

(* Mutant: any period counts, also one shorter than a passage.             *)
CheckAny(t) ==
  LET n == Len(t)
      holding == {p \in Periods(t) : Span(p) <= n /\ SubSeq(t, n - Span(p) + 1, n - p) = From(t, n - Span(p) + p)}
  IN  IF holding = {} THEN 0 ELSE Least(holding)

Check(t) ==
  LET n == Len(t)
      holding == {p \in Periods(t) : Span(p) <= n /\ SubSeq(t, n - Span(p) + 1, n - p) = From(t, n - Span(p) + p)}
  IN  IF holding = {} THEN 0 ELSE IF Least(holding) < MinSpan THEN 0 ELSE Least(holding)

(* The walk back to where the repetition began.                            *)
Began(t, p) ==
  LET n == Len(t)
  IN  Least({s \in 0 .. n - Span(p) : \A i \in s + 1 .. n - Span(p) : t[i] = t[i + p]})

(* add: the stream grows; nothing is read of it once the watch tripped.    *)
Add(c) ==
  /\ Len(full) < MaxText
  /\ full' = Append(full, c)
  /\ IF period > 0 THEN UNCHANGED <<text, checked, period, start>>
     ELSE /\ text' = Append(text, c)
          /\ IF Len(text') - checked < Every THEN UNCHANGED <<checked, period, start>>
             ELSE /\ checked' = Len(text') /\ period' = Check(text')
                  /\ start' = IF period' > 0 THEN Began(text', period') ELSE 0

WatchNext == \E c \in Letters : Add(c)
WatchSpec == WatchInit /\ [][WatchNext]_watchVars

---------------------------------------------------------------------------
(* kept and collapsed: the stream with the run reduced to one copy, the    *)
(* marker in its place, and what came after the run.                       *)
Head1   == SubSeq(text, 1, start + period)
Passage == SubSeq(text, start + 1, start + period)

Dropped ==
  LET rest == From(full, Len(Head1))
      Copies(k) == k * period <= Len(rest) /\ \A i \in 1 .. k * period : rest[i] = Passage[((i - 1) % period) + 1]
  IN  Greatest({k \in 0 .. Len(rest) : Copies(k)})

Collapsed == Head1 \o <<"marker">> \o From(full, Len(Head1) + Dropped * period)
Repeats   == (Len(text) - start) \div period

---------------------------------------------------------------------------
WatchTypeOK ==
  /\ text \in Seq(Letters) /\ full \in Seq(Letters) /\ IsPrefix(text, full) /\ Len(full) <= MaxText
  /\ checked \in 0 .. Len(text) /\ period \in 0 .. Len(text) /\ start \in 0 .. Len(text)

Periodic(t, p, len) == len <= Len(t) /\ \A i \in Len(t) - len + 1 .. Len(t) - p : t[i] = t[i + p]

(* The watch trips when and only when the end of what it checked is Limit  *)
(* copies of one passage and of nothing shorter, within the window; and    *)
(* what is kept with the copies put back is the stream.                    *)
WatchIsRight ==
  /\ (period = 0 /\ checked = Len(text) /\ Len(text) <= Window) =>
       ~\E p \in MinSpan .. Len(text) :
          /\ Limit * p <= Len(text) /\ Periodic(text, p, Limit * p)
          /\ \A q \in 1 .. p - 1 : ~Periodic(text, q, Span(q))
  /\ period > 0 =>
       /\ period >= MinSpan /\ Periodic(text, period, Limit * period) /\ Repeats >= Limit
       /\ start > 0 => text[start] # text[start + period]
       /\ Dropped >= Limit - 1
       /\ LET copies == FlattenSeq([k \in 1 .. Dropped |-> Passage])
          IN  Head1 \o copies \o From(full, Len(Head1) + Len(copies)) = full
=============================================================================
