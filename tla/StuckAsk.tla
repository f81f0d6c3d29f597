----------------------------- MODULE StuckAsk ------------------------------
(* The claude module's help for a session that has gone on too long: it    *)
(* asks Claude in the background at every AutoAfter turns since a person   *)
(* spoke, AutoMax times at most, records the answer as a call of its own   *)
(* before a request (stuck.go, claude.go), and puts a stretch's answers    *)
(* back word for word after a summary (kept.go).                           *)
EXTENDS Naturals, Sequences, FiniteSets, SequencesExt

CONSTANTS
  AutoAfter, AutoMax,  \* auto_ask_after and auto_ask_max
  KeptRoom,            \* how many answers the kept block has room for
  MaxHistory,          \* bound on the log
  MaxLosses            \* bound on the restarts

ASSUME StuckAskAssumption == {AutoAfter, AutoMax, KeptRoom, MaxHistory, MaxLosses} \subseteq Nat

VARIABLES
  history, \* the log: [k, of, ok]; of is the ask's prompt, ok how its call came out
  waiting, \* Module.waiting: the automatic ask, from its start until recorded or dropped
  hook,    \* where the loop is: between turns, in a hook, or in the call the hook makes
  losses   \* history: restarts; asks overtaken after the hook looked; blocks never made

askVars == <<history, waiting, hook, losses>>

NoAsk == [at |-> "none", of |-> [spoken |-> 0, turns |-> 0]]
Event(k) == [k |-> k, of |-> NoAsk.of, ok |-> FALSE]

Of(log, k) == {i \in DOMAIN log : log[i].k = k}
PersonSpoke(log) == Cardinality(Of(log, "user"))

(* What was said since a person last spoke.                                *)
Stretch(log) == {i \in DOMAIN log : \A u \in Of(log, "user") : u < i}
StuckTurns(log) == Cardinality(Stretch(log) \cap Of(log, "reply"))
Asked(log) == Cardinality(Stretch(log) \cap Of(log, "ask"))

(* The prompt: the task, what the model says, what fails, what it changes. *)
(* The number of the stretch and of the turns in it tell two apart.        *)
Question(log) == [spoken |-> PersonSpoke(log), turns |-> StuckTurns(log)]

(* The answers of the stretch, the model's own asks' among them.           *)
Answers(log) == {i \in Stretch(log) : log[i].k \in {"ask", "own ask"} /\ log[i].ok}

---------------------------------------------------------------------------
StuckInit ==
  /\ history = <<Event("user")>>
  /\ waiting = NoAsk /\ hook = "turns"
  /\ losses = [restarts |-> 0, raced |-> {}, unkept |-> FALSE]

Log(e) == Len(history) < MaxHistory /\ history' = Append(history, e)

(* A turn's reply: the module looks at the log before the turn's calls are *)
(* run (TurnEnd), and the stretch may have reached its next mark.          *)
Due(log) == Asked(log) < AutoMax /\ StuckTurns(log) >= AutoAfter * (Asked(log) + 1)
TurnEnd ==
  /\ hook = "request" /\ hook' = "turns"
  /\ Log(Event("reply"))
  /\ waiting' = IF Due(history') /\ waiting = NoAsk
                THEN [at |-> "running", of |-> Question(history')] ELSE waiting
  /\ UNCHANGED losses

(* The model asks Claude itself, within a turn.                            *)
OwnAsk ==
  /\ hook = "turns"
  /\ \E ok \in BOOLEAN : Log([Event("own ask") EXCEPT !.ok = ok])
  /\ UNCHANGED <<waiting, hook, losses>>

(* The claude process answers, fails, or runs out of time.                 *)
RunCLI ==
  /\ waiting.at = "running"
  /\ \E end \in {"answered", "failed"} : waiting' = [waiting EXCEPT !.at = end]
  /\ UNCHANGED <<history, hook, losses>>

(* Before a request: an ask that is over is recorded, if nobody has spoken *)
(* since it began; else it is dropped.                                     *)
Landed(a) == a.at \in {"answered", "failed"}
(* Mutant: an ask that is over is recorded, whoever has spoken since.      *)
LooksAnyway ==
  /\ hook = "turns" /\ UNCHANGED waiting
  /\ hook' = IF Landed(waiting) THEN "call" ELSE "request"
  /\ UNCHANGED <<history, losses>>

LooksAtAsk ==
  /\ hook = "turns"
  /\ \/ ~Landed(waiting) /\ hook' = "request" /\ UNCHANGED waiting
     \/ Landed(waiting) /\ PersonSpoke(history) = waiting.of.spoken /\ hook' = "call" /\ UNCHANGED waiting
     \/ Landed(waiting) /\ PersonSpoke(history) # waiting.of.spoken /\ hook' = "request" /\ waiting' = NoAsk
  /\ UNCHANGED <<history, losses>>

(* The call is logged with its result: a gate may refuse it; runAsk hands  *)
(* over what waits for that prompt, once.  Then the ask is dropped.        *)
RecordAsk ==
  /\ hook = "call" /\ hook' = "request"
  /\ \E refused \in BOOLEAN :
       Log([k |-> "ask", of |-> waiting.of, ok |-> ~refused /\ waiting.at = "answered"])
  /\ waiting' = NoAsk /\ UNCHANGED losses

(* A person speaks at any time, also between the hook's look and its call. *)
PersonSpeaks ==
  /\ Log(Event("user")) /\ UNCHANGED <<waiting, hook>>
  /\ losses' = IF hook = "call" THEN [losses EXCEPT !.raced = @ \cup {waiting.of}] ELSE losses

(* The history is summarised: requests now begin at the summary.           *)
Summarize ==
  /\ hook = "turns"
  /\ Log(Event("summary")) /\ hook' = "summary" /\ UNCHANGED <<waiting, losses>>

(* The answers of the stretch go back, the newest ones if not all fit.     *)
KeptBlock(all) == {i \in all : Cardinality({j \in all : i < j}) < KeptRoom}
KeepAnswers ==
  /\ hook = "summary" /\ hook' = "turns"
  /\ IF Answers(history) = {} THEN UNCHANGED history
     ELSE Log([k |-> "kept", of |-> KeptBlock(Answers(history)), ok |-> TRUE])
  /\ UNCHANGED <<waiting, losses>>

(* The session is stopped, and perhaps revived later: the ask is dropped.  *)
EndDropsAsk ==
  /\ hook = "turns" /\ waiting # NoAsk
  /\ waiting' = NoAsk /\ UNCHANGED <<history, hook, losses>>

(* The daemon restarts: the module knows nothing but the log.              *)
RestartForgets ==
  /\ losses.restarts < MaxLosses
  /\ waiting' = NoAsk /\ hook' = "turns"
  /\ losses' = [losses EXCEPT !.restarts = @ + 1, !.unkept = @ \/ hook = "summary"]
  /\ UNCHANGED history

StuckNext ==
  \/ TurnEnd \/ OwnAsk \/ RunCLI \/ LooksAtAsk \/ RecordAsk \/ PersonSpeaks
  \/ Summarize \/ KeepAnswers \/ EndDropsAsk \/ RestartForgets

StuckSpec == StuckInit /\ [][StuckNext]_askVars

---------------------------------------------------------------------------
StuckTypeOK ==
  /\ \A i \in DOMAIN history :
       history[i].k \in {"user", "reply", "own ask", "ask", "summary", "kept"} /\ history[i].ok \in BOOLEAN
  /\ waiting.at \in {"none", "running", "answered", "failed"}
  /\ hook \in {"turns", "request", "call", "summary"} /\ losses.restarts \in 0 .. MaxLosses

(* Claude is asked as often as was earned and no more: in each stretch at  *)
(* most AutoMax times, the n-th time after n times AutoAfter turns, also   *)
(* by a daemon that has forgotten what it asked; and what is recorded is   *)
(* about the stretch it stands in, unless the person spoke while it was    *)
(* being recorded.                                                         *)
BeforeAsk(i) == SubSeq(history, 1, i - 1)
HelpIsMeasured ==
  \A i \in Of(history, "ask") :
    /\ Asked(BeforeAsk(i)) < AutoMax
    /\ history[i].of \notin losses.raced =>
         /\ PersonSpoke(BeforeAsk(i)) = history[i].of.spoken
         /\ StuckTurns(BeforeAsk(i)) >= AutoAfter * (Asked(BeforeAsk(i)) + 1)

(* An answer given in this stretch is still in what the model is sent:     *)
(* after the last summary, or in the block that follows it, as far as      *)
(* there is room.  A daemon that dies between a summary and the block      *)
(* leaves it out until the next summary.                                   *)
HelpIsKept ==
  hook # "summary" /\ ~losses.unkept /\ Of(history, "summary") # {} =>
    LET last == CHOOSE i \in Of(history, "summary") : \A j \in Of(history, "summary") : j <= i
        retired == {i \in Answers(history) : i < last}
    IN  \A i \in KeptBlock(retired) :
          \E b \in Of(history, "kept") : b > last /\ i \in history[b].of

(* Claude's help, from the moment it is earned: it comes when it is due    *)
(* and outlives a summary.                                                 *)
HelpIsSound == HelpIsMeasured /\ HelpIsKept
=============================================================================
