----------------------------- MODULE Terminal ------------------------------
(***************************************************************************)
(* The terminal client: the goroutine that owns the connection (tui.go),   *)
(* the client it reads through (goclient/client.go), and the program with  *)
(* its screen (model.go, update.go).  The program hands what the person    *)
(* does to the connection over a channel that outlives connections, and    *)
(* the connection sends the program what it hears.                         *)
(***************************************************************************)
EXTENDS Naturals, Sequences, FiniteSets, SequencesExt, Ordered

CONSTANTS
  Shown,      \* the sessions a person may look at
  AskedPrompts,    \* permission requests
  PromptOf,   \* the session each belongs to
  MaxLogged,  \* bound on the events
  MaxBreaks,  \* bound on the connections that break
  MaxTyped    \* bound on what the person does

ASSUME TerminalAssumption == PromptOf \in [AskedPrompts -> Shown] /\ IsFiniteSet(AskedPrompts)

VARIABLES
  logged,   \* the session of each event: its id is its place, over all sessions
  asked,    \* the daemon's state of each request
  wire,     \* connectLoop: where it is, its session, cursor and what its stream holds
  stray,    \* goroutines of ended connections that are still in a call
  screen,   \* the model: its session, lastEventID, transcript, prompts
  actions,  \* the channel between them: actions in the order they were emitted
  archived, \* the sessions in the archive
  broken, typed,
  spoiled   \* history: what the code does not make up for (README)

terminalVars == <<logged, asked, wire, stray, screen, actions, archived, broken, typed, spoiled>>

EventsOf(s) == {i \in DOMAIN logged : logged[i] = s}
StillOpen(s) == {p \in AskedPrompts : asked[p] = "open" /\ PromptOf[p] = s}
MsgEvent(i) == [k |-> "event", of |-> i]
MsgPrompt(p) == [k |-> "prompt", of |-> p]
Act(k, to) == [k |-> k, to |-> to]

NewModel(s) == [on |-> s, last |-> 0, transcript |-> << >>, prompts |-> << >>]

TerminalInit ==
  /\ logged = << >> /\ asked = [p \in AskedPrompts |-> "new"]
  /\ \E s \in Shown :
       /\ wire = [at |-> "dialing", on |-> s, cursor |-> 0, upto |-> 0, next |-> s,
                  queue |-> << >>, busy |-> FALSE]
       /\ screen = NewModel(s)
  /\ stray = 0 /\ actions = << >> /\ archived = {}
  /\ broken = 0 /\ typed = 0 /\ spoiled = {}

(* The daemon sends a subscribed connection what it logs and asks.         *)
Deliver(s, m) ==
  wire' = IF wire.at \in {"subscribed", "fetched", "live"} /\ wire.on = s
          THEN [wire EXCEPT !.queue = Append(@, m)] ELSE wire

SessionLogs(s) ==
  /\ s \notin archived /\ Len(logged) < MaxLogged
  /\ logged' = Append(logged, s)
  /\ Deliver(s, MsgEvent(Len(logged')))
  /\ UNCHANGED <<asked, stray, screen, actions, archived, broken, typed, spoiled>>

DaemonAsks(p) ==
  /\ asked[p] = "new" /\ PromptOf[p] \notin archived
  /\ asked' = [asked EXCEPT ![p] = "open"]
  /\ Deliver(PromptOf[p], MsgPrompt(p))
  /\ UNCHANGED <<logged, stray, screen, actions, archived, broken, typed, spoiled>>

---------------------------------------------------------------------------
(* appendEvents: what is not past the model's cursor is a duplicate.  An   *)
(* event does not say whose it is.                                         *)
Appended(scr, ids) ==
  LET new == {i \in ids : i > scr.last}
  IN [scr EXCEPT !.transcript = @ \o InOrder(new), !.last = Max(new \cup {@})]

(* enqueue: a request that came again is held already.                     *)
HoldsPrompt(scr, p) == p \in Range(scr.prompts)
Enqueued(scr, p) == IF HoldsPrompt(scr, p) THEN scr ELSE [scr EXCEPT !.prompts = Append(@, p)]

(* Heard over a connection the person has already left for another one.    *)
Switch(a) == a.k \in {"attach", "restore"}
Crossed(heard) ==
  {k \in {"crossed"} : heard /\ (wire.at = "leaving" \/ \E a \in Range(actions) : Switch(a))}

(* Dial and Subscribe: from here the client queues what the daemon sends,  *)
(* first the requests still open.                                          *)
Subscribes ==
  /\ wire.at = "dialing" /\ wire.on \notin archived
  /\ \E again \in SetToSeqs(StillOpen(wire.on)) :
       wire' = [wire EXCEPT !.at = "subscribed", !.queue = [i \in DOMAIN again |-> MsgPrompt(again[i])]]
  /\ UNCHANGED <<logged, asked, stray, screen, actions, archived, broken, typed, spoiled>>

(* EventsAfter: the events past the loop's cursor, when the daemon looks.  *)
Fetches ==
  /\ wire.at = "subscribed"
  /\ wire' = [wire EXCEPT !.at = "fetched", !.upto = Len(logged)]
  /\ UNCHANGED <<logged, asked, stray, screen, actions, archived, broken, typed, spoiled>>

Fetched == {i \in EventsOf(wire.on) : wire.cursor < i /\ i <= wire.upto}

(* Mutant: the stream begins with what comes next, not with what the       *)
(* client queued during the calls before it.                               *)
StreamsFromNow ==
  /\ wire.at = "fetched"
  /\ screen' = Appended(screen, Fetched)
  /\ wire' = [wire EXCEPT !.at = "live", !.upto = 0, !.queue = << >>,
                          !.cursor = Max(Fetched \cup {@})]
  /\ spoiled' = spoiled \cup Crossed(Fetched # {})
  /\ UNCHANGED <<logged, asked, stray, actions, archived, broken, typed>>

(* They go to the screen, and the connection is up.                        *)
CatchUp ==
  /\ wire.at = "fetched"
  /\ screen' = Appended(screen, Fetched)
  /\ wire' = [wire EXCEPT !.at = "live", !.upto = 0, !.cursor = Max(Fetched \cup {@})]
  /\ spoiled' = spoiled \cup Crossed(Fetched # {})
  /\ UNCHANGED <<logged, asked, stray, actions, archived, broken, typed>>

(* Stream's next message, also while the connection is on its way out.     *)
Streams ==
  /\ wire.at \in {"live", "ending", "leaving"} /\ wire.queue # << >>
  /\ LET m == Head(wire.queue) IN
     /\ screen' = IF m.k = "event" THEN Appended(screen, {m.of}) ELSE Enqueued(screen, m.of)
     /\ wire' = [wire EXCEPT !.queue = Tail(@), !.cursor = IF m.k = "event" THEN m.of ELSE @]
     /\ spoiled' = spoiled \cup Crossed(TRUE)
  /\ UNCHANGED <<logged, asked, stray, actions, archived, broken, typed>>

(* The connection breaks: what the reader has read is still heard; before  *)
(* the stream began, nothing is.                                           *)
Breaks ==
  /\ wire.at \in {"subscribed", "fetched", "live"} /\ broken < MaxBreaks /\ broken' = broken + 1
  /\ IF wire.at # "live"
     THEN wire' = [wire EXCEPT !.at = "dialing", !.queue = << >>, !.upto = 0]
     ELSE \E n \in 0..Len(wire.queue) : wire' = [wire EXCEPT !.at = "ending", !.queue = SubSeq(@, 1, n)]
  /\ UNCHANGED <<logged, asked, stray, screen, actions, archived, typed, spoiled>>

(* attach returns.  A goroutine in a call outlives it by a moment.  When   *)
(* the action was a switch, the loop starts over on the other session.     *)
AttachReturns ==
  /\ \/ wire.at = "ending" /\ wire.queue = << >>
     \/ wire.at = "leaving"
  /\ stray' = stray + IF wire.busy THEN 1 ELSE 0
  /\ wire' = [wire EXCEPT !.at = "dialing", !.queue = << >>, !.upto = 0, !.busy = FALSE, !.on = wire.next,
                          !.cursor = IF wire.next = wire.on THEN @ ELSE 0]
  /\ UNCHANGED <<logged, asked, screen, actions, archived, broken, typed, spoiled>>

---------------------------------------------------------------------------
(* perform, by the goroutine of a connection whose client works: an answer *)
(* settles the request, a switch ends the connection, a prompt or another  *)
(* call keeps the goroutine until it is answered.                          *)
Takes == actions # << >> /\ actions' = Tail(actions)
Performs ==
  LET a == Head(actions) IN
  /\ wire.at = "live" /\ ~wire.busy /\ Takes
  /\ CASE a.k = "answer" ->
            /\ asked' = [asked EXCEPT ![a.to] = "closed"] /\ UNCHANGED <<wire, archived, spoiled>>
       [] a.k = "archive" ->
            archived' = archived \cup {y \in {a.to} : StillOpen(y) = {}} /\ UNCHANGED <<wire, asked, spoiled>>
       [] Switch(a) ->
            /\ archived' = archived \ {y \in {a.to} : a.k = "restore"}
            /\ wire' = [wire EXCEPT !.at = "leaving", !.next = a.to]
            /\ spoiled' = spoiled \cup {k \in {"rejoined"} : a.to = wire.on}
            /\ UNCHANGED asked
       [] OTHER -> wire' = [wire EXCEPT !.busy = TRUE] /\ UNCHANGED <<asked, archived, spoiled>>
  /\ UNCHANGED <<logged, stray, screen, broken, typed>>

(* The daemon does not restore the session: the connection stays on the    *)
(* one it was on, under a screen that was reset for the other.             *)
RestoreFails ==
  /\ wire.at = "live" /\ ~wire.busy /\ Takes /\ Head(actions).k = "restore"
  /\ spoiled' = spoiled \cup {"unrestored"}
  /\ UNCHANGED <<logged, asked, wire, stray, screen, archived, broken, typed>>

CallReturns ==
  /\ wire.at = "live" /\ wire.busy /\ wire' = [wire EXCEPT !.busy = FALSE]
  /\ UNCHANGED <<logged, asked, stray, screen, actions, archived, broken, typed, spoiled>>

(* A goroutine whose connection is over finds its context done and an      *)
(* action ready, and may take either: on its dead client the action is     *)
(* lost.  An answer lost before the daemon sends what is open is made up.  *)
StrayPerforms ==
  LET a == Head(actions) IN
  /\ stray > 0 /\ Takes
  /\ spoiled' = spoiled \cup {k \in {"robbed"} :
                  Switch(a) \/ (a.k = "answer" /\ wire.at # "dialing")}
  /\ UNCHANGED <<logged, asked, wire, stray, screen, archived, broken, typed>>

StrayEnds ==
  /\ stray > 0 /\ stray' = stray - 1
  /\ UNCHANGED <<logged, asked, wire, screen, actions, archived, broken, typed, spoiled>>

---------------------------------------------------------------------------
(* The person.  A prompt on the screen takes every key.                    *)
Types == typed < MaxTyped /\ typed' = typed + 1
Emits(a) == actions' = Append(actions, a)

AnswersPrompt ==
  /\ screen.prompts # << >> /\ Types
  /\ Emits(Act("answer", Head(screen.prompts)))
  /\ screen' = [screen EXCEPT !.prompts = Tail(@)]
  /\ UNCHANGED <<logged, asked, wire, stray, archived, broken, spoiled>>

(* The picker: the chosen session is another one, or one in the archive.   *)
Picks(s) ==
  /\ screen.prompts = << >> /\ Types
  /\ s # screen.on \/ s \in archived
  /\ Emits(Act(IF s \in archived THEN "restore" ELSE "attach", s))
  /\ screen' = NewModel(s)
  /\ UNCHANGED <<logged, asked, wire, stray, archived, broken, spoiled>>

(* What is typed goes out with the session on the screen; the picker       *)
(* archives any session without open questions.                            *)
Submits ==
  /\ screen.prompts = << >> /\ Types
  /\ \/ Emits(Act("prompt", screen.on))
     \/ \E s \in Shown \ archived : StillOpen(s) = {} /\ Emits(Act("archive", s))
  /\ UNCHANGED <<logged, asked, wire, stray, screen, archived, broken, spoiled>>

(* Another client answers: this one is not told.                           *)
AnsweredElsewhere(p) ==
  /\ asked[p] = "open" /\ asked' = [asked EXCEPT ![p] = "closed"]
  /\ UNCHANGED <<logged, wire, stray, screen, actions, archived, broken, typed, spoiled>>

TerminalNext ==
  \/ \E s \in Shown : SessionLogs(s) \/ Picks(s)
  \/ \E p \in AskedPrompts : DaemonAsks(p) \/ AnsweredElsewhere(p)
  \/ Subscribes \/ Fetches \/ CatchUp \/ Streams \/ Breaks \/ AttachReturns
  \/ Performs \/ RestoreFails \/ StrayPerforms \/ CallReturns \/ StrayEnds \/ AnswersPrompt \/ Submits

TerminalSpec == TerminalInit /\ [][TerminalNext]_terminalVars

---------------------------------------------------------------------------
TerminalTypeOK ==
  /\ logged \in Seq(Shown) /\ asked \in [AskedPrompts -> {"new", "open", "closed"}]
  /\ wire.at \in {"dialing", "subscribed", "fetched", "live", "ending", "leaving"}
  /\ {wire.on, wire.next, screen.on} \cup archived \subseteq Shown
  /\ {wire.cursor, wire.upto} \subseteq 0..Len(logged) /\ screen.last \in 0..Len(logged)
  /\ Range(screen.prompts) \subseteq AskedPrompts
  /\ spoiled \subseteq {"crossed", "robbed", "rejoined", "unrestored"}

Settled == wire.at = "live" /\ wire.queue = << >> /\ actions = << >>

(* A connection that has heard everything it was sent shows the session    *)
(* the person chose, every event of it once and in order, however often it *)
(* broke and was caught up; and every request of it that is still open is  *)
(* on the screen (tui.go attach, model.go appendEvents and enqueue).       *)
ScreenIsWhole ==
  Settled /\ spoiled = {} =>
    /\ screen.on = wire.on
    /\ screen.transcript = InOrder(EventsOf(screen.on))
    /\ StillOpen(screen.on) \subseteq Range(screen.prompts)

(* model.go reset, "clears everything belonging to one session, in one     *)
(* operation. Doing it field by field is how a transcript ends up under    *)
(* the wrong session's id": what is on the screen is its session's.        *)
TranscriptIsOwn == \A i \in Range(screen.transcript) : logged[i] = screen.on
=============================================================================
