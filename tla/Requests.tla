------------------------------ MODULE Requests ------------------------------
(***************************************************************************)
(* Daemon-to-client requests (daemon/api/requests.go): a permission or a   *)
(* question of one session, broadcast to every connection subscribed to    *)
(* it, settled by the first answer, a timeout or the caller's context, and *)
(* told to the phone notifier when it opens and when its wait ends.        *)
(***************************************************************************)
EXTENDS Notifier

CONSTANTS
  Clients,    \* connections
  Questions,  \* request ids, each asked once
  Waits,      \* the ones that wait for a client to attach (ui.ask)
  Nobody

ASSUME RequestsAssumption == Waits \subseteq Questions /\ Nobody \notin Clients

VARIABLES
  req,        \* pendingRequest.state, with "new" before and "gone" after
  asker,      \* where the goroutine that asked is
  channel,    \* the answer in p.answer
  winners,    \* history: the client whose answer came first
  outcomes,   \* what the asker was given
  subscribed, \* connections subscribed to the session
  shown,      \* how often each connection was sent each request, since it subscribed
  sending,    \* responders that won and have not sent on the channel yet
  resumes     \* late answers that asked the manager to resume

requestVars == <<req, asker, channel, winners, outcomes, subscribed, shown, sending, resumes>>

Known == {q \in Questions : req[q] \in {"open", "answered", "timed out"}}

RequestsInit ==
  /\ req = [q \in Questions |-> "new"] /\ asker = [q \in Questions |-> "idle"]
  /\ channel = [q \in Questions |-> Nobody] /\ winners = [q \in Questions |-> Nobody]
  /\ outcomes = [q \in Questions |-> "asked"]
  /\ subscribed = {} /\ shown = [c \in Clients |-> [q \in Questions |-> 0]]
  /\ sending = {} /\ resumes = 0

(* ask: registered and broadcast under reqMu, or failed at once when a     *)
(* permission finds nobody attached.                                       *)
Ask(q) ==
  /\ daemon # "starting" /\ req[q] = "new" /\ asker[q] = "idle"
  /\ IF subscribed = {} /\ q \notin Waits
     THEN /\ asker' = [asker EXCEPT ![q] = "done"]
          /\ outcomes' = [outcomes EXCEPT ![q] = "unanswered"]
          /\ UNCHANGED <<req, shown>>
     ELSE /\ req' = [req EXCEPT ![q] = "open"]
          /\ asker' = [asker EXCEPT ![q] = "asked"]
          /\ shown' = [c \in Clients |-> [shown[c] EXCEPT ![q] = IF c \in subscribed THEN @ + 1 ELSE @]]
          /\ UNCHANGED outcomes
  /\ UNCHANGED <<channel, winners, subscribed, sending, resumes, notifierVars>>

(* Outside reqMu: the notifier hears of it, and the wait begins.           *)
Opened(q) ==
  /\ asker[q] = "asked"
  /\ asker' = [asker EXCEPT ![q] = "waiting"]
  /\ Offer([k |-> "request", r |-> q, open |-> TRUE, n |-> 0], 0)
  /\ UNCHANGED <<req, channel, winners, outcomes, subscribed, shown, sending, resumes>>
  /\ UNCHANGED <<turnStart, devices, sState, began, labelled, clock, appends, owed, heard, shownAsk, daemonVars>>

(* Mutant: a connection that joins is sent only what is asked from then on. *)
SubscribeOnly(c) ==
  /\ daemon # "starting" /\ c \notin subscribed /\ subscribed' = subscribed \cup {c}
  /\ UNCHANGED <<req, asker, channel, winners, outcomes, shown, sending, resumes, notifierVars>>

(* subscribeAndCatchUp, under reqMu: joined, and sent what is open.        *)
Subscribe(c) ==
  /\ daemon # "starting" /\ c \notin subscribed
  /\ subscribed' = subscribed \cup {c}
  /\ shown' = [shown EXCEPT ![c] = [q \in Questions |-> IF req[q] = "open" THEN @[q] + 1 ELSE @[q]]]
  /\ UNCHANGED <<req, asker, channel, winners, outcomes, sending, resumes, notifierVars>>

Leave(c) ==
  /\ c \in subscribed
  /\ subscribed' = subscribed \ {c}
  /\ shown' = [shown EXCEPT ![c] = [q \in Questions |-> 0]]
  /\ UNCHANGED <<req, asker, channel, winners, outcomes, sending, resumes, notifierVars>>

(* Mutant: whoever answers last is taken for the one who did.              *)
AnswerAgain(c, q) ==
  /\ req[q] \in {"open", "answered"} /\ shown[c][q] > 0
  /\ req' = [req EXCEPT ![q] = "answered"] /\ winners' = [winners EXCEPT ![q] = c]
  /\ sending' = sending \cup {<<c, q>>}
  /\ UNCHANGED <<asker, channel, outcomes, subscribed, shown, resumes, notifierVars>>

(* routeResponse: the first answer resolves the request under its lock and *)
(* is sent on the channel after; an answer to a resolved one is refused;   *)
(* one that came after the timeout resumes the session.                    *)
Answer(c, q) ==
  /\ q \in Known /\ shown[c][q] > 0
  /\ \/ /\ req[q] = "open"
        /\ req' = [req EXCEPT ![q] = "answered"] /\ winners' = [winners EXCEPT ![q] = c]
        /\ sending' = sending \cup {<<c, q>>}
        /\ UNCHANGED resumes
     \/ /\ req[q] = "timed out" /\ resumes = 0
        /\ resumes' = 1
        /\ UNCHANGED <<req, winners, sending>>
  /\ UNCHANGED <<asker, channel, outcomes, subscribed, shown, notifierVars>>

SendAnswer(c, q) ==
  /\ <<c, q>> \in sending
  /\ sending' = sending \ {<<c, q>>}
  /\ channel' = [channel EXCEPT ![q] = c]
  /\ UNCHANGED <<req, asker, winners, outcomes, subscribed, shown, resumes, notifierVars>>

(* The select: an answer, or the timer or the context, also when both are  *)
(* ready.  markTimedOut is a step of its own, after the choice.            *)
TakeAnswer(q) ==
  /\ asker[q] = "waiting" /\ channel[q] # Nobody
  /\ asker' = [asker EXCEPT ![q] = "closing"]
  /\ outcomes' = [outcomes EXCEPT ![q] = channel[q]]
  /\ UNCHANGED <<req, channel, winners, subscribed, shown, sending, resumes, notifierVars>>

GiveUp(q) ==
  /\ asker[q] = "waiting"
  /\ asker' = [asker EXCEPT ![q] = "gave up"]
  /\ UNCHANGED <<req, channel, winners, outcomes, subscribed, shown, sending, resumes, notifierVars>>

MarkTimedOut(q) ==
  /\ asker[q] = "gave up"
  /\ asker' = [asker EXCEPT ![q] = "closing"]
  /\ req' = [req EXCEPT ![q] = IF @ = "open" THEN "timed out" ELSE @]
  /\ outcomes' = [outcomes EXCEPT ![q] = "unanswered"]
  /\ UNCHANGED <<channel, winners, subscribed, shown, sending, resumes, notifierVars>>

(* The deferred calls: the notifier hears of the end, however it came.     *)
Closed(q) ==
  /\ asker[q] = "closing"
  /\ asker' = [asker EXCEPT ![q] = "done"]
  /\ Offer([k |-> "request", r |-> q, open |-> FALSE, n |-> 0], 0)
  /\ UNCHANGED <<req, channel, winners, outcomes, subscribed, shown, sending, resumes>>
  /\ UNCHANGED <<turnStart, devices, sState, began, labelled, clock, appends, owed, heard, shownAsk, daemonVars>>

(* The grace window has passed.                                            *)
Forget(q) ==
  /\ asker[q] = "done" /\ q \in Known
  /\ req' = [req EXCEPT ![q] = "gone"]
  /\ UNCHANGED <<asker, channel, winners, outcomes, subscribed, shown, sending, resumes, notifierVars>>

(* The daemon is gone: requests live in memory, and so does what the       *)
(* phones still had to be told.                                            *)
RequestsRestart ==
  /\ req' = [q \in Questions |-> IF q \in Known THEN "gone" ELSE req[q]]
  /\ asker' = [q \in Questions |-> IF asker[q] = "idle" THEN "idle" ELSE "done"]
  /\ outcomes' = [q \in Questions |-> IF outcomes[q] = "asked" /\ asker[q] # "idle" THEN "unanswered" ELSE outcomes[q]]
  /\ subscribed' = {} /\ shown' = [c \in Clients |-> [q \in Questions |-> 0]]
  /\ sending' = {} /\ UNCHANGED <<channel, winners, resumes>>
  /\ NotifierRestart

RequestsNext ==
  \/ \E q \in Questions : \/ Ask(q) \/ Opened(q) \/ TakeAnswer(q) \/ GiveUp(q)
                          \/ MarkTimedOut(q) \/ Closed(q) \/ Forget(q)
  \/ \E c \in Clients : Subscribe(c) \/ Leave(c)
  \/ \E c \in Clients, q \in Questions : Answer(c, q) \/ SendAnswer(c, q)
  \/ RequestsRestart
  \/ SessionEvents /\ UNCHANGED requestVars

RequestsSpec == NotifierInit /\ RequestsInit /\ [][RequestsNext]_<<notifierVars, requestVars>>

---------------------------------------------------------------------------
RequestsTypeOK ==
  /\ req \in [Questions -> {"new", "open", "answered", "timed out", "gone"}]
  /\ asker \in [Questions -> {"idle", "asked", "waiting", "gave up", "closing", "done"}]
  /\ channel \in [Questions -> Clients \cup {Nobody}] /\ winners \in [Questions -> Clients \cup {Nobody}]
  /\ outcomes \in [Questions -> Clients \cup {"asked", "unanswered"}]
  /\ subscribed \subseteq Clients /\ shown \in [Clients -> [Questions -> Nat]]
  /\ sending \subseteq Clients \X Questions
  /\ resumes \in {0, 1}

(* A connection that is subscribed while a request is open has been sent   *)
(* it, and never twice, whichever of the broadcast and the subscribe came  *)
(* first (requests.go: "exactly once, by one path or the other").          *)
ShownExactlyOnce ==
  /\ \A c \in subscribed, q \in Questions : req[q] = "open" => shown[c][q] = 1
  /\ \A c \in Clients, q \in Questions : shown[c][q] <= 1

(* The phones are told: of every end that is worth it (EndsAreHeard), the  *)
(* recovery's pause after a restart among them, and of every request they  *)
(* show, that its wait is over; but for an item that a full queue dropped, *)
(* and for the requests a daemon that stopped or crashed left on them      *)
(* (see NotificationsEnd).                                                 *)
Waited(q) == asker[q] \in {"waiting", "gave up", "closing"}
EndQueued(q) == \E i \in DOMAIN queue : queue[i].k = "request" /\ queue[i].r = q /\ ~queue[i].open

PhonesAreTold ==
  /\ EndsAreHeard
  /\ \A q \in shownAsk \ orphans : Waited(q) \/ EndQueued(q) \/ 0 \in lost

(* requests.go:148: "Closed however the wait ends, so the notification     *)
(* never outlives it."  Told of the daemon that asked, before any crash or *)
(* restart: it does not hold of one that stops, which lets the notifier go *)
(* before it gives the requests up.                                        *)
NotificationsEnd ==
  restarts = 0 => \A q \in shownAsk : Waited(q) \/ EndQueued(q) \/ 0 \in lost

(* The asker is served as Asker says.                                      *)
Promise == INSTANCE Asker WITH winner <- winners, outcome <- outcomes
AskersAreServed == Promise!AskerSpec
=============================================================================
