------------------------------ MODULE Notifier ------------------------------
(***************************************************************************)
(* The phone notifier (daemon/notify): a bounded queue of things heard     *)
(* from sessions and requests, one goroutine that decides what each is     *)
(* worth, and the registered devices.  An append never waits on it, so a   *)
(* full queue drops.  A daemon that stops lets go of the notifier first    *)
(* (daemon.go, Shutdown); a restart loses the queue and the turn starts,   *)
(* and pauses what was running under the new notifier's eyes.              *)
(***************************************************************************)
EXTENDS Naturals, Sequences, FiniteSets, SequencesExt

CONSTANTS
  Sessions,   \* sessions without a parent, and with one
  Children,   \* the ones with a parent
  Tokens,     \* device tokens
  QueueSize,  \* queueSize, 1024 in the code
  DoneAfter,  \* the shortest turn whose end notifies
  MaxClock,   \* bound on time
  MaxAppends, \* bound on the state changes appended
  MaxRestarts \* bound on the daemon's restarts

ASSUME NotifierAssumption ==
  /\ Children \subseteq Sessions
  /\ QueueSize \in Nat \ {0} /\ DoneAfter \in Nat
  /\ MaxClock \in Nat /\ MaxAppends \in Nat /\ MaxRestarts \in Nat

VARIABLES
  queue,      \* in: items not yet decided
  turnStart,  \* when each session's turn started, as far as the notifier saw
  devices,    \* the registered tokens, in order
  sState,     \* each session's state
  began,      \* when its current turn really began
  labelled,   \* sessions that carry a notifying label
  clock,
  appends,    \* state changes appended so far
  owed,       \* history: ends of turns worth a notification, by number
  lost,       \* history: items dropped or lost, by number
  heard,      \* history: ends of turns that were notified, by number
  shownAsk,   \* requests a phone was told of and not yet told the end of
  daemon,     \* "up", "stopping" from stopNotify on, "starting" until it serves
  restarts,   \* how often it has come back
  orphans     \* history: requests whose end went down with a daemon

daemonVars == <<daemon, restarts, orphans>>
notifierVars == <<queue, turnStart, devices, sState, began, labelled, clock, appends, owed, lost,
                  heard, shownAsk, daemonVars>>

Roots  == Sessions \ Children
Unseen == 0   \* no turn start recorded; clocks start at 1
Stops  == {"blocked", "error", "paused"}

NotifierInit ==
  /\ queue = <<>> /\ turnStart = [s \in Sessions |-> Unseen] /\ devices = <<>>
  /\ sState = [s \in Sessions |-> "idle"] /\ began = [s \in Sessions |-> Unseen]
  /\ labelled = {} /\ clock = 1 /\ appends = 0
  /\ owed = {} /\ lost = {} /\ heard = {} /\ shownAsk = {}
  /\ daemon = "up" /\ restarts = 0 /\ orphans = {}

(* Mutant: the queue has no end.                                           *)
OfferAlways(item, n) == queue' = Append(queue, item) /\ UNCHANGED lost

(* offer: a full queue drops the item.                                     *)
Offer(item, n) ==
  IF Len(queue) < QueueSize THEN queue' = Append(queue, item) /\ UNCHANGED lost
  ELSE UNCHANGED queue /\ lost' = lost \cup {n}

---------------------------------------------------------------------------
(* What a session's log receives, told to the notifier as it is appended.  *)
Tick ==
  /\ clock < MaxClock /\ clock' = clock + 1
  /\ UNCHANGED <<queue, turnStart, devices, sState, began, labelled, appends, owed, lost, heard,
                 shownAsk, daemonVars>>

StateChange(s, to, reason) ==
  /\ appends < MaxAppends /\ sState[s] # to
  /\ appends' = appends + 1
  /\ sState' = [sState EXCEPT ![s] = to]
  /\ began' = IF to = "running" THEN [began EXCEPT ![s] = clock] ELSE began
  /\ Offer([k |-> "state", s |-> s, from |-> sState[s], to |-> to, reason |-> reason, at |-> clock,
            n |-> appends + 1], appends + 1)
  /\ owed' = IF /\ s \in Roots /\ sState[s] = "running"
                /\ \/ to \in Stops
                   \/ to = "idle" /\ reason = "turn_complete" /\ clock - began[s] >= DoneAfter
             THEN owed \cup {appends + 1} ELSE owed
  /\ UNCHANGED <<turnStart, devices, labelled, clock, heard, shownAsk, daemonVars>>

Begin(s) ==
  /\ daemon # "starting" /\ sState[s] \in {"idle", "blocked", "paused"}
  /\ StateChange(s, "running", "prompt")

Finish(s) ==
  /\ daemon # "starting" /\ sState[s] = "running"
  /\ \/ StateChange(s, "idle", "turn_complete") \/ StateChange(s, "idle", "interrupted")
     \/ \E to \in Stops : StateChange(s, to, "finished")

Relabel(s) ==
  /\ daemon # "starting"
  /\ labelled' = IF s \in labelled THEN labelled \ {s} ELSE labelled \cup {s}
  /\ appends < MaxAppends /\ appends' = appends + 1
  /\ Offer([k |-> "labels", s |-> s, to |-> s \notin labelled, n |-> appends + 1], appends + 1)
  /\ owed' = IF s \in Roots \ labelled THEN owed \cup {appends + 1} ELSE owed
  /\ UNCHANGED <<turnStart, devices, sState, began, clock, heard, shownAsk, daemonVars>>

---------------------------------------------------------------------------
(* Mutant: a turn whose start was missed counts as short.                  *)
LongEnoughSeen(item) ==
  turnStart[item.s] # Unseen /\ item.at - turnStart[item.s] >= DoneAfter

(* decide, for the item at the head of the queue.  A turn whose start the  *)
(* notifier missed counts as long; a session with a parent is not notified.*)
LongEnough(item) ==
  turnStart[item.s] = Unseen \/ item.at - turnStart[item.s] >= DoneAfter

Worth(item) ==
  /\ item.s \in Roots
  /\ \/ item.k = "labels" /\ item.to
     \/ /\ item.k = "state" /\ item.from = "running"
        /\ \/ item.to \in Stops
           \/ item.to = "idle" /\ item.reason = "turn_complete" /\ LongEnough(item)

(* send: every device; a token the service no longer knows is dropped.     *)
Send == \E stale \in SUBSET Range(devices) :
          devices' = SelectSeq(devices, LAMBDA t : t \notin stale)

Decide ==
  /\ queue # <<>> /\ daemon # "stopping"
  /\ queue' = Tail(queue)
  /\ LET item == Head(queue)
     IN  IF item.k = "request"
         THEN /\ Send
              /\ shownAsk' = IF item.open THEN shownAsk \cup {item.r} ELSE shownAsk \ {item.r}
              /\ UNCHANGED <<turnStart, heard>>
         ELSE /\ turnStart' = IF item.k = "labels" THEN turnStart
                              ELSE [turnStart EXCEPT ![item.s] = IF item.to = "running" THEN item.at ELSE Unseen]
              /\ IF Worth(item) THEN Send /\ heard' = heard \cup {item.n}
                 ELSE UNCHANGED <<devices, heard>>
              /\ UNCHANGED shownAsk
  /\ UNCHANGED <<sState, began, labelled, clock, appends, owed, lost, daemonVars>>

(* A phone registers on every connect, and is then the newest.             *)
Register(t) ==
  /\ daemon # "starting"
  /\ devices' = Append(SelectSeq(devices, LAMBDA x : x # t), t)
  /\ UNCHANGED <<queue, turnStart, sState, began, labelled, clock, appends, owed, lost, heard,
                 shownAsk, daemonVars>>

Unregister(t) ==
  /\ daemon # "starting" /\ t \in Range(devices)
  /\ devices' = SelectSeq(devices, LAMBDA x : x # t)
  /\ UNCHANGED <<queue, turnStart, sState, began, labelled, clock, appends, owed, lost, heard,
                 shownAsk, daemonVars>>

---------------------------------------------------------------------------
(* Shutdown ends the notifier's context before the sessions are paused and *)
(* their requests given up.  Run may still take an item; sending it fails. *)
StopNotify ==
  /\ daemon = "up" /\ daemon' = "stopping"
  /\ UNCHANGED <<queue, turnStart, devices, sState, began, labelled, clock, appends, owed, lost,
                 heard, shownAsk, restarts, orphans>>

DecideTooLate ==
  /\ queue # <<>> /\ daemon = "stopping"
  /\ queue' = Tail(queue)
  /\ LET item == Head(queue)
     IN  /\ lost' = IF item.k = "request" THEN lost ELSE lost \cup {item.n}
         /\ orphans' = IF item.k = "request" THEN orphans \cup {item.r} ELSE orphans
  /\ UNCHANGED <<turnStart, devices, sState, began, labelled, clock, appends, owed, heard, shownAsk,
                 daemon, restarts>>

(* The daemon is gone, stopped or crashed, and starts again: what was      *)
(* queued is lost, the devices file is not, and the phones show what they  *)
(* showed.                                                                 *)
NotifierRestart ==
  /\ restarts < MaxRestarts /\ restarts' = restarts + 1 /\ daemon' = "starting"
  /\ queue' = <<>> /\ lost' = lost \cup {queue[i].n : i \in {j \in DOMAIN queue : queue[j].k # "request"}}
  /\ turnStart' = [s \in Sessions |-> Unseen]
  /\ orphans' = orphans \cup shownAsk
  /\ UNCHANGED <<devices, sState, began, labelled, clock, appends, owed, heard, shownAsk>>

(* Before it serves, the daemon pauses what was running, and the notifier, *)
(* which runs already, hears it.                                           *)
RecoverInterrupted(s) ==
  /\ daemon = "starting" /\ sState[s] = "running"
  /\ StateChange(s, "paused", "daemon_restart")

Serve ==
  /\ daemon = "starting" /\ daemon' = "up"
  /\ \A s \in Sessions : sState[s] # "running"
  /\ UNCHANGED <<queue, turnStart, devices, sState, began, labelled, clock, appends, owed, lost,
                 heard, shownAsk, restarts, orphans>>

SessionEvents ==
  \/ Tick
  \/ \E s \in Sessions : Begin(s) \/ Finish(s) \/ Relabel(s) \/ RecoverInterrupted(s)
  \/ \E t \in Tokens : Register(t) \/ Unregister(t)
  \/ Decide \/ StopNotify \/ DecideTooLate \/ Serve

---------------------------------------------------------------------------
NotifierTypeOK ==
  /\ Len(queue) <= QueueSize
  /\ turnStart \in [Sessions -> 0 .. MaxClock] /\ began \in [Sessions -> 0 .. MaxClock]
  /\ Range(devices) \subseteq Tokens
  /\ sState \in [Sessions -> {"idle", "running"} \cup Stops]
  /\ labelled \subseteq Sessions /\ clock \in 1 .. MaxClock
  /\ owed \cup heard \subseteq 1 .. appends
  /\ daemon \in {"up", "stopping", "starting"} /\ restarts \in 0 .. MaxRestarts

(* No end goes unheard: a turn that stopped, or ran long, on a session     *)
(* without a parent is notified, unless its own item was dropped or was    *)
(* queued when the daemon stopped.  Losing the item of its start, or an    *)
(* earlier end, only ever notifies more.                                   *)
Queued == {queue[i].n : i \in {j \in DOMAIN queue : queue[j].k # "request"}}
EndsAreHeard == owed \ (lost \cup Queued) \subseteq heard
=============================================================================
