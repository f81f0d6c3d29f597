-------------------------------- MODULE Phone --------------------------------
(***************************************************************************)
(* The Android client's data layer: clients/android, data/ and net/, with  *)
(* the daemon's side of a prompt that carries a client_id.  One session.   *)
(*                                                                         *)
(* A prompt is queued on the phone before it is sent.  Several coroutines  *)
(* may drain the queue at once: one per prompt sent, one on connecting,    *)
(* and the outbox worker on a connection of its own.  The session's log    *)
(* reaches the mirror by a catch-up and by pushes, in either order, each   *)
(* under the session's lock; the list of sessions, asked for again and     *)
(* again, rewrites or deletes the session's row with no lock held.         *)
(*                                                                         *)
(* The events of the log are known by their place in it, which is what     *)
(* their ids sort by.  Prompts are numbered as they are composed.          *)
(***************************************************************************)
EXTENDS Naturals, Sequences, FiniteSets, SequencesExt, Ordered

CONSTANTS
  Drainers,    \* the coroutines that drain the outbox
  Refreshers,  \* the coroutines that ask for the list of sessions
  MaxPrompts, MaxOthers, MaxCuts, MaxPauses,  \* bounds of the model
  Buffer       \* room for pushes the collector has not taken

ASSUME PhoneAssumption ==
  {MaxPrompts, MaxOthers, MaxCuts, MaxPauses, Buffer} \subseteq Nat /\ "nobody" \notin Drainers

VARIABLES
  eventLog,     \* the session's log: the prompt each event records, 0 for another event
  paused,  \* the session takes no prompts
  outbox,  \* each prompt's row
  drain,   \* what each drainer is doing
  prompts,   \* send_prompt calls at the daemon
  mirror,  \* the phone's copy: its rows in ordinal order, the cursor, whether it is synced
  link,    \* the connection that watches: the socket, the subscription, pushes not taken
  fetch,   \* the catch-up that holds the session's lock
  refresh, \* where each refresher is with the list, and the session's row as it read it
  been     \* history: prompts sent again while a call for them was open, prompts ever
           \* refused, whether a catch-up failed with pushes behind it or to come, whether a
           \* list older than the session deleted its events; and counts

phoneVars == <<eventLog, paused, outbox, drain, prompts, mirror, link, fetch, refresh, been>>

Prompts == 1 .. MaxPrompts
Off == [at |-> "off"]
NoFetch == [at |-> "none"]
Resting == [at |-> "idle"]
Emptied == [rows |-> <<>>, cursor |-> 0, synced |-> FALSE]
LogOf(p) == {i \in DOMAIN eventLog : eventLog[i] = p}
Pending == InOrder({p \in Prompts : outbox[p] = "pending"})

PhoneInit ==
  /\ eventLog = <<0>> /\ paused = FALSE
  /\ outbox = [p \in Prompts |-> "none"] /\ drain = [d \in Drainers |-> Off] /\ prompts = {}
  /\ mirror = Emptied /\ fetch = NoFetch
  /\ link \in [up : {"off", "up"}, sub : {FALSE}, pushes : {<<>>}]
  /\ refresh \in [Refreshers -> {Resting} \cup [at : {"listed"}, has : {FALSE}]]
  /\ link.up = "off" => \A r \in Refreshers : refresh[r] = Resting
  /\ been = [overlapped |-> {}, refused |-> {}, torn |-> FALSE, forgotten |-> FALSE, cuts |-> 0, pauses |-> 0]

---------------------------------------------------------------------------
(* The daemon appends; a subscribed phone is pushed the event, and one     *)
(* that has no room for it gives the connection up.                        *)
Appends(p) ==
  /\ eventLog' = Append(eventLog, p)
  /\ link' = IF link.up # "up" \/ ~link.sub THEN link
             ELSE IF Len(link.pushes) < Buffer THEN [link EXCEPT !.pushes = Append(@, Len(eventLog) + 1)]
             ELSE [link EXCEPT !.up = "down"]

SessionGoesOn ==
  /\ Cardinality(LogOf(0)) <= MaxOthers
  /\ Appends(0)
  /\ UNCHANGED <<paused, outbox, drain, prompts, mirror, fetch, refresh, been>>

PauseOrResume ==
  /\ been.pauses < MaxPauses
  /\ paused' = ~paused /\ been' = [been EXCEPT !.pauses = @ + 1]
  /\ UNCHANGED <<eventLog, outbox, drain, prompts, mirror, link, fetch, refresh>>

---------------------------------------------------------------------------
(* The outbox: queuePrompt, flushOutbox, retryBlocked, discardBlocked.     *)
Compose(p) ==
  /\ outbox[p] = "none" /\ \A q \in 1 .. (p - 1) : outbox[q] # "none"
  /\ outbox' = [outbox EXCEPT ![p] = "pending"]
  /\ UNCHANGED <<eventLog, paused, drain, prompts, mirror, link, fetch, refresh, been>>

BeginDrain(d) ==
  /\ drain[d] = Off /\ Pending # <<>>
  /\ drain' = [drain EXCEPT ![d] = [at |-> "item", todo |-> Pending]]
  /\ UNCHANGED <<eventLog, paused, outbox, prompts, mirror, link, fetch, refresh, been>>

(* The rows are those of when the drain began, whatever became of them.    *)
SendPrompt(d) ==
  /\ drain[d].at = "item"
  /\ IF drain[d].todo = <<>>
     THEN drain' = [drain EXCEPT ![d] = Off] /\ UNCHANGED <<prompts, been>>
     ELSE LET p == Head(drain[d].todo)
          IN  /\ prompts' = prompts \cup {[p |-> p, by |-> d, at |-> "arrived", n |-> been.cuts]}
              /\ drain' = [drain EXCEPT ![d].at = "call"]
              /\ been' = IF \E c \in prompts : c.p = p THEN [been EXCEPT !.overlapped = @ \cup {p}] ELSE been
  /\ UNCHANGED <<eventLog, paused, outbox, mirror, link, fetch, refresh>>

(* The daemon's answer to a drainer that still waits for it.               *)
Answered(c, row) ==
  /\ prompts' = prompts \ {c}
  /\ LET heard == c.by # "nobody" IN
     /\ outbox' = IF heard /\ outbox[c.p] # "none" /\ ~(row = "blocked" /\ outbox[c.p] = "sent")
                  THEN [outbox EXCEPT ![c.p] = row] ELSE outbox
     /\ drain' = IF heard THEN [drain EXCEPT ![c.by] = [at |-> "item", todo |-> Tail(@.todo)]] ELSE drain

(* PromptWithID looks for the client_id first, with nothing held ...       *)
LookForId(c) ==
  /\ c \in prompts /\ c.at = "arrived"
  /\ IF LogOf(c.p) # {} THEN Answered(c, "sent")
     ELSE /\ prompts' = (prompts \ {c}) \cup {[c EXCEPT !.at = "new"]}
          /\ UNCHANGED <<outbox, drain>>
  /\ UNCHANGED <<eventLog, paused, mirror, link, fetch, refresh, been>>

(* ... and then takes the lock, and appends or refuses.                    *)
TakePrompt(c) ==
  /\ c \in prompts /\ c.at = "new"
  /\ IF paused
     THEN /\ Answered(c, "blocked") /\ been' = [been EXCEPT !.refused = @ \cup {c.p}]
          /\ UNCHANGED <<eventLog, link, refresh>>
     ELSE Answered(c, "sent") /\ Appends(c.p) /\ UNCHANGED been
  /\ UNCHANGED <<paused, mirror, fetch, refresh>>

(* A prompt's call goes without an answer: it may have reached the daemon  *)
(* or not.  The drain stops there rather than reorder the rest.            *)
Unanswered(d, then) ==
  /\ drain[d].at = "call" /\ been.cuts < MaxCuts
  /\ been' = [been EXCEPT !.cuts = @ + 1]
  /\ \E c \in prompts : /\ c.by = d
                      /\ prompts' \in {prompts \ {c}, (prompts \ {c}) \cup {[c EXCEPT !.by = "nobody"]}}
  /\ drain' = [drain EXCEPT ![d] = then]
  /\ UNCHANGED <<eventLog, paused, outbox, mirror, link, fetch, refresh>>

(* Mutant: the drain goes on with the next prompt.                         *)
CutOffAndOn(d) == Unanswered(d, [at |-> "item", todo |-> Tail(drain[d].todo)])

CutOff(d) == Unanswered(d, Off)

(* A refused prompt waits for the person: to be sent again, or thrown away. *)
RetryOrDiscard(p) ==
  /\ outbox[p] = "blocked"
  /\ \E row \in {"pending", "discarded"} : outbox' = [outbox EXCEPT ![p] = row]
  /\ UNCHANGED <<eventLog, paused, drain, prompts, mirror, link, fetch, refresh, been>>

---------------------------------------------------------------------------
(* The mirror.  Connecting, then sync: subscribe, and ask for what follows *)
(* the cursor, all under the session's lock.  A cursor with no events      *)
(* behind it is not gone by (cursorFor).                                   *)
Connect ==
  /\ link.up = "off"
  /\ link' = [up |-> "up", sub |-> FALSE, pushes |-> <<>>]
  /\ UNCHANGED <<eventLog, paused, outbox, drain, prompts, mirror, fetch, refresh, been>>

PhoneSubscribe ==
  /\ link.up = "up" /\ fetch = NoFetch
  /\ link' = [link EXCEPT !.sub = TRUE]
  /\ fetch' = [at |-> "asked", from |-> IF mirror.rows = <<>> THEN 0 ELSE mirror.cursor]
  /\ UNCHANGED <<eventLog, paused, outbox, drain, prompts, mirror, refresh, been>>

EventsAfter ==
  /\ link.up = "up" /\ fetch.at = "asked"
  /\ fetch' = [at |-> "answered", events |-> [i \in 1 .. (Len(eventLog) - fetch.from) |-> fetch.from + i]]
  /\ UNCHANGED <<eventLog, paused, outbox, drain, prompts, mirror, link, refresh, been>>

(* apply: the rows go behind those there are, a row there is stays where   *)
(* it is, and the cursor moves to the last event given.                    *)
Apply(events) ==
  mirror' = [rows   |-> mirror.rows \o InOrder(Range(events) \ Range(mirror.rows)),
             cursor |-> IF events = <<>> THEN mirror.cursor ELSE Last(events),
             synced |-> TRUE]

FinishSync ==
  /\ fetch.at = "answered"
  /\ Apply(fetch.events) /\ fetch' = NoFetch
  /\ UNCHANGED <<eventLog, paused, outbox, drain, prompts, link, refresh, been>>

(* Mutant: a push is applied while the catch-up waits for its answer.      *)
RecordAtOnce ==
  /\ link.up # "off" /\ link.pushes # <<>>
  /\ link' = [link EXCEPT !.pushes = Tail(@)]
  /\ IF mirror.cursor # 0 /\ Head(link.pushes) <= mirror.cursor THEN UNCHANGED mirror
     ELSE Apply(<<Head(link.pushes)>>)
  /\ UNCHANGED <<eventLog, paused, outbox, drain, prompts, fetch, refresh, been>>

(* record: a push waits for the lock, and is dropped if the cursor has     *)
(* passed it.  The collector may take one more when the socket is gone.    *)
Record ==
  /\ link.up # "off" /\ link.pushes # <<>> /\ fetch = NoFetch
  /\ link' = [link EXCEPT !.pushes = Tail(@)]
  /\ IF mirror.cursor # 0 /\ Head(link.pushes) <= mirror.cursor THEN UNCHANGED mirror
     ELSE Apply(<<Head(link.pushes)>>)
  /\ UNCHANGED <<eventLog, paused, outbox, drain, prompts, fetch, refresh, been>>

Drop ==
  /\ link.up = "up" /\ been.cuts < MaxCuts
  /\ link' = [link EXCEPT !.up = "down"]
  /\ been' = [been EXCEPT !.cuts = @ + 1]
  /\ UNCHANGED <<eventLog, paused, outbox, drain, prompts, mirror, fetch, refresh>>

(* events_after fails.  A cursor may be what was wrong, so it is forgotten *)
(* and everything asked for ...                                            *)
Refetch ==
  /\ link.up = "up" /\ fetch.at = "asked" /\ fetch.from # 0 /\ been.cuts < MaxCuts
  /\ mirror' = [mirror EXCEPT !.cursor = 0, !.synced = FALSE]
  /\ fetch' = [at |-> "asked", from |-> 0]
  /\ been' = [been EXCEPT !.cuts = @ + 1]
  /\ UNCHANGED <<eventLog, paused, outbox, drain, prompts, link, refresh>>

(* ... which fails too when the socket is gone, and may fail without that: *)
(* the subscription then stands, with nothing behind it.                   *)
SyncFails ==
  /\ fetch.at = "asked"
  /\ link.up = "down" \/ (link.up = "up" /\ fetch.from = 0 /\ been.cuts < MaxCuts)
  /\ mirror' = IF fetch.from = 0 THEN mirror ELSE [mirror EXCEPT !.cursor = 0, !.synced = FALSE]
  /\ been' = [been EXCEPT !.torn = @ \/ link.up = "up" \/ link.pushes # <<>>,
                         !.cuts = IF link.up = "up" THEN @ + 1 ELSE @]
  /\ fetch' = NoFetch
  /\ UNCHANGED <<eventLog, paused, outbox, drain, prompts, link, refresh>>

Disconnect ==
  /\ link.up = "down" /\ fetch = NoFetch
  /\ link' = [up |-> "off", sub |-> FALSE, pushes |-> <<>>]
  /\ UNCHANGED <<eventLog, paused, outbox, drain, prompts, mirror, fetch, refresh, been>>

---------------------------------------------------------------------------
(* refreshSessions, and recordSessions by itself: the daemon's list, then  *)
(* the session's row, under no lock.                                       *)
ListSessions(r) ==
  /\ refresh[r] = Resting /\ link.up = "up"
  /\ refresh' = [refresh EXCEPT ![r] = [at |-> "listed", has |-> TRUE]]
  /\ UNCHANGED <<eventLog, paused, outbox, drain, prompts, mirror, link, fetch, been>>

(* A list made before the session was leaves it out: its row goes, and its *)
(* events with it.                                                         *)
ForgetUnlisted(r) ==
  /\ refresh[r].at = "listed" /\ ~refresh[r].has
  /\ mirror' = Emptied /\ been' = [been EXCEPT !.forgotten = @ \/ mirror.rows # <<>>]
  /\ refresh' = [refresh EXCEPT ![r] = Resting]
  /\ UNCHANGED <<eventLog, paused, outbox, drain, prompts, link, fetch>>

(* recordSessions reads the row ...                                        *)
ReadRow(r) ==
  /\ refresh[r].at = "listed" /\ refresh[r].has
  /\ refresh' = [refresh EXCEPT ![r] = [at |-> "read", cursor |-> mirror.cursor, synced |-> mirror.synced]]
  /\ UNCHANGED <<eventLog, paused, outbox, drain, prompts, mirror, link, fetch, been>>

(* ... and writes it back, with the cursor it read.                        *)
UpsertRow(r) ==
  /\ refresh[r].at = "read"
  /\ mirror' = [mirror EXCEPT !.cursor = refresh[r].cursor, !.synced = refresh[r].synced]
  /\ refresh' = [refresh EXCEPT ![r] = Resting]
  /\ UNCHANGED <<eventLog, paused, outbox, drain, prompts, link, fetch, been>>

---------------------------------------------------------------------------
PhoneNext ==
  \/ SessionGoesOn \/ PauseOrResume
  \/ \E p \in Prompts : Compose(p) \/ RetryOrDiscard(p)
  \/ \E d \in Drainers : BeginDrain(d) \/ SendPrompt(d) \/ CutOff(d)
  \/ \E c \in prompts : LookForId(c) \/ TakePrompt(c)
  \/ Connect \/ PhoneSubscribe \/ EventsAfter \/ FinishSync \/ Record \/ Drop \/ Disconnect
  \/ Refetch \/ SyncFails
  \/ \E r \in Refreshers : ListSessions(r) \/ ForgetUnlisted(r) \/ ReadRow(r) \/ UpsertRow(r)

PhoneSpec == PhoneInit /\ [][PhoneNext]_phoneVars

---------------------------------------------------------------------------
PhoneTypeOK ==
  /\ eventLog \in Seq(0 .. MaxPrompts) /\ paused \in BOOLEAN
  /\ outbox \in [Prompts -> {"none", "pending", "blocked", "sent", "discarded"}]
  /\ \A d \in Drainers : drain[d].at \in {"off", "item", "call"}
  /\ \A c \in prompts : c.p \in Prompts /\ c.by \in Drainers \cup {"nobody"}
  /\ Range(mirror.rows) \subseteq DOMAIN eventLog /\ mirror.cursor \in 0 .. Len(eventLog)
  /\ link.up \in {"off", "up", "down"} /\ Len(link.pushes) <= Buffer
  /\ fetch.at \in {"none", "asked", "answered"}
  /\ \A r \in Refreshers : refresh[r].at \in {"idle", "listed", "read"}

(* A prompt typed on the phone, whatever was lost on the way: what the     *)
(* phone shows as sent is in the log; it is there twice only if two calls  *)
(* for it were at the daemon together; and prompts never refused are in    *)
(* the log in the order they were typed, none left out.                    *)
First(p) == CHOOSE i \in LogOf(p) : \A j \in LogOf(p) : i <= j
PromptsAreKept ==
  /\ \A p \in Prompts : outbox[p] = "sent" => LogOf(p) # {}
  /\ \A p \in Prompts \ been.overlapped : Cardinality(LogOf(p)) <= 1
  /\ \A p, q \in Prompts \ been.refused :
       p < q /\ LogOf(q) # {} => LogOf(p) # {} /\ First(p) < First(q)

(* The mirror is the beginning of the log, in its order and with nothing   *)
(* missing, and its cursor is not past its end, whatever row a refresh     *)
(* writes back; a phone that says it is synced, with nothing on its way,   *)
(* has the whole log.  Two things end that, and are excused: a catch-up    *)
(* that failed with a push behind it, or with the subscription standing,   *)
(* so that a push is applied ahead of what it would have brought; and a    *)
(* list older than the session that deleted the events of its mirror.      *)
MirrorIsWhole ==
  ~been.torn /\ ~been.forgotten =>
    /\ mirror.rows = [i \in DOMAIN mirror.rows |-> i]
    /\ mirror.cursor <= Len(mirror.rows)
    /\ mirror.synced /\ link.up = "up" /\ link.sub /\ link.pushes = <<>> /\ fetch = NoFetch
       => Len(mirror.rows) = Len(eventLog)

(* What SessionRepository.kt:39-44 has the lock for: with one writer per   *)
(* session no event goes ahead of the history it follows.  The list of     *)
(* sessions writes without the lock.                                       *)
NoEventGoesAhead ==
  ~been.torn => mirror.rows = [i \in DOMAIN mirror.rows |-> i]

(* What the phone holds is sound: its prompts and its copy of the log      *)
(* (SessionRepository.kt, EventDao).                                       *)
PhoneIsSound == PromptsAreKept /\ MirrorIsWhole
=============================================================================
