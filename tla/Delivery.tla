------------------------------ MODULE Delivery ------------------------------
(***************************************************************************)
(* How the events of one session's log reach the clients that follow it:   *)
(* Session.Append, Subscribe and Close (daemon/session/session.go), the    *)
(* store's Archive and Restore, the fan-out of daemon/api/subscriptions.go,*)
(* a connection's writer (conn.go, handler.go), and the client's attach    *)
(* (clients/go-tui/tui.go, model.go).                                      *)
(*                                                                         *)
(* An event is its position in the log.  A connection is <<k, i>>: one of  *)
(* the slots of client k, used again once its teardown is over.  A fan-out *)
(* is one call of Session.Subscribe with the pump that empties its         *)
(* channel; its identity too is used again once the pump has returned.     *)
(*                                                                         *)
(* Deltas, replies to other calls and the questions of requests.go share   *)
(* the queues and are left out: a queue may be as short as one asks.  So   *)
(* is unsubscribe, which no client of the repository calls.                *)
(***************************************************************************)
EXTENDS Naturals, Sequences, FiniteSets

CONSTANTS
  Clients,    \* the clients that follow the session
  Slots,      \* the connections one client may have at once, dying ones included
  Fanouts,    \* the fan-outs that may exist at once, ending ones included
  EventBuffer, SendQueue,
  MaxEvents,   \* bound on the log, the notices of restores apart
  MaxTroubles, \* bound on archives, connections lost and restarts, taken together
  NoFanout, NoConn

ASSUME BuffersAssumption == EventBuffer \in Nat \ {0} /\ SendQueue \in Nat \ {0}
ASSUME BoundsAssumption == MaxEvents \in Nat /\ MaxTroubles \in Nat
ASSUME NoneAssumption == NoFanout \notin Fanouts /\ NoConn \notin Clients \X Slots

VARIABLES
  (* the log and the Session object that is open on it *)
  len,        \* the events in the log
  archived,   \* whether the log is in the archive
  gen,        \* how often it has been archived: which Session object is the open one
  mover,      \* where an archive or a restore is
  (* Handler.fanouts *)
  registered, \* the fan-out of this session, or NoFanout
  members,    \* fanout.conns
  chan,       \* what a fan-out's channel holds
  stream,     \* whether the channel is fed, closed, or neither
  (* the pumps *)
  pump, held, todo, at,
  (* the connections *)
  conn,       \* open, quit (connState.quit is closed), shut (the socket is), or none
  out,        \* connState.out
  serving,    \* where the call its worker carries out is
  got,        \* what that call has read: a Session object, or the end of the log
  (* the clients *)
  phase,
  link,       \* the connection a client has
  cursor,     \* connectLoop's cursor
  shown,      \* the events the model has put in its transcript
  pending,    \* Client.pending, until Stream takes it
  since,      \* for the properties: the Session object a connection's subscribe looked up
  faults

logVars  == <<len, archived, gen, mover>>
fanVars  == <<registered, members, chan, stream>>
pumpVars == <<pump, held, todo, at>>
connVars == <<conn, out, serving, got>>
seenVars == <<cursor, shown, pending>>
cliVars  == <<phase, link, cursor, shown, pending, since>>
vars == <<len, archived, gen, mover, registered, members, chan, stream, pump, held, todo, at,
          conn, out, serving, got, phase, link, cursor, shown, pending, since, faults>>

Conns == Clients \X Slots
Client(c) == c[1]

FewTroubles == gen + faults + (IF mover = "archive" THEN 1 ELSE 0) < MaxTroubles

(* The last event a set of them holds. *)
Last(events) == IF events = {} THEN 0 ELSE CHOOSE e \in events : \A x \in events : x <= e

EventMsg(e)  == [kind |-> "event", at |-> e]
JoinedMsg    == [kind |-> "joined", at |-> 0]
ReplayMsg(e) == [kind |-> "replay", at |-> e]
ErrorMsg     == [kind |-> "error", at |-> 0]

Init ==
  /\ len = 1 /\ archived = FALSE /\ gen = 0 /\ mover = "none"
  /\ registered = NoFanout
  /\ members = [f \in Fanouts |-> {}] /\ chan = [f \in Fanouts |-> <<>>]
  /\ stream = [f \in Fanouts |-> "none"]
  /\ pump = [f \in Fanouts |-> "none"] /\ held = [f \in Fanouts |-> 0]
  /\ todo = [f \in Fanouts |-> {}] /\ at = [f \in Fanouts |-> NoConn]
  /\ conn = [c \in Conns |-> "none"] /\ out = [c \in Conns |-> <<>>]
  /\ serving = [c \in Conns |-> "none"] /\ got = [c \in Conns |-> 0]
  /\ phase = [k \in Clients |-> "down"] /\ link = [k \in Clients |-> NoConn]
  /\ cursor = [k \in Clients |-> 0] /\ shown = [k \in Clients |-> {}]
  /\ pending = [k \in Clients |-> <<>>] /\ since = [c \in Conns |-> 0]
  /\ faults = 0

-----------------------------------------------------------------------------
(* The log. *)

(* Mutant of Broadcast: a subscriber that is behind misses the event. *)
BroadcastLossy(e) ==
  LET fits == {f \in Fanouts : stream[f] = "fed" /\ Len(chan[f]) < EventBuffer}
  IN  /\ chan' = [f \in Fanouts |-> IF f \in fits THEN Append(chan[f], e) ELSE chan[f]]
      /\ UNCHANGED stream

(* broadcast: a channel that is full is closed. *)
Broadcast(e) ==
  LET fits == {f \in Fanouts : stream[f] = "fed" /\ Len(chan[f]) < EventBuffer}
  IN  /\ chan' = [f \in Fanouts |-> IF f \in fits THEN Append(chan[f], e) ELSE chan[f]]
      /\ stream' = [f \in Fanouts |-> IF stream[f] = "fed" /\ f \notin fits THEN "closed"
                                      ELSE stream[f]]

(* Session.Append: recorded and broadcast under Session.mu. *)
Record == len' = len + 1 /\ Broadcast(len + 1)

(* Whatever the session does. *)
LogEvent ==
  /\ ~archived /\ len < MaxEvents
  /\ Record
  /\ UNCHANGED <<archived, gen, mover, registered, members, pumpVars, connVars, cliVars, faults>>

(* archiveOne: the notice, then Store.Archive, which closes the Session    *)
(* object and with it every channel.                                       *)
ArchiveNotice ==
  /\ mover = "none" /\ ~archived /\ FewTroubles /\ len < MaxEvents
  /\ Record
  /\ mover' = "archive"
  /\ UNCHANGED <<archived, gen, registered, members, pumpVars, connVars, cliVars, faults>>

ArchiveMove ==
  /\ mover = "archive"
  /\ archived' = TRUE /\ gen' = gen + 1 /\ mover' = "none"
  /\ stream' = [f \in Fanouts |-> IF stream[f] = "fed" THEN "closed" ELSE stream[f]]
  /\ UNCHANGED <<len, registered, members, chan, pumpVars, connVars, cliVars, faults>>

(* restoreOne: the log is moved back, loaded again and told. *)
RestoreMove ==
  /\ mover = "none" /\ archived
  /\ archived' = FALSE /\ mover' = "restore"
  /\ UNCHANGED <<len, gen, fanVars, pumpVars, connVars, cliVars, faults>>

RestoreNotice ==
  /\ mover = "restore"
  /\ Record
  /\ mover' = "none"
  /\ UNCHANGED <<archived, gen, registered, members, pumpVars, connVars, cliVars, faults>>

-----------------------------------------------------------------------------
(* Handler.fanouts, under subMu. *)

(* The connections a pump finds subscribed: those of the fan-out that is   *)
(* registered now, whichever its own is.                                   *)
Subscribers == IF registered = NoFanout THEN {} ELSE members[registered]

(* dropLocked: the last to leave closes the channel. *)
DropLocked(c) ==
  IF registered = NoFanout THEN UNCHANGED <<registered, members, stream>>
  ELSE /\ members' = [members EXCEPT ![registered] = @ \ {c}]
       /\ IF members[registered] \subseteq {c}
            THEN /\ stream' = [stream EXCEPT ![registered] = "closed"]
                 /\ registered' = NoFanout
            ELSE UNCHANGED <<registered, stream>>

(* subscribe, for a call that has read Session object g: join the fan-out, *)
(* or start one.  An object that has been closed since feeds nothing.      *)
Join(c, g) ==
  IF registered # NoFanout
    THEN /\ members' = [members EXCEPT ![registered] = @ \cup {c}]
         /\ UNCHANGED <<registered, chan, stream, pumpVars>>
    ELSE \E f \in Fanouts :
           /\ pump[f] = "none"
           /\ registered' = f
           /\ members' = [members EXCEPT ![f] = {c}]
           /\ chan' = [chan EXCEPT ![f] = <<>>]
           /\ stream' = [stream EXCEPT ![f] = IF g = gen THEN "fed" ELSE "dead"]
           /\ pump' = [pump EXCEPT ![f] = "recv"]
           /\ UNCHANGED <<held, todo, at>>

-----------------------------------------------------------------------------
(* A connection's queue. *)

(* Mutant: a reply is queued whatever waits before it. *)
ReplyUnbounded(c, m) ==
  /\ out' = IF conn[c] = "open" THEN [out EXCEPT ![c] = Append(@, m)] ELSE out
  /\ UNCHANGED conn

(* connState.write of a message by the connection's worker.  One that has  *)
(* seen quit open may still queue it after quit is closed.                 *)
Reply(c, m) ==
  \/ /\ conn[c] \in {"open", "quit"} /\ Len(out[c]) < SendQueue
     /\ out' = [out EXCEPT ![c] = Append(@, m)]
     /\ UNCHANGED conn
  \/ /\ conn[c] = "open" /\ Len(out[c]) >= SendQueue
     /\ conn' = [conn EXCEPT ![c] = "quit"]
     /\ UNCHANGED out
  \/ /\ conn[c] \in {"quit", "shut"}
     /\ UNCHANGED <<conn, out>>

(* The socket is closed: nothing more is written, and the client sees it.  *)
Shut(cs) ==
  /\ conn' = [c \in Conns |-> IF c \in cs THEN "shut" ELSE conn[c]]
  /\ out'  = [c \in Conns |-> IF c \in cs THEN <<>> ELSE out[c]]

HangUp(ks) ==
  /\ phase' = [k \in Clients |-> IF k \in ks THEN "down" ELSE phase[k]]
  /\ link'  = [k \in Clients |-> IF k \in ks THEN NoConn ELSE link[k]]
  /\ pending' = [k \in Clients |-> IF k \in ks THEN <<>> ELSE pending[k]]

(* drop: quit is closed and then the socket.  In between the writer may    *)
(* still write what is queued.                                             *)
CloseNow(c) ==
  /\ conn[c] = "quit"
  /\ Shut({c})
  /\ HangUp({Client(c)} \cap {k \in Clients : link[k] = c})
  /\ UNCHANGED <<logVars, fanVars, pumpVars, serving, got, cursor, shown, since, faults>>

(* A connection is lost, a write times out, or its client leaves. *)
Lose(c) ==
  /\ conn[c] \in {"open", "quit"} /\ FewTroubles
  /\ faults' = faults + 1
  /\ Shut({c})
  /\ HangUp({Client(c)} \cap {k \in Clients : link[k] = c})
  /\ UNCHANGED <<logVars, fanVars, pumpVars, serving, got, cursor, shown, since>>

(* Mutant: the connection is forgotten before its calls are over. *)
TearDownEarly(c) ==
  /\ conn[c] = "shut"
  /\ DropLocked(c)
  /\ conn' = [conn EXCEPT ![c] = "none"] /\ since' = [since EXCEPT ![c] = 0]
  /\ UNCHANGED <<logVars, chan, pumpVars, out, serving, got, phase, link, seenVars, faults>>

(* ServeConn returns: the calls accepted are carried out, then dropConn.   *)
TearDown(c) ==
  /\ conn[c] = "shut" /\ serving[c] = "none"
  /\ DropLocked(c)
  /\ conn' = [conn EXCEPT ![c] = "none"] /\ since' = [since EXCEPT ![c] = 0]
  /\ UNCHANGED <<logVars, chan, pumpVars, out, serving, got, phase, link, seenVars, faults>>

-----------------------------------------------------------------------------
(* The pump of a fan-out. *)

PumpReceive(f) ==
  /\ pump[f] = "recv" /\ chan[f] # <<>>
  /\ held' = [held EXCEPT ![f] = Head(chan[f])]
  /\ chan' = [chan EXCEPT ![f] = Tail(@)]
  /\ pump' = [pump EXCEPT ![f] = "snap"]
  /\ UNCHANGED <<logVars, registered, members, stream, todo, at, connVars, cliVars, faults>>

(* The pump has sent what it held once nothing of the snapshot is left. *)
Sent(f, left) ==
  IF left = {} THEN pump' = [pump EXCEPT ![f] = "recv"] /\ held' = [held EXCEPT ![f] = 0]
               ELSE pump' = [pump EXCEPT ![f] = "send"] /\ UNCHANGED held

PumpSnapshot(f) ==
  /\ pump[f] = "snap"
  /\ todo' = [todo EXCEPT ![f] = Subscribers]
  /\ Sent(f, Subscribers)
  /\ UNCHANGED <<logVars, fanVars, at, connVars, cliVars, faults>>

(* write, for the next connection of the snapshot: whether quit is closed  *)
(* is looked at first, and the message queued after.                       *)
PumpPick(f) ==
  /\ pump[f] = "send" /\ at[f] = NoConn
  /\ \E c \in todo[f] :
       /\ todo' = [todo EXCEPT ![f] = @ \ {c}]
       /\ IF conn[c] = "open"
            THEN at' = [at EXCEPT ![f] = c] /\ UNCHANGED <<pump, held>>
            ELSE Sent(f, todo[f] \ {c}) /\ UNCHANGED at
  /\ UNCHANGED <<logVars, fanVars, connVars, cliVars, faults>>

(* Mutant: what does not fit in the queue is left out. *)
PumpPutLossy(f) ==
  /\ pump[f] = "send" /\ at[f] # NoConn
  /\ LET c == at[f]
     IN  out' = IF conn[c] \in {"open", "quit"} /\ Len(out[c]) < SendQueue
                  THEN [out EXCEPT ![c] = Append(@, EventMsg(held[f]))] ELSE out
  /\ at' = [at EXCEPT ![f] = NoConn]
  /\ Sent(f, todo[f])
  /\ UNCHANGED <<logVars, fanVars, todo, conn, serving, got, cliVars, faults>>

PumpPut(f) ==
  /\ pump[f] = "send" /\ at[f] # NoConn
  /\ LET c == at[f]
     IN  IF conn[c] \in {"shut", "none"} THEN UNCHANGED <<conn, out>>
         ELSE IF Len(out[c]) < SendQueue
           THEN out' = [out EXCEPT ![c] = Append(@, EventMsg(held[f]))] /\ UNCHANGED conn
           ELSE conn' = [conn EXCEPT ![c] = "quit"] /\ UNCHANGED out
  /\ at' = [at EXCEPT ![f] = NoConn]
  /\ Sent(f, todo[f])
  /\ UNCHANGED <<logVars, fanVars, todo, serving, got, cliVars, faults>>

PumpGone(f) == pump' = [pump EXCEPT ![f] = "none"] /\ todo' = [todo EXCEPT ![f] = {}]

(* Mutant: the fan-out stays registered when its pump has ended. *)
PumpEndedKept(f) ==
  /\ pump[f] = "recv" /\ chan[f] = <<>> /\ stream[f] = "closed"
  /\ stream' = [stream EXCEPT ![f] = "none"]
  /\ PumpGone(f)
  /\ UNCHANGED <<logVars, registered, members, chan, held, at, connVars, cliVars, faults>>

(* The channel is closed and empty: pumpEnded, whose members are dropped   *)
(* unless the fan-out has been taken down, or the session archived.        *)
PumpEnded(f) ==
  /\ pump[f] = "recv" /\ chan[f] = <<>> /\ stream[f] = "closed"
  /\ stream' = [stream EXCEPT ![f] = "none"]
  /\ members' = [members EXCEPT ![f] = {}]
  /\ IF registered = f
       THEN /\ registered' = NoFanout
            /\ todo' = [todo EXCEPT ![f] = members[f]]
            /\ pump' = [pump EXCEPT ![f] = "check"]
       ELSE PumpGone(f) /\ UNCHANGED registered
  /\ UNCHANGED <<logVars, chan, held, at, connVars, cliVars, faults>>

PumpCheck(f) ==
  /\ pump[f] = "check"
  /\ IF archived THEN PumpGone(f) ELSE pump' = [pump EXCEPT ![f] = "drop"] /\ UNCHANGED todo
  /\ UNCHANGED <<logVars, fanVars, held, at, connVars, cliVars, faults>>

PumpDrop(f) ==
  /\ pump[f] = "drop"
  /\ \/ /\ todo[f] = {} /\ PumpGone(f)
        /\ UNCHANGED conn
     \/ \E c \in todo[f] :
          /\ todo' = [todo EXCEPT ![f] = @ \ {c}]
          /\ conn' = [conn EXCEPT ![c] = IF @ = "open" THEN "quit" ELSE @]
          /\ UNCHANGED pump
  /\ UNCHANGED <<logVars, fanVars, held, at, out, serving, got, cliVars, faults>>

-----------------------------------------------------------------------------
(* The calls a connection's worker carries out, one at a time. *)

Serve(c, s) == serving' = [serving EXCEPT ![c] = s]

(* subscribe: getSession, under reqMu, which no other subscribe has. *)
SubscribeGet(c) ==
  /\ serving[c] = "subscribe" /\ \A d \in Conns : serving[d] # "join"
  /\ IF archived
       THEN Reply(c, ErrorMsg) /\ Serve(c, "none") /\ UNCHANGED got
       ELSE got' = [got EXCEPT ![c] = gen] /\ Serve(c, "join") /\ UNCHANGED <<conn, out>>
  /\ UNCHANGED <<logVars, fanVars, pumpVars, cliVars, faults>>

(* The rest of it, under subMu too. *)
SubscribeJoin(c) ==
  /\ serving[c] = "join"
  /\ Join(c, got[c])
  /\ Serve(c, "joined")
  /\ got' = [got EXCEPT ![c] = 0]
  /\ since' = [since EXCEPT ![c] = got[c]]
  /\ UNCHANGED <<logVars, conn, out, phase, link, seenVars, faults>>

(* The reply, which an event may overtake. *)
SubscribeReply(c) ==
  /\ serving[c] = "joined"
  /\ Reply(c, JoinedMsg)
  /\ Serve(c, "none")
  /\ UNCHANGED <<logVars, fanVars, pumpVars, got, cliVars, faults>>

(* events_after: what the log holds now, from the cursor. *)
ReplayRead(c) ==
  /\ serving[c] = "replay"
  /\ IF archived
       THEN Reply(c, ErrorMsg) /\ Serve(c, "none") /\ UNCHANGED got
       ELSE got' = [got EXCEPT ![c] = len] /\ Serve(c, "answer") /\ UNCHANGED <<conn, out>>
  /\ UNCHANGED <<logVars, fanVars, pumpVars, cliVars, faults>>

ReplayAnswer(c) ==
  /\ serving[c] = "answer"
  /\ Reply(c, ReplayMsg(got[c]))
  /\ Serve(c, "none")
  /\ got' = [got EXCEPT ![c] = 0]
  /\ UNCHANGED <<logVars, fanVars, pumpVars, cliVars, faults>>

-----------------------------------------------------------------------------
(* A client: connectLoop, attach and the model. *)

(* A slot nothing in the daemon refers to any more. *)
Vacant(c) == conn[c] = "none" /\ \A f \in Fanouts : c \notin todo[f] /\ at[f] # c

(* The connection is made and the subscription asked for. *)
Dial(k) ==
  /\ phase[k] = "down"
  /\ \E i \in Slots : LET c == <<k, i>>
                      IN  /\ Vacant(c)
                          /\ conn' = [conn EXCEPT ![c] = "open"]
                          /\ out' = [out EXCEPT ![c] = <<>>]
                          /\ link' = [link EXCEPT ![k] = c]
                          /\ Serve(c, "subscribe")
  /\ phase' = [phase EXCEPT ![k] = "joining"]
  /\ UNCHANGED <<logVars, fanVars, pumpVars, got, seenVars, since, faults>>

(* The events q, in the order they came: the transcript takes those past   *)
(* the last it has, and the cursor is the last there was.                  *)
Show(k, q) ==
  /\ shown' = [shown EXCEPT ![k] = @ \cup
                 {q[i] : i \in {i \in DOMAIN q : /\ q[i] > Last(@)
                                                /\ \A j \in DOMAIN q : j < i => q[j] < q[i]}}]
  /\ cursor' = [cursor EXCEPT ![k] = IF q = <<>> THEN @ ELSE q[Len(q)]]

Arrives(c, kind) ==
  /\ conn[c] \in {"open", "quit"} /\ link[Client(c)] = c
  /\ out[c] # <<>> /\ Head(out[c]).kind = kind
  /\ out' = [out EXCEPT ![c] = Tail(@)]

(* Mutant: the cursor moves when an event comes, not when it is shown. *)
EventArrivesEarly(c) ==
  LET k == Client(c) IN
  /\ Arrives(c, "event")
  /\ cursor' = [cursor EXCEPT ![k] = Head(out[c]).at]
  /\ IF phase[k] = "streaming"
       THEN shown' = [shown EXCEPT ![k] = @ \cup {Head(out[c]).at}] /\ UNCHANGED pending
       ELSE pending' = [pending EXCEPT ![k] = Append(@, Head(out[c]).at)] /\ UNCHANGED shown
  /\ UNCHANGED <<logVars, fanVars, pumpVars, conn, serving, got, phase, link, since, faults>>

(* An event: shown if the client streams, kept until it does if it is      *)
(* catching up.                                                            *)
EventArrives(c) ==
  LET k == Client(c) IN
  /\ Arrives(c, "event")
  /\ \/ phase[k] = "streaming" /\ Show(k, <<Head(out[c]).at>>) /\ UNCHANGED pending
     \/ /\ phase[k] \in {"joining", "replaying"}
        /\ pending' = [pending EXCEPT ![k] = Append(@, Head(out[c]).at)]
        /\ UNCHANGED <<shown, cursor>>
  /\ UNCHANGED <<logVars, fanVars, pumpVars, conn, serving, got, phase, link, since, faults>>

JoinedArrives(c) ==
  /\ Arrives(c, "joined")
  /\ Serve(c, "replay")
  /\ phase' = [phase EXCEPT ![Client(c)] = "replaying"]
  /\ UNCHANGED <<logVars, fanVars, pumpVars, conn, got, link, seenVars, since, faults>>

(* The replay goes in first, and then what has come meanwhile. *)
ReplayArrives(c) ==
  LET k == Client(c)
      missed == [i \in 1..(Head(out[c]).at - cursor[k]) |-> cursor[k] + i]
  IN
  /\ Arrives(c, "replay")
  /\ Show(k, missed \o pending[k])
  /\ pending' = [pending EXCEPT ![k] = <<>>]
  /\ phase' = [phase EXCEPT ![k] = "streaming"]
  /\ UNCHANGED <<logVars, fanVars, pumpVars, conn, serving, got, link, since, faults>>

(* The session is not found: attach returns, and the connection is closed. *)
ErrorArrives(c) ==
  /\ conn[c] \in {"open", "quit"} /\ link[Client(c)] = c
  /\ out[c] # <<>> /\ Head(out[c]).kind = "error"
  /\ Shut({c})
  /\ HangUp({Client(c)})
  /\ UNCHANGED <<logVars, fanVars, pumpVars, serving, got, cursor, shown, since, faults>>

-----------------------------------------------------------------------------
(* The daemon is restarted: the log is what it was, and clients connect    *)
(* again.                                                                  *)
Restart ==
  /\ FewTroubles /\ faults' = faults + 1
  /\ mover' = "none"
  /\ registered' = NoFanout
  /\ members' = [f \in Fanouts |-> {}] /\ chan' = [f \in Fanouts |-> <<>>]
  /\ stream' = [f \in Fanouts |-> "none"]
  /\ pump' = [f \in Fanouts |-> "none"] /\ held' = [f \in Fanouts |-> 0]
  /\ todo' = [f \in Fanouts |-> {}] /\ at' = [f \in Fanouts |-> NoConn]
  /\ conn' = [c \in Conns |-> "none"] /\ out' = [c \in Conns |-> <<>>]
  /\ serving' = [c \in Conns |-> "none"] /\ got' = [c \in Conns |-> 0]
  /\ since' = [c \in Conns |-> 0]
  /\ HangUp(Clients)
  /\ UNCHANGED <<len, archived, gen, cursor, shown>>

PumpStep(f) ==
  \/ PumpReceive(f) \/ PumpSnapshot(f) \/ PumpPick(f) \/ PumpPut(f)
  \/ PumpEnded(f) \/ PumpCheck(f) \/ PumpDrop(f)

ConnStep(c) ==
  \/ CloseNow(c) \/ TearDown(c)
  \/ SubscribeGet(c) \/ SubscribeJoin(c) \/ SubscribeReply(c) \/ ReplayRead(c) \/ ReplayAnswer(c)

ClientStep(c) ==
  \/ EventArrives(c) \/ JoinedArrives(c) \/ ReplayArrives(c) \/ ErrorArrives(c)

Next ==
  \/ LogEvent \/ ArchiveNotice \/ ArchiveMove \/ RestoreMove \/ RestoreNotice
  \/ \E f \in Fanouts : PumpStep(f)
  \/ \E c \in Conns : ConnStep(c) \/ ClientStep(c) \/ Lose(c)
  \/ \E k \in Clients : Dial(k)
  \/ Restart

Spec == Init /\ [][Next]_vars

(* Goroutines run, a client reads, and one that has lost its connection    *)
(* tries again for ever.  The session need not be archived, nor restored.  *)
LiveSpec ==
  /\ Spec
  /\ \A f \in Fanouts : WF_vars(PumpStep(f))
  /\ \A c \in Conns : WF_vars(ConnStep(c)) /\ WF_vars(ClientStep(c))
  /\ \A k \in Clients : WF_vars(Dial(k))

-----------------------------------------------------------------------------
(* What is promised. *)

Msgs == [kind : {"event", "joined", "replay", "error"}, at : Nat]

TypeOK ==
  /\ len \in Nat \ {0} /\ archived \in BOOLEAN /\ gen \in Nat
  /\ mover \in {"none", "archive", "restore"}
  /\ registered \in Fanouts \cup {NoFanout}
  /\ members \in [Fanouts -> SUBSET Conns]
  /\ chan \in [Fanouts -> Seq(Nat)] /\ \A f \in Fanouts : Len(chan[f]) <= EventBuffer
  /\ stream \in [Fanouts -> {"none", "fed", "closed", "dead"}]
  /\ pump \in [Fanouts -> {"none", "recv", "snap", "send", "check", "drop"}]
  /\ held \in [Fanouts -> Nat] /\ todo \in [Fanouts -> SUBSET Conns]
  /\ at \in [Fanouts -> Conns \cup {NoConn}]
  /\ conn \in [Conns -> {"none", "open", "quit", "shut"}]
  /\ out \in [Conns -> Seq(Msgs)] /\ \A c \in Conns : Len(out[c]) <= SendQueue
  /\ serving \in [Conns -> {"none", "subscribe", "join", "joined", "replay", "answer"}]
  /\ got \in [Conns -> Nat]
  /\ phase \in [Clients -> {"down", "joining", "replaying", "streaming"}]
  /\ link \in [Clients -> Conns \cup {NoConn}]
  /\ cursor \in [Clients -> Nat] /\ shown \in [Clients -> SUBSET Nat]
  /\ pending \in [Clients -> Seq(Nat)]
  /\ since \in [Conns -> Nat]
  /\ faults \in 0..MaxTroubles

(* What each client shows is at every moment the log from its beginning,   *)
(* with no event missing and none out of order, and it only grows: through *)
(* pumps that run at once, streams and connections dropped for being       *)
(* behind, restarts and archives (conn.go:35, "closing loses nothing").    *)
M == INSTANCE Mirror WITH seen <- shown
Mirrors == M!Spec

(* The cursor a client will resume from is never past what it shows, so a  *)
(* replay leaves nothing out, though an event that comes a second time     *)
(* moves it back (tui.go:194).                                             *)
CursorIsShown == \A k \in Clients : cursor[k] \in shown[k] \cup {0}

(* A fan-out is kept only while a connection that has not been torn down   *)
(* is subscribed (subscriptions.go:17): a disconnect never leaks a pump.   *)
NoPumpLeaks ==
  registered # NoFanout =>
    members[registered] # {} /\ \A c \in members[registered] : conn[c] # "none"

(* Everything that was sent has arrived, and no call is under way. *)
Settled ==
  /\ mover = "none" /\ ~archived
  /\ \A f \in Fanouts :
       pump[f] # "none" => /\ pump[f] = "recv" /\ chan[f] = <<>>
                           /\ stream[f] # "closed"
  /\ \A c \in Conns : conn[c] \in {"none", "open"} /\ out[c] = <<>> /\ serving[c] = "none"

(* Its subscription stands: the session has not been archived since it was *)
(* looked up for it.                                                       *)
Follows(k) == phase[k] = "streaming" /\ since[link[k]] = gen

(* A client whose subscription stands is in the fan-out that is            *)
(* registered, and has all that stream carries: whoever missed an event    *)
(* has been dropped for it (subscriptions.go:58-61).                       *)
FollowersHear ==
  Settled => \A k \in Clients : Follows(k) =>
    /\ registered # NoFanout /\ link[k] \in members[registered]
    /\ stream[registered] = "fed" => shown[k] = 1..len

(* The fan-out is there for those who live and are subscribed, for all of  *)
(* them and for nobody else (subscriptions.go:15-130).                     *)
FanoutIsSound == NoPumpLeaks /\ FollowersHear

(* A client that is behind has the whole log again in the end, however     *)
(* often it is dropped for it, unless the session is archived meanwhile    *)
(* (conn.go:34-35).  The log stops growing at MaxEvents.                   *)
CatchesUp == \A k \in Clients : []<>(shown[k] = 1..len \/ gen > 0)

-----------------------------------------------------------------------------
(* What the documents say and the code does not do. *)

(* After a subscribe has been answered the daemon sends every appended     *)
(* event (protocol/spec.md 7.6), and no fan-out is left registered whose   *)
(* stream is dead (subscriptions.go:54).                                   *)
NobodyIsDeaf == Settled => \A k \in Clients : Follows(k) => shown[k] = 1..len
=============================================================================
