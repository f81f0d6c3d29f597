-------------------------- MODULE Delivery_proofs ---------------------------
(***************************************************************************)
(* Proofs about Delivery, for any clients, slots and fan-outs, and buffers *)
(* of any size.                                                            *)
(***************************************************************************)
EXTENDS Delivery, SequenceTheorems, WellFoundedInduction, TLAPS

-----------------------------------------------------------------------------
(* Queues. *)

Queue == Seq(Msgs)
Events == Seq(Nat)

LEMMA AppendIs ==
  ASSUME NEW S, NEW q \in Seq(S), NEW m \in S
  PROVE  /\ Append(q, m) \in Seq(S) /\ Len(q) \in Nat /\ Len(Append(q, m)) = Len(q) + 1
         /\ \A i \in 1..Len(q) : q[i] \in S /\ Append(q, m)[i] = q[i]
         /\ Append(q, m)[Len(q) + 1] = m
         /\ Append(q, m) # <<>>
OBVIOUS

LEMMA TailIs ==
  ASSUME NEW S, NEW q \in Seq(S), q # <<>>
  PROVE  /\ Tail(q) \in Seq(S) /\ Len(q) \in Nat \ {0} /\ Len(Tail(q)) = Len(q) - 1
         /\ Head(q) = q[1] /\ Head(q) \in S
         /\ \A i \in 1..(Len(q) - 1) : Tail(q)[i] = q[i + 1]
         /\ \A i \in 1..Len(q) : q[i] \in S
OBVIOUS

LEMMA EmptyIs ==
  ASSUME NEW S
  PROVE  <<>> \in Seq(S) /\ Len(<<>>) = 0
OBVIOUS

-----------------------------------------------------------------------------
(* Types.  Queues are named by their sets, and the rows one at a time. *)

LogTypes ==
  /\ len \in Nat \ {0} /\ archived \in BOOLEAN /\ gen \in Nat
  /\ mover \in {"none", "archive", "restore"}
  /\ faults \in 0..MaxTroubles

FanTypes ==
  /\ registered \in Fanouts \cup {NoFanout}
  /\ members \in [Fanouts -> SUBSET Conns]
  /\ chan \in [Fanouts -> Events] /\ \A f \in Fanouts : Len(chan[f]) <= EventBuffer
  /\ stream \in [Fanouts -> {"none", "fed", "closed", "dead"}]

PumpTypes ==
  /\ pump \in [Fanouts -> {"none", "recv", "snap", "send", "check", "drop"}]
  /\ held \in [Fanouts -> Nat] /\ todo \in [Fanouts -> SUBSET Conns]
  /\ at \in [Fanouts -> Conns \cup {NoConn}]

OutTypes ==
  /\ conn \in [Conns -> {"none", "open", "quit", "shut"}]
  /\ out \in [Conns -> Queue] /\ \A c \in Conns : Len(out[c]) <= SendQueue

ConnTypes ==
  /\ OutTypes
  /\ serving \in [Conns -> {"none", "subscribe", "join", "joined", "replay", "answer"}]
  /\ got \in [Conns -> Nat]

LinkTypes ==
  /\ phase \in [Clients -> {"down", "joining", "replaying", "streaming"}]
  /\ link \in [Clients -> Conns \cup {NoConn}]
  /\ pending \in [Clients -> Events]

ClientTypes ==
  /\ LinkTypes
  /\ cursor \in [Clients -> Nat] /\ shown \in [Clients -> SUBSET Nat]
  /\ since \in [Conns -> Nat]

Types == LogTypes /\ FanTypes /\ PumpTypes /\ ConnTypes /\ ClientTypes

LEMMA TypesAre == TypeOK <=> Types
BY Zenon DEF TypeOK, Types, LogTypes, FanTypes, PumpTypes, OutTypes, ConnTypes, LinkTypes,
   ClientTypes, Queue, Events

LEMMA ConnsAre ==
  /\ \A c \in Conns : Client(c) \in Clients /\ c # NoConn
  /\ \A k \in Clients, i \in Slots : <<k, i>> \in Conns /\ Client(<<k, i>>) = k
BY NoneAssumption DEF Conns, Client

LEMMA TypesInit == Init => Types
<1> SUFFICES ASSUME Init PROVE Types OBVIOUS
<1>0. <<>> \in Events /\ <<>> \in Queue /\ Len(<<>>) = 0 BY EmptyIs DEF Events, Queue
<1>1. LogTypes
  <2>1. len = 1 /\ archived = FALSE /\ gen = 0 /\ mover = "none" /\ faults = 0 BY DEF Init
  <2>2. 0 \in 0..MaxTroubles BY BoundsAssumption
  <2>3. archived \in BOOLEAN BY <2>1, Zenon
  <2>4. len \in Nat \ {0} /\ gen \in Nat /\ mover \in {"none", "archive", "restore"} BY <2>1
  <2>5. faults \in 0..MaxTroubles BY <2>1, <2>2, Zenon
  <2>q. QED BY <2>3, <2>4, <2>5, Zenon DEF LogTypes
<1>2. FanTypes BY <1>0, BuffersAssumption DEF Init, FanTypes
<1>3. PumpTypes BY DEF Init, PumpTypes
<1>4. ConnTypes BY <1>0, BuffersAssumption DEF Init, ConnTypes, OutTypes
<1>5. ClientTypes BY <1>0 DEF Init, ClientTypes, LinkTypes
<1>q. QED BY <1>1, <1>2, <1>3, <1>4, <1>5 DEF Types

(* broadcast keeps the channels' types; a feed is cut off or takes the event. *)
TakesOrEnds(f, e) ==
  \/ stream[f] = "fed" /\ stream'[f] = "fed" /\ chan'[f] = Append(chan[f], e)
  \/ stream[f] = "fed" /\ stream'[f] = "closed" /\ chan'[f] = chan[f] /\ chan[f] # <<>>
  \/ stream[f] # "fed" /\ stream'[f] = stream[f] /\ chan'[f] = chan[f]

LEMMA BroadcastIs ==
  ASSUME FanTypes, NEW e \in Nat, Broadcast(e)
  PROVE  /\ chan' \in [Fanouts -> Events] /\ \A f \in Fanouts : Len(chan'[f]) <= EventBuffer
         /\ stream' \in [Fanouts -> {"none", "fed", "closed", "dead"}]
         /\ \A f \in Fanouts : TakesOrEnds(f, e)
<1> DEFINE fits == {f \in Fanouts : stream[f] = "fed" /\ Len(chan[f]) < EventBuffer}
<1>1. \A f \in Fanouts : /\ chan[f] \in Seq(Nat) /\ Len(chan[f]) <= EventBuffer
                         /\ stream[f] \in {"none", "fed", "closed", "dead"}
  BY DEF FanTypes, Events
<1>2. ASSUME NEW f \in Fanouts
      PROVE  /\ chan'[f] \in Events /\ Len(chan'[f]) <= EventBuffer
             /\ stream'[f] \in {"none", "fed", "closed", "dead"}
             /\ TakesOrEnds(f, e)
  <2>1. chan'[f] = (IF f \in fits THEN Append(chan[f], e) ELSE chan[f]) BY DEF Broadcast
  <2>2. stream'[f] = IF stream[f] = "fed" /\ f \notin fits THEN "closed" ELSE stream[f]
    BY DEF Broadcast
  <2>3. Append(chan[f], e) \in Seq(Nat) /\ Len(Append(chan[f], e)) = Len(chan[f]) + 1
    BY <1>1, AppendIs
  <2>4. Len(chan[f]) \in Nat BY <1>1, LenProperties
  <2>5. f \in fits => Len(chan[f]) + 1 <= EventBuffer BY <2>4, BuffersAssumption
  <2>6. f \notin fits /\ stream[f] = "fed" => chan[f] # <<>> BY BuffersAssumption, EmptyIs
  <2>q. QED BY <1>1, <2>1, <2>2, <2>3, <2>5, <2>6 DEF Events, TakesOrEnds
<1>3. DOMAIN chan' = Fanouts /\ DOMAIN stream' = Fanouts BY DEF Broadcast
<1>4. chan' = [f \in Fanouts |-> chan'[f]] /\ stream' = [f \in Fanouts |-> stream'[f]]
  BY DEF Broadcast
<1>q. QED BY <1>2, <1>3, <1>4

(* A reply is queued, or the connection is at its end. *)
IsQueued(c, m) == conn'[c] = conn[c] /\ conn[c] \in {"open", "quit"} /\ out'[c] = Append(out[c], m)
IsRefused(c) == conn[c] # "none" /\ out'[c] = out[c]
                /\ conn'[c] = IF conn[c] = "shut" THEN "shut" ELSE "quit"
OthersSame(c) == \A d \in Conns \ {c} : conn'[d] = conn[d] /\ out'[d] = out[d]

LEMMA ReplyIs ==
  ASSUME OutTypes, NEW c \in Conns, NEW m \in Msgs, Reply(c, m)
  PROVE  OutTypes' /\ (IsQueued(c, m) \/ IsRefused(c)) /\ OthersSame(c)
<1>0. /\ out[c] \in Queue /\ Len(out[c]) <= SendQueue /\ Len(out[c]) \in Nat
      /\ conn[c] \in {"none", "open", "quit", "shut"}
  BY LenProperties DEF OutTypes, Queue
<1>1. Append(out[c], m) \in Queue /\ Len(Append(out[c], m)) = Len(out[c]) + 1
  BY <1>0, AppendIs DEF Queue
<1>2. CASE conn[c] \in {"open", "quit"} /\ Len(out[c]) < SendQueue
           /\ out' = [out EXCEPT ![c] = Append(@, m)] /\ conn' = conn
  <2>1. Len(out[c]) + 1 <= SendQueue BY <1>0, <1>2, BuffersAssumption
  <2>2. out'[c] = Append(out[c], m) /\ \A d \in Conns \ {c} : out'[d] = out[d] BY <1>2 DEF OutTypes
  <2>3. out' \in [Conns -> Queue] BY <1>1, <1>2 DEF OutTypes
  <2>4. \A d \in Conns : Len(out'[d]) <= SendQueue BY <1>1, <2>1, <2>2 DEF OutTypes
  <2>q. QED BY <1>2, <2>2, <2>3, <2>4 DEF OutTypes, IsQueued, OthersSame
<1>3. CASE conn[c] = "open" /\ conn' = [conn EXCEPT ![c] = "quit"] /\ out' = out
  BY <1>3 DEF OutTypes, IsRefused, OthersSame
<1>4. CASE conn[c] \in {"quit", "shut"} /\ conn' = conn /\ out' = out
  BY <1>4 DEF OutTypes, IsRefused, OthersSame
<1>q. QED BY <1>2, <1>3, <1>4 DEF Reply

LEMMA ShutIs ==
  ASSUME OutTypes, NEW c \in Conns, Shut({c})
  PROVE  OutTypes' /\ conn'[c] = "shut" /\ out'[c] = <<>> /\ OthersSame(c)
<1>1. /\ conn' = [d \in Conns |-> IF d \in {c} THEN "shut" ELSE conn[d]]
      /\ out' = [d \in Conns |-> IF d \in {c} THEN <<>> ELSE out[d]]
  BY DEF Shut
<1>2. <<>> \in Queue /\ Len(<<>>) <= SendQueue BY EmptyIs, BuffersAssumption DEF Queue
<1>3. conn'[c] = "shut" /\ out'[c] = <<>> /\ OthersSame(c) BY <1>1 DEF OthersSame
<1>4. out' \in [Conns -> Queue] BY <1>1, <1>2 DEF OutTypes
<1>5. conn' \in [Conns -> {"none", "open", "quit", "shut"}] BY <1>1 DEF OutTypes
<1>6. \A d \in Conns : Len(out'[d]) <= SendQueue BY <1>2, <1>3 DEF OutTypes, OthersSame
<1>q. QED BY <1>3, <1>4, <1>5, <1>6 DEF OutTypes

(* A client that has hung up starts again; the others are as they were. *)
IsDown(k) == phase'[k] = "down" /\ link'[k] = NoConn /\ pending'[k] = <<>>
IsSame(k) == phase'[k] = phase[k] /\ link'[k] = link[k] /\ pending'[k] = pending[k]

LEMMA HangUpIs ==
  ASSUME LinkTypes, NEW ks, HangUp(ks)
  PROVE  LinkTypes' /\ \A k \in Clients : (k \in ks => IsDown(k)) /\ (k \notin ks => IsSame(k))
<1>1. /\ phase' = [k \in Clients |-> IF k \in ks THEN "down" ELSE phase[k]]
      /\ link' = [k \in Clients |-> IF k \in ks THEN NoConn ELSE link[k]]
      /\ pending' = [k \in Clients |-> IF k \in ks THEN <<>> ELSE pending[k]]
  BY DEF HangUp
<1>2. <<>> \in Events BY EmptyIs DEF Events
<1>3. phase' \in [Clients -> {"down", "joining", "replaying", "streaming"}] BY <1>1 DEF LinkTypes
<1>4. link' \in [Clients -> Conns \cup {NoConn}] BY <1>1 DEF LinkTypes
<1>5. pending' \in [Clients -> Events] BY <1>1, <1>2 DEF LinkTypes
<1>6. \A k \in Clients : (k \in ks => IsDown(k)) /\ (k \notin ks => IsSame(k))
  BY <1>1 DEF IsDown, IsSame
<1>q. QED BY <1>3, <1>4, <1>5, <1>6 DEF LinkTypes

(* What the other helpers do. *)
IsSent(f, left) ==
  /\ pump' \in [Fanouts -> {"none", "recv", "snap", "send", "check", "drop"}] /\ held' \in [Fanouts -> Nat]
  /\ \A g \in Fanouts \ {f} : pump'[g] = pump[g] /\ held'[g] = held[g]
  /\ left = {} => pump'[f] = "recv"
  /\ left # {} => pump'[f] = "send" /\ held'[f] = held[f]

LEMMA SentIs ==
  ASSUME PumpTypes, NEW f \in Fanouts, NEW left, Sent(f, left)
  PROVE  IsSent(f, left)
<1>1. CASE left = {} /\ pump' = [pump EXCEPT ![f] = "recv"] /\ held' = [held EXCEPT ![f] = 0]
  BY <1>1 DEF PumpTypes, IsSent
<1>2. CASE left # {} /\ pump' = [pump EXCEPT ![f] = "send"] /\ held' = held
  BY <1>2 DEF PumpTypes, IsSent
<1>q. QED BY <1>1, <1>2 DEF Sent

(* The last to leave takes the fan-out down. *)
IsDropped(c) ==
  /\ FanTypes'
  /\ chan' = chan
  /\ registered = NoFanout => registered' = NoFanout /\ stream' = stream /\ members' = members
  /\ registered # NoFanout =>
       /\ \A f \in Fanouts \ {registered} : stream'[f] = stream[f] /\ members'[f] = members[f]
       /\ members'[registered] = members[registered] \ {c}
       /\ members[registered] \subseteq {c} => stream'[registered] = "closed" /\ registered' = NoFanout
       /\ ~(members[registered] \subseteq {c}) => stream' = stream /\ registered' = registered

LEMMA DropLockedIs ==
  ASSUME FanTypes, NEW c \in Conns, DropLocked(c), UNCHANGED chan
  PROVE  IsDropped(c)
<1>1. CASE registered = NoFanout BY <1>1 DEF DropLocked, IsDropped, FanTypes
<1>2. CASE registered # NoFanout
  <2>1. registered \in Fanouts BY <1>2 DEF FanTypes
  <2>2. members' = [members EXCEPT ![registered] = @ \ {c}] BY <1>2 DEF DropLocked
  <2>3. members' \in [Fanouts -> SUBSET Conns] BY <2>1, <2>2 DEF FanTypes
  <2>4. \/ /\ members[registered] \subseteq {c}
           /\ stream' = [stream EXCEPT ![registered] = "closed"] /\ registered' = NoFanout
        \/ ~(members[registered] \subseteq {c}) /\ stream' = stream /\ registered' = registered
    BY <1>2 DEF DropLocked
  <2>5. stream' \in [Fanouts -> {"none", "fed", "closed", "dead"}] BY <2>1, <2>4 DEF FanTypes
  <2>6. FanTypes' BY <2>1, <2>3, <2>4, <2>5 DEF FanTypes
  <2>q. QED BY <1>2, <2>1, <2>2, <2>4, <2>6 DEF IsDropped, FanTypes
<1>q. QED BY <1>1, <1>2

(* Who joins is a member of the fan-out registered from then on. *)
IsMember(c) ==
  /\ registered # NoFanout /\ registered' = registered
  /\ UNCHANGED <<chan, stream, pump, held, todo, at>>
  /\ members'[registered] = members[registered] \cup {c}
  /\ \A f \in Fanouts \ {registered} : members'[f] = members[f]

IsFirst(c, g, f) ==
  /\ f \in Fanouts /\ pump[f] = "none" /\ registered = NoFanout /\ registered' = f
  /\ UNCHANGED <<held, todo, at>>
  /\ members'[f] = {c} /\ chan'[f] = <<>> /\ pump'[f] = "recv"
  /\ stream'[f] = IF g = gen THEN "fed" ELSE "dead"
  /\ \A h \in Fanouts \ {f} : /\ members'[h] = members[h] /\ chan'[h] = chan[h]
                              /\ pump'[h] = pump[h] /\ stream'[h] = stream[h]

IsJoined(c, g) == IsMember(c) \/ \E f \in Fanouts : IsFirst(c, g, f)

LEMMA JoinIs ==
  ASSUME FanTypes, PumpTypes, NEW c \in Conns, NEW g, Join(c, g)
  PROVE  FanTypes' /\ PumpTypes' /\ IsJoined(c, g)
<1>1. CASE registered # NoFanout
  <2>1. registered \in Fanouts BY <1>1 DEF FanTypes
  <2>2. /\ members' = [members EXCEPT ![registered] = @ \cup {c}]
        /\ UNCHANGED <<registered, chan, stream, pump, held, todo, at>>
    BY <1>1 DEF Join, pumpVars
  <2>3. members' \in [Fanouts -> SUBSET Conns] BY <2>1, <2>2 DEF FanTypes
  <2>4. FanTypes' BY <2>2, <2>3 DEF FanTypes
  <2>5. PumpTypes' BY <2>2 DEF PumpTypes
  <2>6. IsMember(c) BY <1>1, <2>1, <2>2 DEF FanTypes, IsMember
  <2>q. QED BY <2>4, <2>5, <2>6 DEF IsJoined
<1>2. CASE registered = NoFanout
  <2>1. PICK f \in Fanouts :
           /\ pump[f] = "none"
           /\ registered' = f
           /\ members' = [members EXCEPT ![f] = {c}]
           /\ chan' = [chan EXCEPT ![f] = <<>>]
           /\ stream' = [stream EXCEPT ![f] = IF g = gen THEN "fed" ELSE "dead"]
           /\ pump' = [pump EXCEPT ![f] = "recv"]
           /\ UNCHANGED <<held, todo, at>>
    BY <1>2 DEF Join
  <2>2. <<>> \in Events /\ Len(<<>>) <= EventBuffer BY EmptyIs, BuffersAssumption DEF Events
  <2>3. members' \in [Fanouts -> SUBSET Conns] BY <2>1 DEF FanTypes
  <2>4. chan' \in [Fanouts -> Events] BY <2>1, <2>2 DEF FanTypes
  <2>5. stream' \in [Fanouts -> {"none", "fed", "closed", "dead"}] BY <2>1 DEF FanTypes
  <2>6. PumpTypes' BY <2>1 DEF PumpTypes
  <2>7. IsFirst(c, g, f) BY <1>2, <2>1 DEF FanTypes, PumpTypes, IsFirst
  <2>8. \A h \in Fanouts : Len(chan'[h]) <= EventBuffer BY <2>2, <2>7 DEF FanTypes, IsFirst
  <2>9. FanTypes' BY <2>1, <2>3, <2>4, <2>5, <2>8 DEF FanTypes
  <2>q. QED BY <2>6, <2>7, <2>9 DEF IsJoined
<1>q. QED BY <1>1, <1>2

-----------------------------------------------------------------------------
(* What an action leaves alone. *)

LogSame == UNCHANGED <<len, archived, gen, mover, faults>>
FanSame == UNCHANGED <<registered, members, chan, stream>>
PumpSame == UNCHANGED <<pump, held, todo, at>>
ConnSame == UNCHANGED <<conn, out, serving, got>>
ClientSame == UNCHANGED <<phase, link, cursor, shown, pending, since>>

LEMMA SameTypes ==
  /\ LogTypes /\ LogSame => LogTypes'
  /\ FanTypes /\ FanSame => FanTypes'
  /\ PumpTypes /\ PumpSame => PumpTypes'
  /\ ConnTypes /\ ConnSame => ConnTypes'
  /\ ClientTypes /\ ClientSame => ClientTypes'
BY DEF LogTypes, FanTypes, PumpTypes, OutTypes, ConnTypes, LinkTypes, ClientTypes,
       LogSame, FanSame, PumpSame, ConnSame, ClientSame

LEMMA ShowTypes ==
  ASSUME NEW k \in Clients, NEW q \in Events, Show(k, q),
         cursor \in [Clients -> Nat], shown \in [Clients -> SUBSET Nat]
  PROVE  cursor' \in [Clients -> Nat] /\ shown' \in [Clients -> SUBSET Nat]
<1> DEFINE s == {q[i] : i \in {i \in DOMAIN q : /\ q[i] > Last(shown[k])
                                              /\ \A j \in DOMAIN q : j < i => q[j] < q[i]}}
           n == IF q = <<>> THEN cursor[k] ELSE q[Len(q)]
<1>1. DOMAIN q = 1..Len(q) /\ Len(q) \in Nat /\ \A i \in 1..Len(q) : q[i] \in Nat
  BY LenProperties, ElementOfSeq DEF Events
<1>2. s \in SUBSET Nat BY <1>1
<1>3. n \in Nat
  <2>1. q # <<>> => Len(q) \in 1..Len(q) BY EmptySeq, <1>1 DEF Events
  <2>q. QED BY <1>1, <2>1
<1>4. shown' = [shown EXCEPT ![k] = @ \cup s] /\ cursor' = [cursor EXCEPT ![k] = n] BY DEF Show
<1> HIDE DEF s, n
<1>q. QED BY <1>2, <1>3, <1>4

LEMMA MissedIs ==
  ASSUME NEW n \in Nat, NEW m \in Nat
  PROVE  [i \in 1..(n - m) |-> m + i] \in Events
<1>1. CASE m <= n BY <1>1 DEF Events
<1>2. CASE m > n
  <2>1. 1..(n - m) = 1..0 BY <1>2
  <2>q. QED BY <2>1 DEF Events
<1>q. QED BY <1>1, <1>2

LEMMA TypesStep == ASSUME Types, [Next]_vars PROVE Types'
<1>t. LogTypes /\ FanTypes /\ PumpTypes /\ ConnTypes /\ ClientTypes BY DEF Types
<1>o. OutTypes /\ LinkTypes BY <1>t DEF ConnTypes, ClientTypes
<1>s. cursor \in [Clients -> Nat] /\ shown \in [Clients -> SUBSET Nat] BY <1>t DEF ClientTypes
<1>e. <<>> \in Events /\ <<>> \in Queue /\ Len(<<>>) = 0 BY EmptyIs DEF Events, Queue
<1> USE ConnsAre, BuffersAssumption, BoundsAssumption, NoneAssumption
<1>1. ASSUME LogEvent PROVE Types'
  <2>1. LogTypes'
    BY <1>t, <1>1 DEF LogEvent, LogTypes, Record, FewTroubles, logVars, fanVars, pumpVars,
       connVars, seenVars, cliVars
  <2>2. FanTypes'
    <3>1. Broadcast(len + 1) /\ len + 1 \in Nat BY <1>t, <1>1 DEF LogEvent, Record, LogTypes
    <3>2. UNCHANGED <<registered, members>> BY <1>1 DEF LogEvent
    <3>q. QED BY <1>t, <3>1, <3>2, BroadcastIs DEF FanTypes
  <2>3. PumpSame
    BY <1>1 DEF LogEvent, PumpSame, logVars, fanVars, pumpVars, connVars, seenVars, cliVars
  <2>4. ConnSame
    BY <1>1 DEF LogEvent, ConnSame, logVars, fanVars, pumpVars, connVars, seenVars, cliVars
  <2>5. ClientSame
    BY <1>1 DEF LogEvent, ClientSame, logVars, fanVars, pumpVars, connVars, seenVars, cliVars
  <2>q. QED BY <1>t, <2>1, <2>2, <2>3, <2>4, <2>5, SameTypes DEF Types
<1>2. ASSUME ArchiveNotice PROVE Types'
  <2>1. LogTypes'
    BY <1>t, <1>2 DEF ArchiveNotice, LogTypes, Record, FewTroubles, logVars, fanVars, pumpVars,
       connVars, seenVars, cliVars
  <2>2. FanTypes'
    <3>1. Broadcast(len + 1) /\ len + 1 \in Nat BY <1>t, <1>2 DEF ArchiveNotice, Record, LogTypes
    <3>2. UNCHANGED <<registered, members>> BY <1>2 DEF ArchiveNotice
    <3>q. QED BY <1>t, <3>1, <3>2, BroadcastIs DEF FanTypes
  <2>3. PumpSame
    BY <1>2 DEF ArchiveNotice, PumpSame, logVars, fanVars, pumpVars, connVars, seenVars, cliVars
  <2>4. ConnSame
    BY <1>2 DEF ArchiveNotice, ConnSame, logVars, fanVars, pumpVars, connVars, seenVars, cliVars
  <2>5. ClientSame
    BY <1>2 DEF ArchiveNotice, ClientSame, logVars, fanVars, pumpVars, connVars, seenVars, cliVars
  <2>q. QED BY <1>t, <2>1, <2>2, <2>3, <2>4, <2>5, SameTypes DEF Types
<1>3. ASSUME ArchiveMove PROVE Types'
  <2>1. LogTypes'
    BY <1>t, <1>3 DEF ArchiveMove, LogTypes, Record, FewTroubles, logVars, fanVars, pumpVars,
       connVars, seenVars, cliVars
  <2>2. FanTypes'
    BY <1>t, <1>3 DEF ArchiveMove, FanTypes, logVars, fanVars, pumpVars, connVars, seenVars,
       cliVars
  <2>3. PumpSame
    BY <1>3 DEF ArchiveMove, PumpSame, logVars, fanVars, pumpVars, connVars, seenVars, cliVars
  <2>4. ConnSame
    BY <1>3 DEF ArchiveMove, ConnSame, logVars, fanVars, pumpVars, connVars, seenVars, cliVars
  <2>5. ClientSame
    BY <1>3 DEF ArchiveMove, ClientSame, logVars, fanVars, pumpVars, connVars, seenVars, cliVars
  <2>q. QED BY <1>t, <2>1, <2>2, <2>3, <2>4, <2>5, SameTypes DEF Types
<1>4. ASSUME RestoreMove PROVE Types'
  <2>1. LogTypes'
    BY <1>t, <1>4 DEF RestoreMove, LogTypes, Record, FewTroubles, logVars, fanVars, pumpVars,
       connVars, seenVars, cliVars
  <2>2. FanSame
    BY <1>4 DEF RestoreMove, FanSame, logVars, fanVars, pumpVars, connVars, seenVars, cliVars
  <2>3. PumpSame
    BY <1>4 DEF RestoreMove, PumpSame, logVars, fanVars, pumpVars, connVars, seenVars, cliVars
  <2>4. ConnSame
    BY <1>4 DEF RestoreMove, ConnSame, logVars, fanVars, pumpVars, connVars, seenVars, cliVars
  <2>5. ClientSame
    BY <1>4 DEF RestoreMove, ClientSame, logVars, fanVars, pumpVars, connVars, seenVars, cliVars
  <2>q. QED BY <1>t, <2>1, <2>2, <2>3, <2>4, <2>5, SameTypes DEF Types
<1>5. ASSUME RestoreNotice PROVE Types'
  <2>1. LogTypes'
    BY <1>t, <1>5 DEF RestoreNotice, LogTypes, Record, FewTroubles, logVars, fanVars, pumpVars,
       connVars, seenVars, cliVars
  <2>2. FanTypes'
    <3>1. Broadcast(len + 1) /\ len + 1 \in Nat BY <1>t, <1>5 DEF RestoreNotice, Record, LogTypes
    <3>2. UNCHANGED <<registered, members>> BY <1>5 DEF RestoreNotice
    <3>q. QED BY <1>t, <3>1, <3>2, BroadcastIs DEF FanTypes
  <2>3. PumpSame
    BY <1>5 DEF RestoreNotice, PumpSame, logVars, fanVars, pumpVars, connVars, seenVars, cliVars
  <2>4. ConnSame
    BY <1>5 DEF RestoreNotice, ConnSame, logVars, fanVars, pumpVars, connVars, seenVars, cliVars
  <2>5. ClientSame
    BY <1>5 DEF RestoreNotice, ClientSame, logVars, fanVars, pumpVars, connVars, seenVars, cliVars
  <2>q. QED BY <1>t, <2>1, <2>2, <2>3, <2>4, <2>5, SameTypes DEF Types
<1>6. ASSUME NEW f \in Fanouts, PumpReceive(f) PROVE Types'
  <2>1. LogSame
    BY <1>6 DEF PumpReceive, LogSame, logVars, fanVars, pumpVars, connVars, seenVars, cliVars
  <2>2. FanTypes'
    <3>1. chan' = [chan EXCEPT ![f] = Tail(@)] /\ UNCHANGED <<registered, members, stream>>
      BY <1>6 DEF PumpReceive
    <3>2. chan[f] \in Events /\ chan[f] # <<>> /\ Len(chan[f]) <= EventBuffer
      BY <1>t, <1>6 DEF PumpReceive, FanTypes
    <3>3. Tail(chan[f]) \in Events /\ Len(Tail(chan[f])) <= EventBuffer BY <3>2, TailIs DEF Events
    <3>q. QED BY <1>t, <3>1, <3>3 DEF FanTypes
  <2>3. PumpTypes'
    <3>1. /\ held' = [held EXCEPT ![f] = Head(chan[f])] /\ pump' = [pump EXCEPT ![f] = "snap"]
          /\ UNCHANGED <<todo, at>>
      BY <1>6 DEF PumpReceive
    <3>2. chan[f] \in Events /\ chan[f] # <<>> BY <1>t, <1>6 DEF PumpReceive, FanTypes
    <3>3. Head(chan[f]) \in Nat BY <3>2, TailIs DEF Events
    <3>q. QED BY <1>t, <3>1, <3>3 DEF PumpTypes
  <2>4. ConnSame
    BY <1>6 DEF PumpReceive, ConnSame, logVars, fanVars, pumpVars, connVars, seenVars, cliVars
  <2>5. ClientSame
    BY <1>6 DEF PumpReceive, ClientSame, logVars, fanVars, pumpVars, connVars, seenVars, cliVars
  <2>q. QED BY <1>t, <2>1, <2>2, <2>3, <2>4, <2>5, SameTypes DEF Types
<1>7. ASSUME NEW f \in Fanouts, PumpSnapshot(f) PROVE Types'
  <2>1. LogSame
    BY <1>7 DEF PumpSnapshot, LogSame, logVars, fanVars, pumpVars, connVars, seenVars, cliVars
  <2>2. FanSame
    BY <1>7 DEF PumpSnapshot, FanSame, logVars, fanVars, pumpVars, connVars, seenVars, cliVars
  <2>3. PumpTypes'
    <3>1. /\ todo' = [todo EXCEPT ![f] = Subscribers] /\ Sent(f, Subscribers) /\ at' = at
      BY <1>7 DEF PumpSnapshot
    <3>2. Subscribers \in SUBSET Conns BY <1>t DEF Subscribers, FanTypes
    <3>3. IsSent(f, Subscribers) BY <1>t, <3>1, SentIs
    <3>4. todo' \in [Fanouts -> SUBSET Conns] BY <1>t, <3>1, <3>2 DEF PumpTypes
    <3>q. QED BY <1>t, <3>1, <3>3, <3>4 DEF PumpTypes, IsSent
  <2>4. ConnSame
    BY <1>7 DEF PumpSnapshot, ConnSame, logVars, fanVars, pumpVars, connVars, seenVars, cliVars
  <2>5. ClientSame
    BY <1>7 DEF PumpSnapshot, ClientSame, logVars, fanVars, pumpVars, connVars, seenVars, cliVars
  <2>q. QED BY <1>t, <2>1, <2>2, <2>3, <2>4, <2>5, SameTypes DEF Types
<1>8. ASSUME NEW f \in Fanouts, PumpPick(f) PROVE Types'
  <2>1. LogSame
    BY <1>8 DEF PumpPick, LogSame, logVars, fanVars, pumpVars, connVars, seenVars, cliVars
  <2>2. FanSame
    BY <1>8 DEF PumpPick, FanSame, logVars, fanVars, pumpVars, connVars, seenVars, cliVars
  <2>3. PumpTypes'
    <3>1. PICK c \in todo[f] :
           /\ todo' = [todo EXCEPT ![f] = @ \ {c}]
           /\ IF conn[c] = "open" THEN at' = [at EXCEPT ![f] = c] /\ UNCHANGED <<pump, held>>
                                  ELSE Sent(f, todo[f] \ {c}) /\ UNCHANGED at
      BY <1>8 DEF PumpPick
    <3>2. c \in Conns /\ todo' \in [Fanouts -> SUBSET Conns] BY <1>t, <3>1 DEF PumpTypes
    <3>3. CASE conn[c] = "open" BY <1>t, <3>1, <3>2, <3>3 DEF PumpTypes
    <3>4. CASE conn[c] # "open"
      <4>1. IsSent(f, todo[f] \ {c}) BY <1>t, <3>1, <3>4, SentIs
      <4>q. QED BY <1>t, <3>1, <3>2, <3>4, <4>1 DEF PumpTypes, IsSent
    <3>q. QED BY <3>3, <3>4
  <2>4. ConnSame
    BY <1>8 DEF PumpPick, ConnSame, logVars, fanVars, pumpVars, connVars, seenVars, cliVars
  <2>5. ClientSame
    BY <1>8 DEF PumpPick, ClientSame, logVars, fanVars, pumpVars, connVars, seenVars, cliVars
  <2>q. QED BY <1>t, <2>1, <2>2, <2>3, <2>4, <2>5, SameTypes DEF Types
<1>9. ASSUME NEW f \in Fanouts, PumpPut(f) PROVE Types'
  <2>1. LogSame
    BY <1>9 DEF PumpPut, LogSame, logVars, fanVars, pumpVars, connVars, seenVars, cliVars
  <2>2. FanSame
    BY <1>9 DEF PumpPut, FanSame, logVars, fanVars, pumpVars, connVars, seenVars, cliVars
  <2>3. PumpTypes'
    <3>1. /\ at' = [at EXCEPT ![f] = NoConn] /\ Sent(f, todo[f]) /\ todo' = todo BY <1>9 DEF PumpPut
    <3>2. IsSent(f, todo[f]) BY <1>t, <3>1, SentIs
    <3>q. QED BY <1>t, <3>1, <3>2 DEF PumpTypes, IsSent
  <2>4. ConnTypes'
    <3>1. OutTypes'
      <4>1. at[f] \in Conns /\ held[f] \in Nat BY <1>t, <1>9 DEF PumpPut, PumpTypes
      <4>2. EventMsg(held[f]) \in Msgs BY <4>1 DEF EventMsg, Msgs
      <4>3. Len(out[at[f]]) \in Nat /\ out[at[f]] \in Seq(Msgs)
        BY <1>o, <4>1, LenProperties DEF OutTypes, Queue
      <4>4. CASE UNCHANGED <<conn, out>> BY <1>o, <4>4 DEF OutTypes
      <4>5. CASE /\ Len(out[at[f]]) < SendQueue /\ conn' = conn
                 /\ out' = [out EXCEPT ![at[f]] = Append(@, EventMsg(held[f]))]
        <5>1. /\ Append(out[at[f]], EventMsg(held[f])) \in Queue
              /\ Len(Append(out[at[f]], EventMsg(held[f]))) <= SendQueue
          BY <4>2, <4>3, <4>5, AppendIs DEF Queue
        <5>2. out' \in [Conns -> Queue] BY <1>o, <4>1, <4>5, <5>1 DEF OutTypes
        <5>3. \A d \in Conns : Len(out'[d]) <= SendQueue BY <1>o, <4>1, <4>5, <5>1 DEF OutTypes
        <5>q. QED BY <1>o, <4>5, <5>2, <5>3 DEF OutTypes
      <4>6. CASE conn' = [conn EXCEPT ![at[f]] = "quit"] /\ out' = out
        BY <1>o, <4>1, <4>6 DEF OutTypes
      <4>q. QED BY <1>9, <4>4, <4>5, <4>6 DEF PumpPut
    <3>2. UNCHANGED <<serving, got>> BY <1>9 DEF PumpPut
    <3>q. QED BY <1>t, <3>1, <3>2 DEF ConnTypes
  <2>5. ClientSame
    BY <1>9 DEF PumpPut, ClientSame, logVars, fanVars, pumpVars, connVars, seenVars, cliVars
  <2>q. QED BY <1>t, <2>1, <2>2, <2>3, <2>4, <2>5, SameTypes DEF Types
<1>10. ASSUME NEW f \in Fanouts, PumpEnded(f) PROVE Types'
  <2>1. LogSame
    BY <1>10 DEF PumpEnded, LogSame, logVars, fanVars, pumpVars, connVars, seenVars, cliVars
  <2>2. FanTypes'
    BY <1>t, <1>10 DEF PumpEnded, FanTypes, logVars, fanVars, pumpVars, connVars, seenVars,
       cliVars
  <2>3. PumpTypes'
    <3>1. /\ held' = held /\ at' = at
          /\ pump' = [pump EXCEPT ![f] = IF registered = f THEN "check" ELSE "none"]
          /\ todo' = [todo EXCEPT ![f] = IF registered = f THEN members[f] ELSE {}]
      BY <1>10 DEF PumpEnded, PumpGone
    <3>2. members[f] \in SUBSET Conns BY <1>t DEF FanTypes
    <3>3. todo' \in [Fanouts -> SUBSET Conns] BY <1>t, <3>1, <3>2 DEF PumpTypes
    <3>q. QED BY <1>t, <3>1, <3>3 DEF PumpTypes
  <2>4. ConnSame
    BY <1>10 DEF PumpEnded, ConnSame, logVars, fanVars, pumpVars, connVars, seenVars, cliVars
  <2>5. ClientSame
    BY <1>10 DEF PumpEnded, ClientSame, logVars, fanVars, pumpVars, connVars, seenVars, cliVars
  <2>q. QED BY <1>t, <2>1, <2>2, <2>3, <2>4, <2>5, SameTypes DEF Types
<1>11. ASSUME NEW f \in Fanouts, PumpCheck(f) PROVE Types'
  <2>1. LogSame
    BY <1>11 DEF PumpCheck, LogSame, logVars, fanVars, pumpVars, connVars, seenVars, cliVars
  <2>2. FanSame
    BY <1>11 DEF PumpCheck, FanSame, logVars, fanVars, pumpVars, connVars, seenVars, cliVars
  <2>3. PumpTypes'
    BY <1>t, <1>11 DEF PumpCheck, PumpTypes, PumpGone, Subscribers, logVars, fanVars, pumpVars,
       connVars, seenVars, cliVars
  <2>4. ConnSame
    BY <1>11 DEF PumpCheck, ConnSame, logVars, fanVars, pumpVars, connVars, seenVars, cliVars
  <2>5. ClientSame
    BY <1>11 DEF PumpCheck, ClientSame, logVars, fanVars, pumpVars, connVars, seenVars, cliVars
  <2>q. QED BY <1>t, <2>1, <2>2, <2>3, <2>4, <2>5, SameTypes DEF Types
<1>12. ASSUME NEW f \in Fanouts, PumpDrop(f) PROVE Types'
  <2>1. LogSame
    BY <1>12 DEF PumpDrop, LogSame, logVars, fanVars, pumpVars, connVars, seenVars, cliVars
  <2>2. FanSame
    BY <1>12 DEF PumpDrop, FanSame, logVars, fanVars, pumpVars, connVars, seenVars, cliVars
  <2>3. PumpTypes'
    BY <1>t, <1>12 DEF PumpDrop, PumpTypes, PumpGone, Subscribers, logVars, fanVars, pumpVars,
       connVars, seenVars, cliVars
  <2>4. ConnTypes'
    BY <1>t, <1>12 DEF PumpDrop, ConnTypes, Serve, OutTypes, logVars, fanVars, pumpVars, connVars,
       seenVars, cliVars
  <2>5. ClientSame
    BY <1>12 DEF PumpDrop, ClientSame, logVars, fanVars, pumpVars, connVars, seenVars, cliVars
  <2>q. QED BY <1>t, <2>1, <2>2, <2>3, <2>4, <2>5, SameTypes DEF Types
<1>13. ASSUME NEW c \in Conns, CloseNow(c) PROVE Types'
  <2>1. LogSame
    BY <1>13 DEF CloseNow, LogSame, logVars, fanVars, pumpVars, connVars, seenVars, cliVars
  <2>2. FanSame
    BY <1>13 DEF CloseNow, FanSame, logVars, fanVars, pumpVars, connVars, seenVars, cliVars
  <2>3. PumpSame
    BY <1>13 DEF CloseNow, PumpSame, logVars, fanVars, pumpVars, connVars, seenVars, cliVars
  <2>4. ConnTypes'
    <3>1. OutTypes' BY <1>o, <1>13, ShutIs DEF CloseNow
    <3>2. UNCHANGED <<serving, got>> BY <1>13 DEF CloseNow
    <3>q. QED BY <1>t, <3>1, <3>2 DEF ConnTypes
  <2>5. ClientTypes'
    <3>1. LinkTypes' BY <1>o, <1>13, HangUpIs DEF CloseNow
    <3>2. UNCHANGED <<cursor, shown, since>> BY <1>13 DEF CloseNow
    <3>q. QED BY <1>t, <3>1, <3>2 DEF ClientTypes
  <2>q. QED BY <1>t, <2>1, <2>2, <2>3, <2>4, <2>5, SameTypes DEF Types
<1>14. ASSUME NEW c \in Conns, Lose(c) PROVE Types'
  <2>1. LogTypes'
    BY <1>t, <1>14 DEF Lose, LogTypes, Record, FewTroubles, logVars, fanVars, pumpVars, connVars,
       seenVars, cliVars
  <2>2. FanSame BY <1>14 DEF Lose, FanSame, logVars, fanVars, pumpVars, connVars, seenVars, cliVars
  <2>3. PumpSame
    BY <1>14 DEF Lose, PumpSame, logVars, fanVars, pumpVars, connVars, seenVars, cliVars
  <2>4. ConnTypes'
    <3>1. OutTypes' BY <1>o, <1>14, ShutIs DEF Lose
    <3>2. UNCHANGED <<serving, got>> BY <1>14 DEF Lose
    <3>q. QED BY <1>t, <3>1, <3>2 DEF ConnTypes
  <2>5. ClientTypes'
    <3>1. LinkTypes' BY <1>o, <1>14, HangUpIs DEF Lose
    <3>2. UNCHANGED <<cursor, shown, since>> BY <1>14 DEF Lose
    <3>q. QED BY <1>t, <3>1, <3>2 DEF ClientTypes
  <2>q. QED BY <1>t, <2>1, <2>2, <2>3, <2>4, <2>5, SameTypes DEF Types
<1>15. ASSUME NEW c \in Conns, TearDown(c) PROVE Types'
  <2>1. LogSame
    BY <1>15 DEF TearDown, LogSame, logVars, fanVars, pumpVars, connVars, seenVars, cliVars
  <2>2. FanTypes'
    <3>1. DropLocked(c) /\ UNCHANGED chan BY <1>15 DEF TearDown
    <3>q. QED BY <1>t, <3>1, DropLockedIs DEF IsDropped
  <2>3. PumpSame
    BY <1>15 DEF TearDown, PumpSame, logVars, fanVars, pumpVars, connVars, seenVars, cliVars
  <2>4. ConnTypes'
    BY <1>t, <1>15 DEF TearDown, ConnTypes, Serve, OutTypes, logVars, fanVars, pumpVars, connVars,
       seenVars, cliVars
  <2>5. ClientTypes'
    BY <1>t, <1>15 DEF TearDown, ClientTypes, LinkTypes, logVars, fanVars, pumpVars, connVars,
       seenVars, cliVars
  <2>q. QED BY <1>t, <2>1, <2>2, <2>3, <2>4, <2>5, SameTypes DEF Types
<1>16. ASSUME NEW c \in Conns, SubscribeGet(c) PROVE Types'
  <2>1. LogSame
    BY <1>16 DEF SubscribeGet, LogSame, logVars, fanVars, pumpVars, connVars, seenVars, cliVars
  <2>2. FanSame
    BY <1>16 DEF SubscribeGet, FanSame, logVars, fanVars, pumpVars, connVars, seenVars, cliVars
  <2>3. PumpSame
    BY <1>16 DEF SubscribeGet, PumpSame, logVars, fanVars, pumpVars, connVars, seenVars, cliVars
  <2>4. ConnTypes'
    <3>1. ErrorMsg \in Msgs BY <1>t DEF ErrorMsg, JoinedMsg, ReplayMsg, Msgs, ConnTypes
    <3>2. Reply(c, ErrorMsg) => OutTypes' BY <1>o, <3>1, ReplyIs
    <3>3. OutTypes' BY <1>o, <1>16, <3>2 DEF SubscribeGet, OutTypes
    <3>4. serving' \in [Conns -> {"none", "subscribe", "join", "joined", "replay", "answer"}]
      BY <1>t, <1>16 DEF SubscribeGet, Serve, ConnTypes
    <3>5. got' \in [Conns -> Nat] BY <1>t, <1>16 DEF SubscribeGet, ConnTypes, LogTypes
    <3>q. QED BY <3>3, <3>4, <3>5 DEF ConnTypes
  <2>5. ClientSame
    BY <1>16 DEF SubscribeGet, ClientSame, logVars, fanVars, pumpVars, connVars, seenVars, cliVars
  <2>q. QED BY <1>t, <2>1, <2>2, <2>3, <2>4, <2>5, SameTypes DEF Types
<1>17. ASSUME NEW c \in Conns, SubscribeJoin(c) PROVE Types'
  <2>1. LogSame
    BY <1>17 DEF SubscribeJoin, LogSame, logVars, fanVars, pumpVars, connVars, seenVars, cliVars
  <2>2. FanTypes'
    <3>1. Join(c, got[c]) BY <1>17 DEF SubscribeJoin
    <3>q. QED BY <1>t, <3>1, JoinIs
  <2>3. PumpTypes'
    <3>1. Join(c, got[c]) BY <1>17 DEF SubscribeJoin
    <3>q. QED BY <1>t, <3>1, JoinIs
  <2>4. ConnTypes'
    BY <1>t, <1>17 DEF SubscribeJoin, ConnTypes, Serve, OutTypes, logVars, fanVars, pumpVars,
       connVars, seenVars, cliVars
  <2>5. ClientTypes'
    <3>1. since' = [since EXCEPT ![c] = got[c]] /\ UNCHANGED <<phase, link, cursor, shown, pending>>
      BY <1>17 DEF SubscribeJoin, seenVars
    <3>q. QED BY <1>t, <3>1 DEF ClientTypes, LinkTypes, ConnTypes
  <2>q. QED BY <1>t, <2>1, <2>2, <2>3, <2>4, <2>5, SameTypes DEF Types
<1>18. ASSUME NEW c \in Conns, SubscribeReply(c) PROVE Types'
  <2>1. LogSame
    BY <1>18 DEF SubscribeReply, LogSame, logVars, fanVars, pumpVars, connVars, seenVars, cliVars
  <2>2. FanSame
    BY <1>18 DEF SubscribeReply, FanSame, logVars, fanVars, pumpVars, connVars, seenVars, cliVars
  <2>3. PumpSame
    BY <1>18 DEF SubscribeReply, PumpSame, logVars, fanVars, pumpVars, connVars, seenVars, cliVars
  <2>4. ConnTypes'
    <3>1. JoinedMsg \in Msgs BY <1>t DEF ErrorMsg, JoinedMsg, ReplayMsg, Msgs, ConnTypes
    <3>2. Reply(c, JoinedMsg) => OutTypes' BY <1>o, <3>1, ReplyIs
    <3>3. OutTypes' BY <1>o, <1>18, <3>2 DEF SubscribeReply, OutTypes
    <3>4. serving' \in [Conns -> {"none", "subscribe", "join", "joined", "replay", "answer"}]
      BY <1>t, <1>18 DEF SubscribeReply, Serve, ConnTypes
    <3>5. got' \in [Conns -> Nat] BY <1>t, <1>18 DEF SubscribeReply, ConnTypes, LogTypes
    <3>q. QED BY <3>3, <3>4, <3>5 DEF ConnTypes
  <2>5. ClientSame
    BY <1>18 DEF SubscribeReply, ClientSame, logVars, fanVars, pumpVars, connVars, seenVars,
       cliVars
  <2>q. QED BY <1>t, <2>1, <2>2, <2>3, <2>4, <2>5, SameTypes DEF Types
<1>19. ASSUME NEW c \in Conns, ReplayRead(c) PROVE Types'
  <2>1. LogSame
    BY <1>19 DEF ReplayRead, LogSame, logVars, fanVars, pumpVars, connVars, seenVars, cliVars
  <2>2. FanSame
    BY <1>19 DEF ReplayRead, FanSame, logVars, fanVars, pumpVars, connVars, seenVars, cliVars
  <2>3. PumpSame
    BY <1>19 DEF ReplayRead, PumpSame, logVars, fanVars, pumpVars, connVars, seenVars, cliVars
  <2>4. ConnTypes'
    <3>1. ErrorMsg \in Msgs BY <1>t DEF ErrorMsg, JoinedMsg, ReplayMsg, Msgs, ConnTypes
    <3>2. Reply(c, ErrorMsg) => OutTypes' BY <1>o, <3>1, ReplyIs
    <3>3. OutTypes' BY <1>o, <1>19, <3>2 DEF ReplayRead, OutTypes
    <3>4. serving' \in [Conns -> {"none", "subscribe", "join", "joined", "replay", "answer"}]
      BY <1>t, <1>19 DEF ReplayRead, Serve, ConnTypes
    <3>5. got' \in [Conns -> Nat] BY <1>t, <1>19 DEF ReplayRead, ConnTypes, LogTypes
    <3>q. QED BY <3>3, <3>4, <3>5 DEF ConnTypes
  <2>5. ClientSame
    BY <1>19 DEF ReplayRead, ClientSame, logVars, fanVars, pumpVars, connVars, seenVars, cliVars
  <2>q. QED BY <1>t, <2>1, <2>2, <2>3, <2>4, <2>5, SameTypes DEF Types
<1>20. ASSUME NEW c \in Conns, ReplayAnswer(c) PROVE Types'
  <2>1. LogSame
    BY <1>20 DEF ReplayAnswer, LogSame, logVars, fanVars, pumpVars, connVars, seenVars, cliVars
  <2>2. FanSame
    BY <1>20 DEF ReplayAnswer, FanSame, logVars, fanVars, pumpVars, connVars, seenVars, cliVars
  <2>3. PumpSame
    BY <1>20 DEF ReplayAnswer, PumpSame, logVars, fanVars, pumpVars, connVars, seenVars, cliVars
  <2>4. ConnTypes'
    <3>1. ReplayMsg(got[c]) \in Msgs BY <1>t DEF ErrorMsg, JoinedMsg, ReplayMsg, Msgs, ConnTypes
    <3>2. Reply(c, ReplayMsg(got[c])) => OutTypes' BY <1>o, <3>1, ReplyIs
    <3>3. OutTypes' BY <1>o, <1>20, <3>2 DEF ReplayAnswer, OutTypes
    <3>4. serving' \in [Conns -> {"none", "subscribe", "join", "joined", "replay", "answer"}]
      BY <1>t, <1>20 DEF ReplayAnswer, Serve, ConnTypes
    <3>5. got' \in [Conns -> Nat] BY <1>t, <1>20 DEF ReplayAnswer, ConnTypes, LogTypes
    <3>q. QED BY <3>3, <3>4, <3>5 DEF ConnTypes
  <2>5. ClientSame
    BY <1>20 DEF ReplayAnswer, ClientSame, logVars, fanVars, pumpVars, connVars, seenVars, cliVars
  <2>q. QED BY <1>t, <2>1, <2>2, <2>3, <2>4, <2>5, SameTypes DEF Types
<1>21. ASSUME NEW c \in Conns, EventArrives(c) PROVE Types'
  <2>1. LogSame
    BY <1>21 DEF EventArrives, LogSame, logVars, fanVars, pumpVars, connVars, seenVars, cliVars
  <2>2. FanSame
    BY <1>21 DEF EventArrives, FanSame, logVars, fanVars, pumpVars, connVars, seenVars, cliVars
  <2>3. PumpSame
    BY <1>21 DEF EventArrives, PumpSame, logVars, fanVars, pumpVars, connVars, seenVars, cliVars
  <2>4. ConnTypes'
    <3>1. Arrives(c, "event") BY <1>21 DEF EventArrives
    <3>2. out[c] \in Queue /\ out[c] # <<>> /\ Len(out[c]) <= SendQueue /\ out' = [out EXCEPT ![c] = Tail(@)]
      BY <1>o, <3>1 DEF Arrives, OutTypes
    <3>3. Tail(out[c]) \in Queue /\ Len(Tail(out[c])) <= SendQueue BY <3>2, TailIs DEF Queue
    <3>4. out' \in [Conns -> Queue] BY <1>o, <3>2, <3>3 DEF OutTypes
    <3>5. \A d \in Conns : Len(out'[d]) <= SendQueue BY <1>o, <3>2, <3>3 DEF OutTypes
    <3>6. conn' = conn /\ got' = got BY <1>21 DEF EventArrives
    <3>7. serving' \in [Conns -> {"none", "subscribe", "join", "joined", "replay", "answer"}]
      BY <1>t, <1>21 DEF EventArrives, Serve, ConnTypes
    <3>q. QED BY <1>t, <1>o, <3>4, <3>5, <3>6, <3>7 DEF ConnTypes, OutTypes
  <2>5. ClientTypes'
    <3>1. out[c] \in Queue /\ out[c] # <<>> BY <1>o, <1>21 DEF EventArrives, Arrives, OutTypes
    <3>2. Head(out[c]) \in Msgs BY <3>1, TailIs DEF Queue
    <3>3. Head(out[c]).at \in Nat BY <3>2 DEF Msgs
    <3> DEFINE k == Client(c)  e == Head(out[c]).at
    <3>4. k \in Clients OBVIOUS
    <3>5. UNCHANGED <<phase, link, since>> BY <1>21 DEF EventArrives
    <3>6. CASE Show(k, <<e>>) /\ UNCHANGED pending
      <4>1. <<e>> \in Events BY <3>3 DEF Events
      <4>2. cursor' \in [Clients -> Nat] /\ shown' \in [Clients -> SUBSET Nat]
        BY <1>s, <3>4, <3>6, <4>1, ShowTypes
      <4>q. QED BY <1>t, <3>5, <3>6, <4>2 DEF ClientTypes, LinkTypes
    <3>7. CASE pending' = [pending EXCEPT ![k] = Append(@, e)] /\ UNCHANGED <<shown, cursor>>
      <4>1. pending[k] \in Events BY <1>o, <3>4 DEF LinkTypes
      <4>2. Append(pending[k], e) \in Events BY <3>3, <4>1, AppendIs DEF Events
      <4>3. pending' \in [Clients -> Events] BY <1>o, <3>4, <3>7, <4>2 DEF LinkTypes
      <4>q. QED BY <1>t, <3>5, <3>7, <4>3 DEF ClientTypes, LinkTypes
    <3>q. QED BY <1>21, <3>6, <3>7 DEF EventArrives
  <2>q. QED BY <1>t, <2>1, <2>2, <2>3, <2>4, <2>5, SameTypes DEF Types
<1>22. ASSUME NEW c \in Conns, JoinedArrives(c) PROVE Types'
  <2>1. LogSame
    BY <1>22 DEF JoinedArrives, LogSame, logVars, fanVars, pumpVars, connVars, seenVars, cliVars
  <2>2. FanSame
    BY <1>22 DEF JoinedArrives, FanSame, logVars, fanVars, pumpVars, connVars, seenVars, cliVars
  <2>3. PumpSame
    BY <1>22 DEF JoinedArrives, PumpSame, logVars, fanVars, pumpVars, connVars, seenVars, cliVars
  <2>4. ConnTypes'
    <3>1. Arrives(c, "joined") BY <1>22 DEF JoinedArrives
    <3>2. out[c] \in Queue /\ out[c] # <<>> /\ Len(out[c]) <= SendQueue /\ out' = [out EXCEPT ![c] = Tail(@)]
      BY <1>o, <3>1 DEF Arrives, OutTypes
    <3>3. Tail(out[c]) \in Queue /\ Len(Tail(out[c])) <= SendQueue BY <3>2, TailIs DEF Queue
    <3>4. out' \in [Conns -> Queue] BY <1>o, <3>2, <3>3 DEF OutTypes
    <3>5. \A d \in Conns : Len(out'[d]) <= SendQueue BY <1>o, <3>2, <3>3 DEF OutTypes
    <3>6. conn' = conn /\ got' = got BY <1>22 DEF JoinedArrives
    <3>7. serving' \in [Conns -> {"none", "subscribe", "join", "joined", "replay", "answer"}]
      BY <1>t, <1>22 DEF JoinedArrives, Serve, ConnTypes
    <3>q. QED BY <1>t, <1>o, <3>4, <3>5, <3>6, <3>7 DEF ConnTypes, OutTypes
  <2>5. ClientTypes'
    BY <1>t, <1>22 DEF JoinedArrives, ClientTypes, LinkTypes, logVars, fanVars, pumpVars,
       connVars, seenVars, cliVars
  <2>q. QED BY <1>t, <2>1, <2>2, <2>3, <2>4, <2>5, SameTypes DEF Types
<1>23. ASSUME NEW c \in Conns, ReplayArrives(c) PROVE Types'
  <2>1. LogSame
    BY <1>23 DEF ReplayArrives, LogSame, logVars, fanVars, pumpVars, connVars, seenVars, cliVars
  <2>2. FanSame
    BY <1>23 DEF ReplayArrives, FanSame, logVars, fanVars, pumpVars, connVars, seenVars, cliVars
  <2>3. PumpSame
    BY <1>23 DEF ReplayArrives, PumpSame, logVars, fanVars, pumpVars, connVars, seenVars, cliVars
  <2>4. ConnTypes'
    <3>1. Arrives(c, "replay") BY <1>23 DEF ReplayArrives
    <3>2. out[c] \in Queue /\ out[c] # <<>> /\ Len(out[c]) <= SendQueue /\ out' = [out EXCEPT ![c] = Tail(@)]
      BY <1>o, <3>1 DEF Arrives, OutTypes
    <3>3. Tail(out[c]) \in Queue /\ Len(Tail(out[c])) <= SendQueue BY <3>2, TailIs DEF Queue
    <3>4. out' \in [Conns -> Queue] BY <1>o, <3>2, <3>3 DEF OutTypes
    <3>5. \A d \in Conns : Len(out'[d]) <= SendQueue BY <1>o, <3>2, <3>3 DEF OutTypes
    <3>6. conn' = conn /\ got' = got BY <1>23 DEF ReplayArrives
    <3>7. serving' \in [Conns -> {"none", "subscribe", "join", "joined", "replay", "answer"}]
      BY <1>t, <1>23 DEF ReplayArrives, Serve, ConnTypes
    <3>q. QED BY <1>t, <1>o, <3>4, <3>5, <3>6, <3>7 DEF ConnTypes, OutTypes
  <2>5. ClientTypes'
    <3>1. out[c] \in Queue /\ out[c] # <<>> BY <1>o, <1>23 DEF ReplayArrives, Arrives, OutTypes
    <3>2. Head(out[c]) \in Msgs BY <3>1, TailIs DEF Queue
    <3>3. Head(out[c]).at \in Nat BY <3>2 DEF Msgs
    <3> DEFINE k == Client(c)  n == Head(out[c]).at
               missed == [i \in 1..(n - cursor[k]) |-> cursor[k] + i]
    <3>4. k \in Clients OBVIOUS
    <3>5. cursor[k] \in Nat /\ pending[k] \in Events BY <1>t, <3>4 DEF ClientTypes, LinkTypes
    <3>6. missed \in Events BY <3>3, <3>5, MissedIs
    <3>7. missed \o pending[k] \in Events BY <3>5, <3>6, ConcatProperties DEF Events
    <3>8. Show(k, missed \o pending[k]) BY <1>23 DEF ReplayArrives
    <3>9. cursor' \in [Clients -> Nat] /\ shown' \in [Clients -> SUBSET Nat]
      BY <1>s, <3>4, <3>7, <3>8, ShowTypes
    <3>10. /\ link' = link /\ since' = since
           /\ pending' = [pending EXCEPT ![k] = <<>>] /\ phase' = [phase EXCEPT ![k] = "streaming"]
      BY <1>23 DEF ReplayArrives
    <3>11. LinkTypes' BY <1>o, <1>e, <3>4, <3>10 DEF LinkTypes
    <3>q. QED BY <1>t, <3>9, <3>10, <3>11 DEF ClientTypes
  <2>q. QED BY <1>t, <2>1, <2>2, <2>3, <2>4, <2>5, SameTypes DEF Types
<1>24. ASSUME NEW c \in Conns, ErrorArrives(c) PROVE Types'
  <2>1. LogSame
    BY <1>24 DEF ErrorArrives, LogSame, logVars, fanVars, pumpVars, connVars, seenVars, cliVars
  <2>2. FanSame
    BY <1>24 DEF ErrorArrives, FanSame, logVars, fanVars, pumpVars, connVars, seenVars, cliVars
  <2>3. PumpSame
    BY <1>24 DEF ErrorArrives, PumpSame, logVars, fanVars, pumpVars, connVars, seenVars, cliVars
  <2>4. ConnTypes'
    <3>1. OutTypes' BY <1>o, <1>24, ShutIs DEF ErrorArrives
    <3>2. UNCHANGED <<serving, got>> BY <1>24 DEF ErrorArrives
    <3>q. QED BY <1>t, <3>1, <3>2 DEF ConnTypes
  <2>5. ClientTypes'
    <3>1. LinkTypes' BY <1>o, <1>24, HangUpIs DEF ErrorArrives
    <3>2. UNCHANGED <<cursor, shown, since>> BY <1>24 DEF ErrorArrives
    <3>q. QED BY <1>t, <3>1, <3>2 DEF ClientTypes
  <2>q. QED BY <1>t, <2>1, <2>2, <2>3, <2>4, <2>5, SameTypes DEF Types
<1>25. ASSUME NEW k \in Clients, Dial(k) PROVE Types'
  <2>1. LogSame BY <1>25 DEF Dial, LogSame, logVars, fanVars, pumpVars, connVars, seenVars, cliVars
  <2>2. FanSame BY <1>25 DEF Dial, FanSame, logVars, fanVars, pumpVars, connVars, seenVars, cliVars
  <2>3. PumpSame
    BY <1>25 DEF Dial, PumpSame, logVars, fanVars, pumpVars, connVars, seenVars, cliVars
  <2>4. ConnTypes'
    <3>1. PICK i \in Slots :
           /\ conn' = [conn EXCEPT ![<<k, i>>] = "open"] /\ out' = [out EXCEPT ![<<k, i>>] = <<>>]
           /\ serving' = [serving EXCEPT ![<<k, i>>] = "subscribe"]
      BY <1>25 DEF Dial, Serve
    <3>2. <<k, i>> \in Conns OBVIOUS
    <3>3. got' = got BY <1>25 DEF Dial
    <3>4. out' \in [Conns -> Queue] BY <1>o, <1>e, <3>1, <3>2 DEF OutTypes
    <3>5. \A d \in Conns : Len(out'[d]) <= SendQueue BY <1>o, <1>e, <3>1, <3>2 DEF OutTypes
    <3>6. conn' \in [Conns -> {"none", "open", "quit", "shut"}] BY <1>o, <3>1, <3>2 DEF OutTypes
    <3>q. QED BY <1>t, <3>1, <3>2, <3>3, <3>4, <3>5, <3>6 DEF ConnTypes, OutTypes
  <2>5. ClientTypes'
    BY <1>t, <1>25 DEF Dial, ClientTypes, LinkTypes, logVars, fanVars, pumpVars, connVars,
       seenVars, cliVars
  <2>q. QED BY <1>t, <2>1, <2>2, <2>3, <2>4, <2>5, SameTypes DEF Types
<1>26. ASSUME Restart PROVE Types'
  <2>1. LogTypes'
    BY <1>t, <1>26 DEF Restart, LogTypes, Record, FewTroubles, logVars, fanVars, pumpVars,
       connVars, seenVars, cliVars
  <2>2. FanTypes'
    <3>1. /\ registered' = NoFanout /\ members' = [f \in Fanouts |-> {}]
          /\ chan' = [f \in Fanouts |-> <<>>] /\ stream' = [f \in Fanouts |-> "none"]
      BY <1>26 DEF Restart
    <3>q. QED BY <1>e, <3>1 DEF FanTypes
  <2>3. PumpTypes'
    BY <1>t, <1>26 DEF Restart, PumpTypes, PumpGone, Subscribers, logVars, fanVars, pumpVars,
       connVars, seenVars, cliVars
  <2>4. ConnTypes'
    <3>1. /\ conn' = [c \in Conns |-> "none"] /\ out' = [c \in Conns |-> <<>>]
          /\ serving' = [c \in Conns |-> "none"] /\ got' = [c \in Conns |-> 0]
      BY <1>26 DEF Restart
    <3>q. QED BY <1>e, <3>1 DEF ConnTypes, OutTypes
  <2>5. ClientTypes'
    <3>1. since' = [c \in Conns |-> 0] /\ HangUp(Clients) /\ UNCHANGED <<cursor, shown>>
      BY <1>26 DEF Restart
    <3>2. LinkTypes' BY <1>o, <3>1, HangUpIs
    <3>q. QED BY <1>t, <3>1, <3>2 DEF ClientTypes
  <2>q. QED BY <1>t, <2>1, <2>2, <2>3, <2>4, <2>5, SameTypes DEF Types
<1>27. CASE UNCHANGED vars
  BY <1>t, <1>27, SameTypes DEF vars, Types, LogSame, FanSame, PumpSame, ConnSame, ClientSame
<1>q. QED BY <1>1, <1>2, <1>3, <1>4, <1>5, <1>6, <1>7, <1>8, <1>9, <1>10, <1>11, <1>12, <1>13,
   <1>14, <1>15, <1>16, <1>17, <1>18, <1>19, <1>20, <1>21, <1>22, <1>23, <1>24, <1>25, <1>26,
   <1>27 DEF Next, PumpStep, ConnStep, ClientStep

-----------------------------------------------------------------------------
(* What a connection has told its client, and will tell it.                *)

Live(c) == conn[c] \in {"open", "quit"}

(* A connection is its client's while it lives; a client has one at most.  *)
LinkInv ==
  /\ \A k \in Clients : /\ phase[k] = "down" <=> link[k] = NoConn
                        /\ link[k] # NoConn => Client(link[k]) = k
  /\ \A c \in Conns : /\ Live(c) <=> link[Client(c)] = c
                      /\ serving[c] # "none" => conn[c] # "none"

(* A client has one call under way: the reply is on its way when the call  *)
(* is over, and says where the client is.                                  *)
Talks(c) ==
  /\ \A i, j \in 1..Len(out[c]) : out[c][i].kind # "event" /\ out[c][j].kind # "event" => i = j
  /\ serving[c] # "none" => \A i \in 1..Len(out[c]) : out[c][i].kind = "event"
  /\ \A i \in 1..Len(out[c]) : /\ out[c][i].kind = "joined" => phase[Client(c)] = "joining"
                               /\ out[c][i].kind = "replay" => phase[Client(c)] = "replaying"
  /\ serving[c] \in {"subscribe", "join", "joined"} => phase[Client(c)] = "joining"
  /\ serving[c] \in {"replay", "answer"} => phase[Client(c)] = "replaying"

(* A replay holds the log from the start to some event, and more than the  *)
(* client shows.                                                           *)
Reads(c) ==
  /\ serving[c] = "answer" => got[c] \in 1..len /\ shown[Client(c)] \subseteq 1..got[c]
  /\ \A i \in 1..Len(out[c]) :
       /\ out[c][i].kind = "event" => out[c][i].at \in 2..len
       /\ out[c][i].kind = "replay" => /\ out[c][i].at \in 1..len
                                       /\ shown[Client(c)] \subseteq 1..out[c][i].at

(* The client shows e already, or will from its replay.                    *)
Base(c, e) ==
  /\ e \in 1..len
  /\ phase[Client(c)] = "streaming" => e \in shown[Client(c)]
  /\ serving[c] = "answer" => e <= got[c]
  /\ \A i \in 1..Len(out[c]) : out[c][i].kind = "replay" => e <= out[c][i].at

(* An event that is e or later has come and is kept, or is on its way.     *)
Waits(c, e)  == \E i \in 1..Len(pending[Client(c)]) : pending[Client(c)][i] >= e
Queued(c, e) == \E i \in 1..Len(out[c]) : out[c][i].kind = "event" /\ out[c][i].at >= e

(* The client will have shown e once it has all that is on its way.        *)
Knows(c, e) == Base(c, e) \/ Waits(c, e) \/ Queued(c, e)

(* No event comes to a client that does not have, or get first, the one    *)
(* before it.                                                              *)
WaitsBefore(c, i, e)  == \E j \in 1..(i - 1) : pending[Client(c)][j] >= e
QueuedBefore(c, i, e) == \E j \in 1..(i - 1) : out[c][j].kind = "event" /\ out[c][j].at >= e

WaitsInTurn(c, i, e) == Base(c, e) \/ WaitsBefore(c, i, e)
ComesInTurn(c, i, e) == Base(c, e) \/ Waits(c, e) \/ QueuedBefore(c, i, e)

NoGap(c) ==
  /\ \A i \in 1..Len(pending[Client(c)]), e \in Nat :
       pending[Client(c)][i] = e + 1 => WaitsInTurn(c, i, e)
  /\ \A i \in 1..Len(out[c]), e \in Nat : out[c][i] = EventMsg(e + 1) => ComesInTurn(c, i, e)

(* A client shows the log from its start to some event, and its cursor is  *)
(* one of them.                                                            *)
Shows(k) ==
  /\ \E n \in 0..len : shown[k] = 1..n
  /\ phase[k] = "streaming" => shown[k] # {}
  /\ cursor[k] \in shown[k] \cup {0}
  /\ \A i \in 1..Len(pending[k]) : pending[k][i] \in 2..len
  /\ phase[k] \in {"down", "streaming"} => pending[k] = <<>>

Fits(c) == Talks(c) /\ Reads(c) /\ NoGap(c)
ClientInv == (\A k \in Clients : Shows(k)) /\ (\A c \in Conns : Live(c) => Fits(c))

(* What a client shows or will show it goes on to.                         *)
Carries(c) == \A e \in Nat \ {0} : (Base(c, e) => Base(c, e)') /\ (Knows(c, e) => Knows(c, e)')

(* The rows, as the provers take them. *)
RowTypes(c) ==
  /\ Client(c) \in Clients
  /\ out[c] \in Seq(Msgs) /\ Len(out[c]) \in Nat
  /\ \A i \in 1..Len(out[c]) : out[c][i] \in Msgs /\ out[c][i].at \in Nat
  /\ pending[Client(c)] \in Seq(Nat) /\ Len(pending[Client(c)]) \in Nat
  /\ \A i \in 1..Len(pending[Client(c)]) : pending[Client(c)][i] \in Nat
  /\ got[c] \in Nat /\ cursor[Client(c)] \in Nat /\ len \in Nat \ {0} /\ gen \in Nat

LEMMA RowsAre == ASSUME Types, NEW c \in Conns PROVE RowTypes(c)
<1>1. out[c] \in Seq(Msgs) /\ pending[Client(c)] \in Seq(Nat)
  BY ConnsAre DEF Types, ConnTypes, OutTypes, ClientTypes, LinkTypes, Queue, Events
<1>2. Len(out[c]) \in Nat /\ \A i \in 1..Len(out[c]) : out[c][i] \in Msgs
  BY <1>1, LenProperties, ElementOfSeq
<1>3. \A i \in 1..Len(out[c]) : out[c][i].at \in Nat BY <1>2 DEF Msgs
<1>4. Len(pending[Client(c)]) \in Nat
      /\ \A i \in 1..Len(pending[Client(c)]) : pending[Client(c)][i] \in Nat
  BY <1>1, LenProperties, ElementOfSeq
<1>5. got[c] \in Nat /\ cursor[Client(c)] \in Nat /\ len \in Nat \ {0} /\ gen \in Nat
  BY ConnsAre DEF Types, LogTypes, ConnTypes, ClientTypes
<1>q. QED BY <1>1, <1>2, <1>3, <1>4, <1>5, ConnsAre DEF RowTypes

-----------------------------------------------------------------------------
(* How a connection moves. *)

Unmoved(c) == /\ conn'[c] = conn[c] /\ out'[c] = out[c] /\ serving'[c] = serving[c]
              /\ got'[c] = got[c] /\ since'[c] = since[c]
Still(k) == /\ phase'[k] = phase[k] /\ link'[k] = link[k] /\ cursor'[k] = cursor[k]
            /\ shown'[k] = shown[k] /\ pending'[k] = pending[k]

(* What is on its way stays in turn when it stays, and what the client has *)
(* stays too.                                                              *)
Kept(c) ==
  /\ pending'[Client(c)] = pending[Client(c)]
  /\ \A i \in 1..Len(out[c]) : out'[c][i] = out[c][i]
  /\ \A e \in Nat : Base(c, e) => Base(c, e)'

TurnsKept(c) ==
  /\ \A i \in 1..Len(pending[Client(c)]), e \in Nat :
       pending[Client(c)][i] = e + 1 => WaitsInTurn(c, i, e)'
  /\ \A i \in 1..Len(out[c]), e \in Nat : out[c][i] = EventMsg(e + 1) => ComesInTurn(c, i, e)'

LEMMA TurnsStay ==
  ASSUME NEW c \in Conns, RowTypes(c), NoGap(c), Kept(c)
  PROVE  TurnsKept(c)
<1>1. ASSUME NEW i \in 1..Len(pending[Client(c)]), NEW e \in Nat, pending[Client(c)][i] = e + 1
      PROVE  WaitsInTurn(c, i, e)'
  <2>1. WaitsInTurn(c, i, e) BY <1>1 DEF NoGap
  <2>2. WaitsBefore(c, i, e) => WaitsBefore(c, i, e)' BY DEF WaitsBefore, Kept
  <2>q. QED BY <2>1, <2>2 DEF WaitsInTurn, Kept
<1>2. ASSUME NEW i \in 1..Len(out[c]), NEW e \in Nat, out[c][i] = EventMsg(e + 1)
      PROVE  ComesInTurn(c, i, e)'
  <2>1. ComesInTurn(c, i, e) BY <1>2 DEF NoGap
  <2>j. \A j \in 1..(i - 1) : j \in 1..Len(out[c]) BY DEF RowTypes
  <2>k. \A j \in 1..(i - 1) : out'[c][j] = out[c][j] BY <2>j DEF Kept
  <2>2. QueuedBefore(c, i, e) => QueuedBefore(c, i, e)' BY <2>k DEF QueuedBefore
  <2>3. Waits(c, e) => Waits(c, e)' BY DEF Waits, Kept
  <2>q. QED BY <2>1, <2>2, <2>3 DEF ComesInTurn, Kept
<1>q. QED BY <1>1, <1>2 DEF TurnsKept

(* Whatever of a connection the client does not see may change. *)
SameSeen(c) ==
  /\ out'[c] = out[c] /\ serving'[c] = serving[c] /\ got'[c] = got[c]
  /\ Still(Client(c)) /\ len' \in Nat /\ len <= len'

LEMMA SeenFits ==
  ASSUME NEW c \in Conns, RowTypes(c), Fits(c), SameSeen(c)
  PROVE  Fits(c)' /\ Carries(c)
<1>1. \A e \in Nat : Base(c, e) => Base(c, e)' BY DEF Base, SameSeen, Still, RowTypes
<1>2. \A e \in Nat : (Waits(c, e) => Waits(c, e)') /\ (Queued(c, e) => Queued(c, e)')
  BY DEF Waits, Queued, SameSeen, Still
<1>3. Talks(c)' BY DEF Fits, Talks, SameSeen, Still
<1>4. Reads(c)' BY DEF Fits, Reads, SameSeen, Still, RowTypes
<1>5. NoGap(c)'
  <2>1. TurnsKept(c) BY <1>1, TurnsStay DEF Fits, Kept, SameSeen, Still
  <2>q. QED BY <2>1 DEF TurnsKept, NoGap, SameSeen, Still
<1>q. QED BY <1>1, <1>2, <1>3, <1>4, <1>5 DEF Fits, Carries, Knows

(* A pump queues an event: the client knew the one before it. *)
IsToldOf(c, e) ==
  /\ out'[c] = Append(out[c], EventMsg(e)) /\ serving'[c] = serving[c] /\ got'[c] = got[c]
  /\ Still(Client(c)) /\ len' = len

LEMMA EventFits ==
  ASSUME NEW c \in Conns, RowTypes(c), Fits(c), NEW e \in 2..len, Knows(c, e - 1), IsToldOf(c, e)
  PROVE  Fits(c)' /\ Carries(c)
<1> DEFINE n == Len(out[c])
<1>0. EventMsg(e) \in Msgs /\ EventMsg(e).kind = "event" /\ EventMsg(e).at = e
  BY DEF EventMsg, Msgs, RowTypes
<1>1. /\ Len(out'[c]) = n + 1 /\ out'[c][n + 1] = EventMsg(e) /\ n \in Nat
      /\ \A i \in 1..n : out'[c][i] = out[c][i]
  BY <1>0, AppendIs DEF RowTypes, IsToldOf
<1>2. \A x \in Nat : Base(c, x) => Base(c, x)'
  BY <1>0, <1>1 DEF Base, IsToldOf, Still
<1>3. \A x \in Nat : Waits(c, x) => Waits(c, x)' BY DEF Waits, IsToldOf, Still
<1>4. \A x \in Nat : Queued(c, x) => Queued(c, x)' BY <1>1 DEF Queued
<1>5. Talks(c)' BY <1>0, <1>1 DEF Fits, Talks, IsToldOf, Still
<1>6. Reads(c)' BY <1>0, <1>1 DEF Fits, Reads, IsToldOf, Still
<1>7. NoGap(c)'
  <2>1. TurnsKept(c) BY <1>1, <1>2, TurnsStay DEF Fits, Kept, IsToldOf, Still
  <2>2. ASSUME NEW i, i = n + 1, NEW x \in Nat, x + 1 = e PROVE ComesInTurn(c, i, x)'
    <3>1. x = e - 1 BY <2>2 DEF RowTypes
    <3>2. Queued(c, x) => QueuedBefore(c, i, x)' BY <1>1, <2>2 DEF Queued, QueuedBefore
    <3>q. QED BY <1>2, <1>3, <3>1, <3>2 DEF Knows, ComesInTurn
  <2>3. ASSUME NEW i \in 1..Len(out'[c]), NEW x \in Nat, out'[c][i] = EventMsg(x + 1)
        PROVE  ComesInTurn(c, i, x)'
    <3>1. CASE i \in 1..n
      <4>1. out'[c][i] = out[c][i] BY <1>1, <3>1
      <4>q. QED BY <2>1, <2>3, <3>1, <4>1 DEF TurnsKept
    <3>2. CASE i = n + 1
      <4>1. x + 1 = e BY <1>1, <2>3, <3>2 DEF EventMsg
      <4>q. QED BY <2>2, <3>2, <4>1
    <3>q. QED BY <1>1, <3>1, <3>2
  <2>q. QED BY <2>1, <2>3 DEF NoGap, TurnsKept, IsToldOf, Still
<1>q. QED BY <1>2, <1>3, <1>4, <1>5, <1>6, <1>7 DEF Fits, Carries, Knows

(* The worker of a connection goes on with its call: it is asked to join,  *)
(* has joined, or has read the log.                                        *)
Serves(c) ==
  /\ out'[c] = out[c] /\ Still(Client(c)) /\ len' = len
  /\ \/ serving[c] = "subscribe" /\ serving'[c] = "join"
     \/ serving[c] = "join" /\ serving'[c] = "joined"
     \/ serving[c] = "replay" /\ serving'[c] = "answer" /\ got'[c] = len

LEMMA ServeFits ==
  ASSUME NEW c \in Conns, RowTypes(c), Fits(c), Shows(Client(c)), Serves(c)
  PROVE  Fits(c)' /\ Carries(c)
<1>1. \A x \in Nat : Base(c, x) => Base(c, x)' BY DEF Base, Serves, Still, RowTypes
<1>2. \A x \in Nat : (Waits(c, x) => Waits(c, x)') /\ (Queued(c, x) => Queued(c, x)')
  BY DEF Waits, Queued, Serves, Still
<1>3. Talks(c)' BY DEF Fits, Talks, Serves, Still
<1>4. Reads(c)' BY DEF Fits, Reads, Shows, Serves, Still, RowTypes
<1>5. NoGap(c)'
  <2>1. TurnsKept(c) BY <1>1, TurnsStay DEF Fits, Kept, Serves, Still
  <2>q. QED BY <2>1 DEF TurnsKept, NoGap, Serves, Still
<1>q. QED BY <1>1, <1>2, <1>3, <1>4, <1>5 DEF Fits, Carries, Knows

(* The worker is done with its call, and its reply is queued or lost. *)
AnswerIs(c, m) ==
  \/ m = ErrorMsg /\ serving[c] \in {"subscribe", "replay"}
  \/ m = JoinedMsg /\ serving[c] = "joined"
  \/ m = ReplayMsg(got[c]) /\ serving[c] = "answer"

Answers(c, m) ==
  /\ AnswerIs(c, m) /\ serving'[c] = "none" /\ Still(Client(c)) /\ len' = len
  /\ out'[c] = Append(out[c], m) \/ out'[c] = out[c]

LEMMA AnswerFits ==
  ASSUME NEW c \in Conns, RowTypes(c), Fits(c), NEW m \in Msgs, Answers(c, m)
  PROVE  Fits(c)' /\ Carries(c)
<1> DEFINE n == Len(out[c])
<1>0. m.kind \in {"error", "joined", "replay"} /\ (m.kind = "replay" => serving[c] = "answer" /\ m.at = got[c])
      /\ (m.kind = "joined" => serving[c] = "joined") /\ serving[c] # "none"
  BY DEF Answers, AnswerIs, ErrorMsg, JoinedMsg, ReplayMsg
<1>1. \A i \in 1..n : out[c][i].kind = "event" BY <1>0 DEF Fits, Talks
<1>2. /\ n \in Nat /\ Len(out'[c]) \in {n, n + 1} /\ \A i \in 1..n : out'[c][i] = out[c][i]
      /\ Len(out'[c]) = n + 1 => out'[c][n + 1] = m
  BY AppendIs DEF RowTypes, Answers
<1>3. \A x \in Nat : Base(c, x) => Base(c, x)'
  BY <1>0, <1>1, <1>2 DEF Base, Answers, Still
<1>4. \A x \in Nat : Waits(c, x) => Waits(c, x)' BY DEF Waits, Answers, Still
<1>5. \A x \in Nat : Queued(c, x) => Queued(c, x)' BY <1>2 DEF Queued
<1>6. Talks(c)'
  <2>1. \A i \in 1..Len(out'[c]) : out'[c][i].kind # "event" => i = n + 1 /\ out'[c][i] = m
    BY <1>1, <1>2
  <2>2. \A i \in 1..Len(out'[c]) : /\ out'[c][i].kind = "joined" => phase'[Client(c)] = "joining"
                                   /\ out'[c][i].kind = "replay" => phase'[Client(c)] = "replaying"
    BY <1>0, <2>1 DEF Fits, Talks, Answers, Still
  <2>q. QED BY <2>1, <2>2 DEF Talks, Answers
<1>7. Reads(c)' BY <1>0, <1>1, <1>2 DEF Fits, Reads, Answers, Still
<1>8. NoGap(c)'
  <2>1. TurnsKept(c) BY <1>2, <1>3, TurnsStay DEF Fits, Kept, Answers, Still
  <2>2. ASSUME NEW i \in 1..Len(out'[c]), NEW x \in Nat, out'[c][i] = EventMsg(x + 1)
        PROVE  ComesInTurn(c, i, x)'
    <3>1. out'[c][i].kind = "event" BY <2>2 DEF EventMsg
    <3>2. i \in 1..n BY <1>0, <1>2, <3>1
    <3>3. out'[c][i] = out[c][i] BY <1>2, <3>2
    <3>q. QED BY <2>1, <2>2, <3>2, <3>3 DEF TurnsKept
  <2>q. QED BY <2>1, <2>2 DEF NoGap, TurnsKept, Answers, Still
<1>q. QED BY <1>3, <1>4, <1>5, <1>6, <1>7, <1>8 DEF Fits, Carries, Knows

(* A connection that is made has nothing on its way. *)
IsNew(c) ==
  /\ out'[c] = <<>> /\ serving'[c] = "subscribe" /\ phase'[Client(c)] = "joining"
  /\ pending'[Client(c)] = <<>>

LEMMA NewFits == ASSUME NEW c \in Conns, IsNew(c) PROVE Fits(c)'
<1>1. Len(out'[c]) = 0 /\ Len(pending'[Client(c)]) = 0 BY EmptyIs DEF IsNew
<1>q. QED BY <1>1 DEF IsNew, Fits, Talks, Reads, NoGap

-----------------------------------------------------------------------------
(* What a client makes of what arrives. *)

LEMMA LeastIs ==
  ASSUME NEW T \in SUBSET Nat, T # {}
  PROVE  \E x \in T : \A y \in T : x <= y
<1>1. PICK x \in T : \A y \in T : ~(<<y, x>> \in OpToRel(<, Nat))
  BY WFMin, NatLessThanWellFounded, Zenon
<1>2. ASSUME NEW y \in T, y < x PROVE FALSE
  <2>1. <<y, x>> \in OpToRel(<, Nat) BY <1>2, Zenon DEF OpToRel
  <2>q. QED BY <1>1, <2>1, Zenon
<1>3. x \in Nat /\ \A y \in T : y \in Nat /\ ~(y < x) BY <1>2, Zenon
<1> HIDE <1>1
<1>q. QED BY <1>3

LEMMA LastIs == ASSUME NEW n \in Nat PROVE Last(1..n) = n
<1>1. CASE n = 0 BY <1>1 DEF Last
<1>2. CASE n # 0
  <2>1. n \in 1..n /\ \A x \in 1..n : x <= n BY <1>2
  <2>2. 1..n # {} BY <2>1
  <2> DEFINE l == CHOOSE e \in 1..n : \A x \in 1..n : x <= e
  <2>3. l \in 1..n /\ \A x \in 1..n : x <= l BY <2>1
  <2>4. l = n BY <2>1, <2>3
  <2>q. QED BY <2>2, <2>4 DEF Last
<1>q. QED BY <1>1, <1>2

(* Events in turn after the first n: whoever comes has the one before it   *)
(* in front.                                                               *)
InTurn(q, n) ==
  \A i \in 1..Len(q), e \in Nat : q[i] = e + 1 => e <= n \/ \E j \in 1..(i - 1) : q[j] >= e

(* A client that shows the first n events and takes more in turn shows the *)
(* log up to the last of them.                                             *)
IsShown(k, q, n, m) ==
  /\ m \in n..len /\ shown'[k] = 1..m /\ \A i \in 1..Len(q) : q[i] <= m
  /\ cursor'[k] = IF q = <<>> THEN cursor[k] ELSE q[Len(q)]
  /\ \A x \in Clients \ {k} : shown'[x] = shown[x] /\ cursor'[x] = cursor[x]

LEMMA ShowIs ==
  ASSUME NEW k \in Clients, NEW q \in Seq(Nat), NEW n \in Nat, n <= len, len \in Nat,
         shown \in [Clients -> SUBSET Nat], cursor \in [Clients -> Nat],
         shown[k] = 1..n, \A i \in 1..Len(q) : q[i] \in 1..len, InTurn(q, n), Show(k, q)
  PROVE  \E m \in Nat : IsShown(k, q, n, m)
<1>0. Len(q) \in Nat /\ DOMAIN q = 1..Len(q) /\ \A i \in 1..Len(q) : q[i] \in Nat
  BY LenProperties, ElementOfSeq
<1> DEFINE s == {q[i] : i \in {i \in 1..Len(q) : /\ q[i] > n
                                              /\ \A j \in 1..Len(q) : j < i => q[j] < q[i]}}
           T == {x \in Nat : n <= x /\ \A i \in 1..Len(q) : q[i] <= x}
<1>1. /\ shown' = [shown EXCEPT ![k] = @ \cup s]
      /\ cursor' = [cursor EXCEPT ![k] = IF q = <<>> THEN @ ELSE q[Len(q)]]
  BY <1>0, LastIs DEF Show
<1>2. len \in T BY <1>0
<1>3. PICK m \in T : \A y \in T : m <= y BY <1>2, LeastIs
<1>4. m \in n..len /\ m \in Nat BY <1>2, <1>3
<1>5. m = n \/ \E i \in 1..Len(q) : q[i] = m
  <2> SUFFICES ASSUME m # n, \A i \in 1..Len(q) : q[i] # m PROVE FALSE OBVIOUS
  <2>1. m - 1 \in T BY <1>0, <1>3, <1>4
  <2>q. QED BY <1>3, <1>4, <2>1
<1>6. ASSUME NEW y \in 1..m, y > n PROVE y \in s
  <2> DEFINE I == {i \in 1..Len(q) : q[i] >= y}
  <2>1. I # {}
    <3>1. m # n /\ m >= y BY <1>4, <1>6
    <3>2. PICK i \in 1..Len(q) : q[i] = m BY <1>5, <3>1
    <3>3. i \in I BY <3>1, <3>2
    <3>q. QED BY <3>3
  <2>2. I \in SUBSET Nat BY <1>0
  <2>3. PICK i \in I : \A j \in I : i <= j BY <2>1, <2>2, LeastIs
  <2>4. i \in 1..Len(q) /\ q[i] \in Nat /\ q[i] >= y /\ \A j \in 1..Len(q) : j < i => q[j] < y
    BY <1>0, <2>3
  <2>5. q[i] = y
    <3> SUFFICES ASSUME q[i] > y PROVE FALSE BY <2>4
    <3>0. q[i] - 1 \in Nat /\ q[i] = (q[i] - 1) + 1 /\ q[i] - 1 >= y BY <1>4, <1>6, <2>4
    <3>1. PICK e \in Nat : q[i] = e + 1 /\ e >= y BY <3>0
    <3>2. ~(e <= n) BY <1>6, <3>1
    <3>3. PICK j \in 1..(i - 1) : q[j] >= e BY <2>4, <3>1, <3>2 DEF InTurn
    <3>4. j \in 1..Len(q) /\ j < i /\ q[j] \in Nat BY <1>0, <2>4, <3>3
    <3>q. QED BY <2>4, <3>1, <3>3, <3>4
  <2>q. QED BY <1>6, <2>4, <2>5
<1>7. s \subseteq 1..m BY <1>0, <1>3, <1>4
<1> HIDE DEF s
<1>8. (1..n) \cup s = 1..m
  <2>1. \A x \in 1..m : x \in 1..n \/ x > n BY <1>4
  <2>2. \A x \in 1..n : x \in 1..m BY <1>4
  <2>q. QED BY <1>6, <1>7, <2>1, <2>2
<1>9. shown'[k] = 1..m BY <1>1, <1>8
<1>10. \A i \in 1..Len(q) : q[i] <= m BY <1>3
<1> HIDE DEF T
<1>11. /\ cursor'[k] = IF q = <<>> THEN cursor[k] ELSE q[Len(q)]
       /\ \A x \in Clients \ {k} : shown'[x] = shown[x] /\ cursor'[x] = cursor[x]
  BY <1>1
<1>q. QED BY <1>4, <1>9, <1>10, <1>11 DEF IsShown

(* The first message leaves the queue. *)
TakesFirst(c) ==
  /\ out[c] # <<>> /\ out'[c] = Tail(out[c]) /\ got'[c] = got[c] /\ len' = len
LEMMA FirstIs ==
  ASSUME NEW c \in Conns, RowTypes(c), TakesFirst(c)
  PROVE  /\ Len(out'[c]) = Len(out[c]) - 1 /\ 1 \in 1..Len(out[c]) /\ Head(out[c]) = out[c][1]
         /\ \A i \in 1..Len(out'[c]) : i + 1 \in 1..Len(out[c]) /\ out'[c][i] = out[c][i + 1]
BY TailIs DEF RowTypes, TakesFirst

(* What was behind the first message stays in turn, once the client has    *)
(* what the first message was, or keeps it.                                *)
LEMMA RestInTurn ==
  ASSUME NEW c \in Conns, RowTypes(c), RowTypes(c)', NoGap(c), TakesFirst(c),
         \A e \in Nat \ {0} : Base(c, e) => Base(c, e)',
         \A e \in Nat \ {0} : Waits(c, e) => Base(c, e)' \/ Waits(c, e)',
         \A e \in Nat \ {0} : out[c][1].kind = "event" /\ out[c][1].at >= e
                              => Base(c, e)' \/ Waits(c, e)',
         Reads(c)
  PROVE  \A i \in 1..Len(out'[c]), e \in Nat : out'[c][i] = EventMsg(e + 1) => ComesInTurn(c, i, e)'
<1> SUFFICES ASSUME NEW i \in 1..Len(out'[c]), NEW e \in Nat, out'[c][i] = EventMsg(e + 1)
             PROVE  ComesInTurn(c, i, e)'
  OBVIOUS
<1>1. /\ i + 1 \in 1..Len(out[c]) /\ out[c][i + 1] = EventMsg(e + 1) /\ i \in Nat \ {0}
      /\ \A j \in 1..Len(out'[c]) : out'[c][j] = out[c][j + 1]
  BY FirstIs
<1>2. e # 0
  <2>1. out[c][i + 1].kind = "event" /\ out[c][i + 1].at = e + 1 BY <1>1 DEF EventMsg
  <2>q. QED BY <1>1, <2>1 DEF Reads
<1>3. ComesInTurn(c, i + 1, e) BY <1>1 DEF NoGap
<1>4. QueuedBefore(c, i + 1, e) => Base(c, e)' \/ Waits(c, e)' \/ QueuedBefore(c, i, e)'
  <2> SUFFICES ASSUME NEW j \in 1..((i + 1) - 1), out[c][j].kind = "event", out[c][j].at >= e
               PROVE  Base(c, e)' \/ Waits(c, e)' \/ QueuedBefore(c, i, e)'
    BY DEF QueuedBefore
  <2>1. CASE j = 1 BY <1>2, <2>1
  <2>2. CASE j # 1
    <3>1. j - 1 \in 1..(i - 1) /\ j - 1 \in 1..Len(out'[c]) /\ (j - 1) + 1 = j
      BY <1>1, <2>2, FirstIs DEF RowTypes
    <3>2. out'[c][j - 1] = out[c][j] BY <1>1, <3>1
    <3>q. QED BY <3>1, <3>2 DEF QueuedBefore
  <2>q. QED BY <2>1, <2>2
<1>q. QED BY <1>2, <1>3, <1>4 DEF ComesInTurn

LEMMA RestTalks ==
  ASSUME NEW c \in Conns, RowTypes(c), Talks(c), TakesFirst(c),
         serving'[c] = serving[c], phase'[Client(c)] = phase[Client(c)]
  PROVE  Talks(c)'
<1>1. /\ \A i \in 1..Len(out'[c]) : i + 1 \in 1..Len(out[c]) /\ out'[c][i] = out[c][i + 1]
      /\ Len(out[c]) \in Nat /\ Len(out'[c]) = Len(out[c]) - 1
  BY FirstIs DEF RowTypes
<1>t. \A i \in 1..Len(out[c]) : /\ out[c][i].kind = "joined" => phase[Client(c)] = "joining"
                                /\ out[c][i].kind = "replay" => phase[Client(c)] = "replaying"
                                /\ serving[c] # "none" => out[c][i].kind = "event"
  BY DEF Talks
<1>2. \A i \in 1..Len(out'[c]) : /\ out'[c][i].kind = "joined" => phase[Client(c)] = "joining"
                                 /\ out'[c][i].kind = "replay" => phase[Client(c)] = "replaying"
                                 /\ serving[c] # "none" => out'[c][i].kind = "event"
  <2> SUFFICES ASSUME NEW i \in 1..Len(out'[c])
               PROVE  /\ out'[c][i].kind = "joined" => phase[Client(c)] = "joining"
                      /\ out'[c][i].kind = "replay" => phase[Client(c)] = "replaying"
                      /\ serving[c] # "none" => out'[c][i].kind = "event"
    OBVIOUS
  <2>1. i + 1 \in 1..Len(out[c]) /\ out'[c][i] = out[c][i + 1] BY <1>1
  <2>q. QED BY <1>t, <2>1
<1>3. \A i, j \in 1..Len(out'[c]) : out'[c][i].kind # "event" /\ out'[c][j].kind # "event" => i = j
  <2> SUFFICES ASSUME NEW i \in 1..Len(out'[c]), NEW j \in 1..Len(out'[c]),
                      out'[c][i].kind # "event", out'[c][j].kind # "event"
               PROVE  i = j
    OBVIOUS
  <2>1. /\ i + 1 \in 1..Len(out[c]) /\ out[c][i + 1].kind # "event"
        /\ j + 1 \in 1..Len(out[c]) /\ out[c][j + 1].kind # "event"
    BY <1>1
  <2>2. i + 1 = j + 1 BY <2>1 DEF Talks
  <2>q. QED BY <1>1, <2>2
<1>q. QED BY <1>2, <1>3 DEF Talks

LEMMA RestCarries ==
  ASSUME NEW c \in Conns, RowTypes(c), TakesFirst(c),
         \A e \in Nat \ {0} : Base(c, e) => Base(c, e)',
         \A e \in Nat \ {0} : Waits(c, e) => Base(c, e)' \/ Waits(c, e)',
         \A e \in Nat \ {0} : out[c][1].kind = "event" /\ out[c][1].at >= e
                              => Base(c, e)' \/ Waits(c, e)'
  PROVE  Carries(c)
<1>1. ASSUME NEW e \in Nat \ {0}, Queued(c, e) PROVE Base(c, e)' \/ Waits(c, e)' \/ Queued(c, e)'
  <2>1. PICK j \in 1..Len(out[c]) : out[c][j].kind = "event" /\ out[c][j].at >= e BY <1>1 DEF Queued
  <2>2. CASE j = 1 BY <1>1, <2>1, <2>2
  <2>3. CASE j # 1
    <3>1. j - 1 \in 1..Len(out'[c]) /\ (j - 1) + 1 = j BY <2>3, FirstIs DEF RowTypes
    <3>2. out'[c][j - 1] = out[c][j] BY <3>1, FirstIs
    <3>q. QED BY <2>1, <3>1, <3>2 DEF Queued
  <2>q. QED BY <2>2, <2>3
<1>2. ASSUME NEW e \in Nat \ {0}, Knows(c, e) PROVE Knows(c, e)'
  BY <1>1, <1>2 DEF Knows
<1>q. QED BY <1>2 DEF Carries

(* The reply to subscribe. *)
Joins(c) ==
  /\ TakesFirst(c) /\ Head(out[c]).kind = "joined"
  /\ serving'[c] = "replay" /\ phase'[Client(c)] = "replaying"
  /\ pending'[Client(c)] = pending[Client(c)]
  /\ shown'[Client(c)] = shown[Client(c)] /\ cursor'[Client(c)] = cursor[Client(c)]

LEMMA JoinedFits ==
  ASSUME NEW c \in Conns, RowTypes(c), RowTypes(c)', Fits(c), Shows(Client(c)), Joins(c)
  PROVE  Fits(c)' /\ Carries(c) /\ Shows(Client(c))'
<1>0. TakesFirst(c) /\ out[c][1].kind = "joined" BY FirstIs DEF Joins
<1>1. \A i \in 1..Len(out'[c]) : i + 1 \in 1..Len(out[c]) /\ out'[c][i] = out[c][i + 1]
  BY <1>0, FirstIs
<1>2. \A i \in 1..Len(out[c]) : i # 1 => out[c][i].kind = "event"
  BY <1>0, FirstIs DEF Fits, Talks
<1>3. \A i \in 1..Len(out'[c]) : out'[c][i].kind = "event" BY <1>1, <1>2
<1>4. phase[Client(c)] = "joining" BY <1>0, FirstIs DEF Fits, Talks
<1>5. Talks(c)' BY <1>3 DEF Talks, Joins
<1>6. Reads(c)' BY <1>0, <1>1, <1>3 DEF Fits, Reads, Joins, TakesFirst
<1>7. \A e \in Nat : Base(c, e) => Base(c, e)' BY <1>0, <1>3 DEF Base, Joins, TakesFirst
<1>8. \A e \in Nat : Waits(c, e) => Waits(c, e)' BY DEF Waits, Joins
<1>9. \A i \in 1..Len(out'[c]), e \in Nat : out'[c][i] = EventMsg(e + 1) => ComesInTurn(c, i, e)'
  BY <1>0, <1>7, <1>8, RestInTurn DEF Fits
<1>10. ASSUME NEW i \in 1..Len(pending'[Client(c)]), NEW e \in Nat, pending'[Client(c)][i] = e + 1
       PROVE  WaitsInTurn(c, i, e)'
  <2>1. WaitsInTurn(c, i, e) BY <1>10 DEF Fits, NoGap, Joins
  <2>2. WaitsBefore(c, i, e) => WaitsBefore(c, i, e)' BY DEF WaitsBefore, Joins
  <2>q. QED BY <1>7, <2>1, <2>2 DEF WaitsInTurn
<1>11. NoGap(c)' BY <1>9, <1>10 DEF NoGap
<1>12. Carries(c) BY <1>0, <1>7, <1>8, RestCarries
<1>13. Shows(Client(c))' BY <1>0, <1>4 DEF Shows, Joins, TakesFirst
<1>q. QED BY <1>5, <1>6, <1>11, <1>12, <1>13 DEF Fits

(* An event that comes while the client catches up. *)
Keeps(c) ==
  /\ TakesFirst(c) /\ Head(out[c]).kind = "event"
  /\ serving'[c] = serving[c] /\ phase'[Client(c)] = phase[Client(c)]
  /\ phase[Client(c)] \in {"joining", "replaying"}
  /\ pending'[Client(c)] = Append(pending[Client(c)], Head(out[c]).at)
  /\ shown'[Client(c)] = shown[Client(c)] /\ cursor'[Client(c)] = cursor[Client(c)]

LEMMA KeptFits ==
  ASSUME NEW c \in Conns, RowTypes(c), RowTypes(c)', Fits(c), Shows(Client(c)), Keeps(c)
  PROVE  Fits(c)' /\ Carries(c) /\ Shows(Client(c))'
<1> DEFINE p == pending[Client(c)]  n == Len(p)
<1>0. TakesFirst(c) /\ out[c][1].kind = "event" /\ 1 \in 1..Len(out[c]) /\ Head(out[c]) = out[c][1]
  BY FirstIs DEF Keeps
<1>e. out[c][1].at \in 2..len /\ out[c][1].at \in Nat BY <1>0 DEF Fits, Reads, RowTypes
<1>1. /\ \A i \in 1..Len(out'[c]) : i + 1 \in 1..Len(out[c]) /\ out'[c][i] = out[c][i + 1]
      /\ Len(out[c]) \in Nat /\ Len(out'[c]) = Len(out[c]) - 1
  BY <1>0, FirstIs DEF RowTypes
<1>2. /\ n \in Nat /\ Len(pending'[Client(c)]) = n + 1 /\ pending'[Client(c)][n + 1] = out[c][1].at
      /\ \A i \in 1..n : pending'[Client(c)][i] = pending[Client(c)][i]
  <2>1. pending[Client(c)] \in Seq(Nat) /\ pending'[Client(c)] = Append(pending[Client(c)], out[c][1].at)
    BY <1>0 DEF RowTypes, Keeps
  <2>q. QED BY <1>e, <2>1, AppendIs
<1>5. Talks(c)' BY <1>0, RestTalks DEF Fits, Keeps
<1>6. Reads(c)' BY <1>0, <1>1 DEF Fits, Reads, Keeps, TakesFirst
<1>7. \A e \in Nat : Base(c, e) => Base(c, e)' BY <1>0, <1>1 DEF Base, Keeps, TakesFirst
<1>8. \A e \in Nat : Waits(c, e) => Waits(c, e)' BY <1>2 DEF Waits
<1>9. \A e \in Nat : out[c][1].at >= e => Waits(c, e)'
  <2>1. n + 1 \in 1..Len(pending'[Client(c)]) BY <1>2
  <2>q. QED BY <1>2, <2>1 DEF Waits
<1>10. \A i \in 1..Len(out'[c]), e \in Nat : out'[c][i] = EventMsg(e + 1) => ComesInTurn(c, i, e)'
  BY <1>0, <1>7, <1>8, <1>9, RestInTurn DEF Fits
<1>11. ASSUME NEW i \in 1..Len(pending'[Client(c)]), NEW e \in Nat, pending'[Client(c)][i] = e + 1
       PROVE  WaitsInTurn(c, i, e)'
  <2>1. CASE i \in 1..n
    <3>1. WaitsInTurn(c, i, e) BY <1>2, <1>11, <2>1 DEF Fits, NoGap
    <3>2. \A j \in 1..(i - 1) : j \in 1..n BY <1>2, <2>1
    <3>3. WaitsBefore(c, i, e) => WaitsBefore(c, i, e)' BY <1>2, <3>2 DEF WaitsBefore
    <3>q. QED BY <1>7, <3>1, <3>3 DEF WaitsInTurn
  <2>2. CASE i = n + 1
    <3>1. out[c][1].at = e + 1 BY <1>2, <1>11, <2>2
    <3>2. out[c][1] = EventMsg(e + 1) BY <1>0, <3>1 DEF EventMsg, Msgs, RowTypes
    <3>3. ComesInTurn(c, 1, e) BY <1>0, <3>2 DEF Fits, NoGap
    <3>4. ~QueuedBefore(c, 1, e) BY DEF QueuedBefore
    <3>5. Waits(c, e) => WaitsBefore(c, i, e)' BY <1>2, <2>2 DEF Waits, WaitsBefore
    <3>q. QED BY <1>7, <3>3, <3>4, <3>5 DEF ComesInTurn, WaitsInTurn
  <2>q. QED BY <1>2, <2>1, <2>2
<1>12. NoGap(c)' BY <1>10, <1>11 DEF NoGap
<1>13. Carries(c) BY <1>0, <1>7, <1>8, <1>9, RestCarries
<1>14. \A i \in 1..Len(pending'[Client(c)]) : pending'[Client(c)][i] \in 2..len
  <2>1. \A i \in 1..n : pending[Client(c)][i] \in 2..len BY DEF Shows
  <2>2. \A i \in 1..Len(pending'[Client(c)]) : i \in 1..n \/ i = n + 1 BY <1>2
  <2>q. QED BY <1>2, <1>e, <2>1, <2>2
<1>15. Shows(Client(c))' BY <1>0, <1>14 DEF Shows, Keeps, TakesFirst
<1>q. QED BY <1>5, <1>6, <1>12, <1>13, <1>15 DEF Fits

(* An event that comes while the client streams, and is shown.             *)
Takes(c, m) ==
  /\ TakesFirst(c) /\ Head(out[c]).kind = "event" /\ Head(out[c]).at <= m
  /\ serving'[c] = serving[c] /\ phase'[Client(c)] = phase[Client(c)]
  /\ phase[Client(c)] = "streaming" /\ pending'[Client(c)] = pending[Client(c)]
  /\ shown[Client(c)] \subseteq 1..m /\ shown'[Client(c)] = 1..m
  /\ cursor'[Client(c)] \in 1..m

LEMMA TakenFits ==
  ASSUME NEW c \in Conns, RowTypes(c), RowTypes(c)', Fits(c), Shows(Client(c)),
         NEW m \in 1..len, Takes(c, m)
  PROVE  Fits(c)' /\ Carries(c) /\ Shows(Client(c))'
<1>0. TakesFirst(c) /\ out[c][1].kind = "event" /\ 1 \in 1..Len(out[c]) /\ out[c][1].at <= m
  BY FirstIs DEF Takes
<1>e. out[c][1].at \in 2..len BY <1>0 DEF Fits, Reads
<1>1. \A i \in 1..Len(out'[c]) : i + 1 \in 1..Len(out[c]) /\ out'[c][i] = out[c][i + 1]
  BY <1>0, FirstIs
<1>2. pending[Client(c)] = <<>> /\ pending'[Client(c)] = <<>> /\ Len(pending'[Client(c)]) = 0
      /\ Len(pending[Client(c)]) = 0
  BY EmptyIs DEF Shows, Takes
<1>3. /\ \A i \in 1..Len(out[c]) : out[c][i].kind # "replay"
      /\ serving[c] # "answer"
  BY DEF Fits, Talks, Takes
<1>4. \A i \in 1..Len(out'[c]) : out'[c][i].kind # "replay" BY <1>1, <1>3
<1>5. Talks(c)' BY <1>0, RestTalks DEF Fits, Takes
<1>6. Reads(c)'
  <2>1. \A i \in 1..Len(out'[c]) : out'[c][i].kind = "event" => out'[c][i].at \in 2..len
    <3> SUFFICES ASSUME NEW i \in 1..Len(out'[c]), out'[c][i].kind = "event"
                 PROVE  out'[c][i].at \in 2..len
      OBVIOUS
    <3>1. i + 1 \in 1..Len(out[c]) /\ out'[c][i] = out[c][i + 1] BY <1>1
    <3>q. QED BY <3>1 DEF Fits, Reads
  <2>q. QED BY <1>0, <1>3, <1>4, <2>1 DEF Reads, Takes, TakesFirst
<1>n. len \in Nat /\ len' = len /\ \A e \in 1..m : e \in 1..len BY <1>0 DEF RowTypes, TakesFirst
<1>7. \A e \in 1..m : Base(c, e)' BY <1>n, <1>3, <1>4 DEF Base, Takes
<1>8. \A e \in Nat : Base(c, e) => Base(c, e)'
  <2>1. \A e \in Nat : Base(c, e) => e \in 1..m BY DEF Base, Takes
  <2>q. QED BY <1>7, <2>1
<1>9. \A e \in Nat : ~Waits(c, e) BY <1>2 DEF Waits
<1>10. \A e \in Nat \ {0} : out[c][1].at >= e => Base(c, e)' BY <1>0, <1>e, <1>7
<1>11. \A i \in 1..Len(out'[c]), e \in Nat : out'[c][i] = EventMsg(e + 1) => ComesInTurn(c, i, e)'
  BY <1>0, <1>8, <1>9, <1>10, RestInTurn DEF Fits
<1>12. NoGap(c)' BY <1>2, <1>11 DEF NoGap
<1>13. Carries(c) BY <1>0, <1>8, <1>9, <1>10, RestCarries
<1>14. Shows(Client(c))'
  <2>1. m \in 0..len' /\ 1..m # {} BY <1>0 DEF TakesFirst
  <2>q. QED BY <1>2, <2>1 DEF Shows, Takes
<1>q. QED BY <1>5, <1>6, <1>12, <1>13, <1>14 DEF Fits

(* The replay, and with it what had come.                                  *)
Catches(c, m) ==
  /\ TakesFirst(c) /\ Head(out[c]).kind = "replay" /\ Head(out[c]).at <= m
  /\ serving'[c] = serving[c] /\ phase'[Client(c)] = "streaming" /\ pending'[Client(c)] = <<>>
  /\ shown[Client(c)] \subseteq 1..m /\ shown'[Client(c)] = 1..m
  /\ \A i \in 1..Len(pending[Client(c)]) : pending[Client(c)][i] <= m
  /\ cursor'[Client(c)] \in 0..m

LEMMA CaughtFits ==
  ASSUME NEW c \in Conns, RowTypes(c), RowTypes(c)', Fits(c), Shows(Client(c)),
         NEW m \in 1..len, Catches(c, m)
  PROVE  Fits(c)' /\ Carries(c) /\ Shows(Client(c))'
<1>0. TakesFirst(c) /\ out[c][1].kind = "replay" /\ 1 \in 1..Len(out[c]) /\ out[c][1].at <= m
  BY FirstIs DEF Catches
<1>e. out[c][1].at \in 1..len BY <1>0 DEF Fits, Reads
<1>1. \A i \in 1..Len(out'[c]) : i + 1 \in 1..Len(out[c]) /\ out'[c][i] = out[c][i + 1]
  BY <1>0, FirstIs
<1>2. pending'[Client(c)] = <<>> /\ Len(pending'[Client(c)]) = 0
  BY EmptyIs DEF Catches
<1>3. /\ \A i \in 1..Len(out[c]) : i # 1 => out[c][i].kind = "event"
      /\ serving[c] = "none"
  BY <1>0 DEF Fits, Talks
<1>4. \A i \in 1..Len(out'[c]) : out'[c][i].kind = "event"
  <2> SUFFICES ASSUME NEW i \in 1..Len(out'[c]) PROVE out'[c][i].kind = "event" OBVIOUS
  <2>1. i + 1 \in 1..Len(out[c]) /\ out'[c][i] = out[c][i + 1] /\ i + 1 # 1 BY <1>1
  <2>q. QED BY <1>3, <2>1
<1>5. Talks(c)' BY <1>3, <1>4 DEF Talks, Catches
<1>6. Reads(c)'
  <2>1. \A i \in 1..Len(out'[c]) : out'[c][i].kind = "event" => out'[c][i].at \in 2..len
    <3> SUFFICES ASSUME NEW i \in 1..Len(out'[c]), out'[c][i].kind = "event"
                 PROVE  out'[c][i].at \in 2..len
      OBVIOUS
    <3>1. i + 1 \in 1..Len(out[c]) /\ out'[c][i] = out[c][i + 1] BY <1>1
    <3>q. QED BY <3>1 DEF Fits, Reads
  <2>q. QED BY <1>0, <1>3, <1>4, <2>1 DEF Reads, Catches, TakesFirst
<1>n. len \in Nat /\ len' = len /\ \A e \in 1..m : e \in 1..len BY <1>0 DEF RowTypes, TakesFirst
<1>7. \A e \in 1..m : Base(c, e)' BY <1>n, <1>3, <1>4 DEF Base, Catches
<1>8. \A e \in Nat : Base(c, e) => Base(c, e)'
  <2>1. \A e \in Nat : Base(c, e) => e \in 1..m BY <1>0, <1>e DEF Base
  <2>q. QED BY <1>7, <2>1
<1>9. \A e \in Nat \ {0} : Waits(c, e) => Base(c, e)'
  <2>1. \A e \in Nat \ {0} : Waits(c, e) => e \in 1..m BY DEF Waits, Catches, RowTypes
  <2>q. QED BY <1>7, <2>1
<1>11. \A i \in 1..Len(out'[c]), e \in Nat : out'[c][i] = EventMsg(e + 1) => ComesInTurn(c, i, e)'
  BY <1>0, <1>8, <1>9, RestInTurn DEF Fits
<1>12. NoGap(c)' BY <1>2, <1>11 DEF NoGap
<1>13. Carries(c) BY <1>0, <1>8, <1>9, RestCarries
<1>14. Shows(Client(c))'
  <2>1. m \in 0..len' /\ 1..m # {} BY <1>0 DEF TakesFirst
  <2>2. cursor'[Client(c)] \in (1..m) \cup {0} BY DEF Catches
  <2>q. QED BY <1>2, <2>1, <2>2 DEF Shows, Catches
<1>q. QED BY <1>5, <1>6, <1>12, <1>13, <1>14 DEF Fits

(* What EventArrives and ReplayArrives do is that.                         *)
Others(k) == \A x \in Clients \ {k} : shown'[x] = shown[x] /\ cursor'[x] = cursor[x]

LEMMA EventShown ==
  ASSUME Types, NEW c \in Conns, Fits(c), Shows(Client(c)), TakesFirst(c),
         Head(out[c]).kind = "event", phase[Client(c)] = "streaming",
         Show(Client(c), <<Head(out[c]).at>>)
  PROVE  /\ Others(Client(c))
         /\ \E m \in 1..len : /\ Head(out[c]).at <= m /\ shown[Client(c)] \subseteq 1..m
                              /\ shown'[Client(c)] = 1..m /\ cursor'[Client(c)] \in 1..m
<1> DEFINE k == Client(c)  e == Head(out[c]).at  q == <<e>>
<1>0. RowTypes(c) /\ k \in Clients /\ shown \in [Clients -> SUBSET Nat] /\ cursor \in [Clients -> Nat]
  BY RowsAre, ConnsAre DEF Types, ClientTypes
<1>1. out[c][1].kind = "event" /\ 1 \in 1..Len(out[c]) /\ out[c][1].at = e /\ out[c][1] \in Msgs
  BY <1>0, FirstIs DEF RowTypes
<1>2. e \in 2..len /\ len \in Nat BY <1>0, <1>1 DEF Fits, Reads, RowTypes
<1>3. PICK n \in 0..len : shown[k] = 1..n BY DEF Shows
<1>4. pending[k] = <<>> /\ Len(pending[k]) = 0 BY EmptyIs DEF Shows
<1>5. q \in Seq(Nat) /\ Len(q) = 1 /\ q[1] = e /\ q # <<>> BY <1>2
<1>6. InTurn(q, n)
  <2> SUFFICES ASSUME NEW x \in Nat, e = x + 1 PROVE x <= n BY <1>5 DEF InTurn
  <2>1. out[c][1] = EventMsg(x + 1) BY <1>1 DEF EventMsg, Msgs
  <2>2. ComesInTurn(c, 1, x) BY <1>1, <2>1 DEF Fits, NoGap
  <2>3. ~Waits(c, x) /\ ~QueuedBefore(c, 1, x) BY <1>4 DEF Waits, QueuedBefore
  <2>4. x \in shown[k] BY <2>2, <2>3 DEF ComesInTurn, Base
  <2>q. QED BY <1>3, <2>4
<1>7. \A i \in 1..Len(q) : q[i] \in 1..len BY <1>2, <1>5
<1> HIDE DEF q
<1>s. Show(k, q) BY DEF q
<1>8. PICK m \in Nat : IsShown(k, q, n, m)
  BY <1>0, <1>2, <1>3, <1>5, <1>6, <1>7, <1>s, ShowIs
<1>9. /\ m \in n..len /\ shown'[k] = 1..m /\ e <= m /\ cursor'[k] = e
      /\ \A x \in Clients \ {k} : shown'[x] = shown[x] /\ cursor'[x] = cursor[x]
  BY <1>5, <1>8 DEF IsShown
<1>10. m \in 1..len /\ e \in 1..m BY <1>2, <1>9
<1>11. shown[k] \subseteq 1..m BY <1>3, <1>9
<1>q. QED BY <1>9, <1>10, <1>11 DEF Others

(* What the client shows of a replay up to n: what follows its cursor u,   *)
(* and what it has kept.                                                   *)
IsReplay(q, n, u, p) ==
  /\ q \in Seq(Nat) /\ Len(q) = (n - u) + Len(p) /\ Len(p) \in Nat
  /\ \A i \in 1..Len(q) : i <= n - u => q[i] = u + i
  /\ \A i \in 1..Len(q) : i > n - u => i - (n - u) \in 1..Len(p) /\ q[i] = p[i - (n - u)]
  /\ \A i \in 1..Len(p) : (n - u) + i \in 1..Len(q) /\ q[(n - u) + i] = p[i]

LEMMA ReplayIs ==
  ASSUME NEW n \in Nat, NEW u \in 0..n, NEW p \in Seq(Nat), NEW q,
         q = [i \in 1..(n - u) |-> u + i] \o p
  PROVE  IsReplay(q, n, u, p)
<1> DEFINE f == [i \in 1..(n - u) |-> u + i]  d == n - u
<1>1. d \in Nat /\ d = n - u OBVIOUS
<1>2. f \in Seq(Nat) /\ Len(f) = d /\ \A i \in 1..d : f[i] = u + i
  <2>1. f = [i \in 1..d |-> u + i] /\ \A i \in 1..d : u + i \in Nat OBVIOUS
  <2>q. QED BY <1>1, <2>1
<1>3. q = f \o p OBVIOUS
<1> HIDE DEF f, d
<1>4. Len(p) \in Nat BY LenProperties
<1>5. /\ q \in Seq(Nat) /\ Len(q) = d + Len(p)
      /\ \A i \in 1..(d + Len(p)) : q[i] = IF i <= d THEN f[i] ELSE p[i - d]
  <2>1. /\ f \o p \in Seq(Nat) /\ Len(f \o p) = Len(f) + Len(p)
        /\ \A i \in 1..(Len(f) + Len(p)) :
             (f \o p)[i] = IF i <= Len(f) THEN f[i] ELSE p[i - Len(f)]
    BY <1>2, ConcatProperties
  <2>q. QED BY <1>2, <1>3, <2>1
<1>6. \A i \in 1..Len(q) : i <= d => q[i] = u + i
  <2> SUFFICES ASSUME NEW i \in 1..Len(q), i <= d PROVE q[i] = u + i OBVIOUS
  <2>1. i \in 1..d /\ i \in 1..(d + Len(p)) BY <1>1, <1>4, <1>5
  <2>q. QED BY <1>2, <1>5, <2>1
<1>7. \A i \in 1..Len(q) : i > d => i - d \in 1..Len(p) /\ q[i] = p[i - d]
  <2> SUFFICES ASSUME NEW i \in 1..Len(q), i > d PROVE i - d \in 1..Len(p) /\ q[i] = p[i - d] OBVIOUS
  <2>1. i - d \in 1..Len(p) /\ i \in 1..(d + Len(p)) /\ ~(i <= d) BY <1>1, <1>4, <1>5
  <2>q. QED BY <1>5, <2>1
<1>8. \A i \in 1..Len(p) : d + i \in 1..Len(q) /\ q[d + i] = p[i]
  <2> SUFFICES ASSUME NEW i \in 1..Len(p) PROVE d + i \in 1..Len(q) /\ q[d + i] = p[i] OBVIOUS
  <2>1. d + i \in 1..(d + Len(p)) /\ ~(d + i <= d) /\ (d + i) - d = i BY <1>1, <1>4
  <2>q. QED BY <1>5, <2>1
<1>q. QED BY <1>1, <1>4, <1>5, <1>6, <1>7, <1>8 DEF IsReplay

LEMMA ReplayShown ==
  ASSUME Types, NEW c \in Conns, Fits(c), Shows(Client(c)), TakesFirst(c),
         Head(out[c]).kind = "replay", NEW q,
         IsReplay(q, Head(out[c]).at, cursor[Client(c)], pending[Client(c)]), Show(Client(c), q)
  PROVE  /\ Others(Client(c))
         /\ \E m \in 1..len : /\ Head(out[c]).at <= m /\ shown[Client(c)] \subseteq 1..m
                              /\ shown'[Client(c)] = 1..m /\ cursor'[Client(c)] \in 0..m
                              /\ \A i \in 1..Len(pending[Client(c)]) : pending[Client(c)][i] <= m
<1> DEFINE k == Client(c)  N == Head(out[c]).at  p == pending[k]  u == cursor[k]
<1>0. RowTypes(c) /\ k \in Clients /\ shown \in [Clients -> SUBSET Nat] /\ cursor \in [Clients -> Nat]
  BY RowsAre, ConnsAre DEF Types, ClientTypes
<1>1. out[c][1].kind = "replay" /\ 1 \in 1..Len(out[c]) /\ out[c][1].at = N
  BY <1>0, FirstIs
<1>2. N \in 1..len /\ len \in Nat /\ shown[k] \subseteq 1..N BY <1>0, <1>1 DEF Fits, Reads, RowTypes
<1>3. PICK n \in 0..len : shown[k] = 1..n BY DEF Shows
<1>4. u \in 0..n /\ n \in 0..N /\ u \in Nat
  <2>1. u \in shown[k] \cup {0} BY DEF Shows
  <2>2. n # 0 => n \in shown[k] BY <1>3
  <2>q. QED BY <1>2, <1>3, <2>1, <2>2
<1>5. /\ p \in Seq(Nat) /\ Len(p) \in Nat /\ \A i \in 1..Len(p) : p[i] \in 2..len
  BY <1>0 DEF Shows, RowTypes
<1> DEFINE d == N - u
<1>6. d \in Nat /\ d = N - u /\ N \in Nat BY <1>2, <1>4
<1>8. /\ q \in Seq(Nat) /\ Len(q) = d + Len(p)
      /\ \A i \in 1..Len(q) : i <= d => q[i] = u + i
      /\ \A i \in 1..Len(q) : i > d => i - d \in 1..Len(p) /\ q[i] = p[i - d]
      /\ \A i \in 1..Len(p) : d + i \in 1..Len(q) /\ q[d + i] = p[i]
  BY DEF IsReplay
<1>s. Show(k, q) OBVIOUS
<1> HIDE DEF d, N, u, p, k
<1>10. \A i \in 1..Len(q) : q[i] \in 1..len
  <2> SUFFICES ASSUME NEW i \in 1..Len(q) PROVE q[i] \in 1..len OBVIOUS
  <2>1. CASE i <= d BY <1>2, <1>4, <1>6, <1>8, <2>1
  <2>2. CASE i > d
    <3>1. i - d \in 1..Len(p) /\ q[i] = p[i - d] BY <1>8, <2>2
    <3>2. q[i] \in 2..len BY <1>5, <3>1
    <3>q. QED BY <1>2, <3>2
  <2>q. QED BY <1>6, <2>1, <2>2
<1>11. n < N => d \in 1..Len(q) /\ q[d] = N BY <1>2, <1>4, <1>5, <1>6, <1>8
<1>12. InTurn(q, n)
  <2> SUFFICES ASSUME NEW i \in 1..Len(q), NEW e \in Nat, q[i] = e + 1
               PROVE  e <= n \/ \E j \in 1..(i - 1) : q[j] >= e
    BY DEF InTurn
  <2>1. CASE i <= d
    <3>1. e = u + (i - 1) BY <1>4, <1>8, <2>1
    <3>2. CASE i = 1 BY <1>4, <3>1, <3>2
    <3>3. CASE i # 1
      <4>1. i - 1 \in 1..(i - 1) /\ i - 1 \in 1..d BY <1>6, <2>1, <3>3
      <4>2. q[i - 1] = e BY <1>8, <3>1, <4>1
      <4>q. QED BY <4>1, <4>2
    <3>q. QED BY <3>2, <3>3
  <2>2. CASE i > d
    <3>1. i - d \in 1..Len(p) /\ q[i] = p[i - d] BY <1>8, <2>2
    <3>2. WaitsInTurn(c, i - d, e) BY <2>2, <3>1 DEF Fits, NoGap, p, k
    <3>3. CASE Base(c, e)
      <4>1. e <= N BY <1>1, <3>3 DEF Base
      <4>2. CASE n < N
        <5>1. d \in 1..(i - 1) /\ q[d] >= e BY <1>2, <1>6, <1>11, <2>2, <4>1, <4>2
        <5>q. QED BY <5>1
      <4>3. CASE n = N BY <4>1, <4>3
      <4>q. QED BY <1>2, <1>4, <4>2, <4>3
    <3>4. CASE WaitsBefore(c, i - d, e)
      <4>1. PICK j \in 1..((i - d) - 1) : p[j] >= e BY <3>4 DEF WaitsBefore, p, k
      <4>0. i - d \in 1..Len(p) /\ i \in Nat /\ Len(p) \in Nat BY <1>5, <1>8, <3>1, LenProperties
      <4>a. d \in Nat BY <1>6
      <4>b. j \in Nat /\ j >= 1 /\ j <= (i - d) - 1 BY <4>0, <4>a
      <4>2. j \in 1..Len(p) /\ d + j \in 1..(i - 1) BY <4>0, <4>a, <4>b
      <4>3. q[d + j] = p[j] BY <1>8, <4>2
      <4>q. QED BY <4>1, <4>2, <4>3
    <3>q. QED BY <3>2, <3>3, <3>4 DEF WaitsInTurn
  <2>q. QED BY <1>6, <2>1, <2>2
<1>t. q \in Seq(Nat) BY <1>8
<1>n. n \in Nat /\ n <= len BY <1>2, <1>3
<1>13. PICK m \in Nat : IsShown(k, q, n, m)
  BY <1>0, <1>2, <1>3, <1>n, <1>t, <1>10, <1>12, <1>s, ShowIs
<1>14. /\ m \in n..len /\ shown'[k] = 1..m /\ \A i \in 1..Len(q) : q[i] <= m
       /\ cursor'[k] = (IF q = <<>> THEN u ELSE q[Len(q)])
       /\ \A x \in Clients \ {k} : shown'[x] = shown[x] /\ cursor'[x] = cursor[x]
  BY <1>13 DEF IsShown, u
<1>15. N <= m /\ m \in 1..len BY <1>2, <1>3, <1>4, <1>11, <1>14
<1>16. \A i \in 1..Len(p) : p[i] <= m BY <1>8, <1>14
<1>17. cursor'[k] \in 0..m
  <2>1. CASE q = <<>> BY <1>4, <1>14, <2>1
  <2>2. CASE q # <<>>
    <3>1. Len(q) \in 1..Len(q) BY <1>8, <2>2, EmptySeq, LenProperties
    <3>2. q[Len(q)] \in 1..len /\ q[Len(q)] <= m BY <1>10, <1>14, <3>1
    <3>q. QED BY <1>14, <1>15, <2>2, <3>2
  <2>q. QED BY <2>1, <2>2
<1>18. shown[k] \subseteq 1..m BY <1>3, <1>14
<1>19. Others(k) BY <1>14 DEF Others
<1>q. QED BY <1>14, <1>15, <1>16, <1>17, <1>18, <1>19 DEF k, N, p

-----------------------------------------------------------------------------
(* A connection and its client, from one step to the next.                 *)

LEMMA LinkKept ==
  ASSUME LinkInv, link' = link,
         \A k \in Clients : phase'[k] = "down" <=> phase[k] = "down",
         \A c \in Conns : /\ Live(c)' <=> Live(c)
                          /\ serving'[c] # "none" => conn'[c] # "none"
  PROVE  LinkInv'
BY Zenon DEF LinkInv

(* A connection is lost to its client, whose only one it was.              *)
IsLost(c) ==
  /\ Live(c) /\ conn'[c] = "shut" /\ OthersSame(c)
  /\ IsDown(Client(c)) /\ \A k \in Clients \ {Client(c)} : IsSame(k)

LEMMA LostLink ==
  ASSUME LinkInv, NEW c \in Conns, IsLost(c), serving' = serving
  PROVE  LinkInv'
<1>0. link[Client(c)] = c /\ Client(c) \in Clients /\ c # NoConn BY ConnsAre DEF LinkInv, IsLost
<1>1. ASSUME NEW k \in Clients
      PROVE  (phase'[k] = "down" <=> link'[k] = NoConn) /\ (link'[k] # NoConn => Client(link'[k]) = k)
  <2>1. CASE k = Client(c) BY <2>1 DEF IsLost, IsDown
  <2>2. CASE k # Client(c) BY <2>2 DEF IsLost, IsSame, LinkInv
  <2>q. QED BY <2>1, <2>2
<1>2. ASSUME NEW d \in Conns
      PROVE  (Live(d)' <=> link'[Client(d)] = d) /\ (serving'[d] # "none" => conn'[d] # "none")
  <2>0. Client(d) \in Clients /\ d # NoConn BY ConnsAre
  <2>1. CASE d = c BY <1>0, <2>0, <2>1 DEF IsLost, IsDown, Live
  <2>2. CASE d # c /\ Client(d) = Client(c)
    <3>1. ~Live(d) BY <1>0, <2>2 DEF LinkInv
    <3>2. conn'[d] = conn[d] /\ link'[Client(d)] = NoConn BY <2>2 DEF IsLost, OthersSame, IsDown
    <3>q. QED BY <2>0, <3>1, <3>2 DEF Live, LinkInv
  <2>3. CASE d # c /\ Client(d) # Client(c)
    <3>1. conn'[d] = conn[d] /\ link'[Client(d)] = link[Client(d)]
      BY <2>0, <2>3 DEF IsLost, OthersSame, IsSame
    <3>q. QED BY <3>1 DEF Live, LinkInv
  <2>q. QED BY <2>1, <2>2, <2>3
<1>q. QED BY <1>1, <1>2 DEF LinkInv

LEMMA HangsUp ==
  ASSUME OutTypes, LinkTypes, LinkInv, NEW c \in Conns, Live(c), Shut({c}), NEW ks,
         ks = {Client(c)} \/ ks = {Client(c)} \cap {k \in Clients : link[k] = c}, HangUp(ks)
  PROVE  IsLost(c) /\ out'[c] = <<>>
<1>1. ks = {Client(c)} BY ConnsAre DEF LinkInv
<1>2. conn'[c] = "shut" /\ out'[c] = <<>> /\ OthersSame(c) BY ShutIs
<1>3. \A k \in Clients : (k \in ks => IsDown(k)) /\ (k \notin ks => IsSame(k)) BY HangUpIs
<1>q. QED BY <1>1, <1>2, <1>3, ConnsAre DEF IsLost

(* Whatever happens to connections, none is told out of turn, and what a   *)
(* client knows it goes on to know.                                        *)
FitsStep ==
  /\ \A k \in Clients : Shows(k)'
  /\ \A c \in Conns : Live(c)' => Fits(c)' /\ (Live(c) => Carries(c))

LEMMA OneMoves ==
  ASSUME Types, ClientInv, NEW c \in Conns,
         Live(c)' => Fits(c)' /\ (Live(c) => Carries(c)),
         \A d \in Conns \ {c} : Live(d)' => Live(d) /\ SameSeen(d),
         \A k \in Clients : Shows(k)'
  PROVE  FitsStep
<1>1. ASSUME NEW d \in Conns \ {c}, Live(d)' PROVE Fits(d)' /\ Carries(d)
  <2>1. RowTypes(d) /\ Fits(d) /\ SameSeen(d) BY <1>1, RowsAre DEF ClientInv
  <2>q. QED BY <1>1, <2>1, SeenFits
<1>q. QED BY <1>1 DEF FitsStep

LEMMA NoneMoves ==
  ASSUME Types, ClientInv,
         \A d \in Conns : Live(d)' => Live(d) /\ SameSeen(d),
         \A k \in Clients : Shows(k)'
  PROVE  FitsStep
<1>1. ASSUME NEW d \in Conns, Live(d)' PROVE Fits(d)' /\ Carries(d)
  <2>1. RowTypes(d) /\ Fits(d) /\ SameSeen(d) BY <1>1, RowsAre DEF ClientInv
  <2>q. QED BY <1>1, <2>1, SeenFits
<1>q. QED BY <1>1 DEF FitsStep

LEMMA StillShows ==
  ASSUME NEW k \in Clients, Shows(k), Still(k), len \in Nat, len' \in Nat, len <= len'
  PROVE  Shows(k)'
<1>1. PICK n \in 0..len : shown[k] = 1..n BY DEF Shows
<1>2. n \in 0..len' OBVIOUS
<1>3. \A i \in 1..Len(pending[k]) : pending[k][i] \in 2..len' BY DEF Shows
<1>q. QED BY <1>1, <1>2, <1>3 DEF Shows, Still

(* What a pump does to the connection it sends to, and to the one it drops. *)
IsPut(c, e) ==
  \/ ~Live(c) /\ conn'[c] = conn[c] /\ out'[c] = out[c]
  \/ Live(c) /\ conn'[c] = conn[c] /\ out'[c] = Append(out[c], EventMsg(e))
  \/ Live(c) /\ conn'[c] = "quit" /\ out'[c] = out[c]

LEMMA PutIs ==
  ASSUME OutTypes, PumpTypes, NEW f \in Fanouts, PumpPut(f)
  PROVE  at[f] \in Conns /\ IsPut(at[f], held[f]) /\ OthersSame(at[f])
<1> DEFINE c == at[f]
<1>1. c \in Conns /\ conn[c] \in {"none", "open", "quit", "shut"}
  BY DEF PumpPut, PumpTypes, OutTypes
<1>2. \/ conn[c] \in {"shut", "none"} /\ UNCHANGED <<conn, out>>
      \/ conn[c] \notin {"shut", "none"} /\ UNCHANGED conn
           /\ out' = [out EXCEPT ![c] = Append(@, EventMsg(held[f]))]
      \/ conn[c] \notin {"shut", "none"} /\ UNCHANGED out /\ conn' = [conn EXCEPT ![c] = "quit"]
  BY DEF PumpPut
<1> HIDE DEF c
<1>3. IsPut(c, held[f]) /\ OthersSame(c) BY <1>1, <1>2 DEF IsPut, OthersSame, Live, OutTypes
<1>q. QED BY <1>1, <1>3 DEF c

IsToldToQuit(c) == conn'[c] = conn[c] \/ (conn[c] = "open" /\ conn'[c] = "quit")

LEMMA DropIs ==
  ASSUME OutTypes, PumpTypes, NEW f \in Fanouts, PumpDrop(f)
  PROVE  \A c \in Conns : IsToldToQuit(c)
<1>1. CASE conn' = conn BY <1>1 DEF IsToldToQuit
<1>2. CASE \E c \in todo[f] : conn' = [conn EXCEPT ![c] = IF @ = "open" THEN "quit" ELSE @]
  BY <1>2 DEF IsToldToQuit, OutTypes, PumpTypes
<1>q. QED BY <1>1, <1>2 DEF PumpDrop

LEMMA LinkStep == ASSUME Types, LinkInv, [Next]_vars PROVE LinkInv'
<1>t. OutTypes /\ LinkTypes /\ ConnTypes /\ PumpTypes BY DEF Types, ConnTypes, ClientTypes
<1>l. \A c \in Conns : serving[c] # "none" => conn[c] # "none" BY DEF LinkInv
<1>1. ASSUME LogEvent PROVE LinkInv'
  <2>1. UNCHANGED <<phase, link, conn, serving>> BY <1>1 DEF LogEvent, connVars, cliVars
  <2>q. QED BY <1>l, <2>1, LinkKept DEF Live
<1>2. ASSUME ArchiveNotice PROVE LinkInv'
  <2>1. UNCHANGED <<phase, link, conn, serving>> BY <1>2 DEF ArchiveNotice, connVars, cliVars
  <2>q. QED BY <1>l, <2>1, LinkKept DEF Live
<1>3. ASSUME ArchiveMove PROVE LinkInv'
  <2>1. UNCHANGED <<phase, link, conn, serving>> BY <1>3 DEF ArchiveMove, connVars, cliVars
  <2>q. QED BY <1>l, <2>1, LinkKept DEF Live
<1>4. ASSUME RestoreMove PROVE LinkInv'
  <2>1. UNCHANGED <<phase, link, conn, serving>> BY <1>4 DEF RestoreMove, connVars, cliVars
  <2>q. QED BY <1>l, <2>1, LinkKept DEF Live
<1>5. ASSUME RestoreNotice PROVE LinkInv'
  <2>1. UNCHANGED <<phase, link, conn, serving>> BY <1>5 DEF RestoreNotice, connVars, cliVars
  <2>q. QED BY <1>l, <2>1, LinkKept DEF Live
<1>6. ASSUME NEW f \in Fanouts, PumpReceive(f) PROVE LinkInv'
  <2>1. UNCHANGED <<phase, link, conn, serving>> BY <1>6 DEF PumpReceive, connVars, cliVars
  <2>q. QED BY <1>l, <2>1, LinkKept DEF Live
<1>7. ASSUME NEW f \in Fanouts, PumpSnapshot(f) PROVE LinkInv'
  <2>1. UNCHANGED <<phase, link, conn, serving>> BY <1>7 DEF PumpSnapshot, connVars, cliVars
  <2>q. QED BY <1>l, <2>1, LinkKept DEF Live
<1>8. ASSUME NEW f \in Fanouts, PumpPick(f) PROVE LinkInv'
  <2>1. UNCHANGED <<phase, link, conn, serving>> BY <1>8 DEF PumpPick, connVars, cliVars
  <2>q. QED BY <1>l, <2>1, LinkKept DEF Live
<1>9. ASSUME NEW f \in Fanouts, PumpEnded(f) PROVE LinkInv'
  <2>1. UNCHANGED <<phase, link, conn, serving>> BY <1>9 DEF PumpEnded, connVars, cliVars
  <2>q. QED BY <1>l, <2>1, LinkKept DEF Live
<1>10. ASSUME NEW f \in Fanouts, PumpCheck(f) PROVE LinkInv'
  <2>1. UNCHANGED <<phase, link, conn, serving>> BY <1>10 DEF PumpCheck, connVars, cliVars
  <2>q. QED BY <1>l, <2>1, LinkKept DEF Live
<1>11. ASSUME NEW f \in Fanouts, PumpPut(f) PROVE LinkInv'
  <2>1. UNCHANGED <<phase, link, serving>> BY <1>11 DEF PumpPut, cliVars
  <2>2. \A c \in Conns : conn'[c] = conn[c] \/ (conn[c] \in {"open", "quit"} /\ conn'[c] = "quit")
    BY <1>t, <1>11, PutIs DEF IsPut, OthersSame, Live, OutTypes
  <2>3. \A c \in Conns : (Live(c)' <=> Live(c)) /\ (serving'[c] # "none" => conn'[c] # "none")
    BY <1>l, <2>1, <2>2 DEF Live
  <2>q. QED BY <2>1, <2>3, LinkKept
<1>12. ASSUME NEW f \in Fanouts, PumpDrop(f) PROVE LinkInv'
  <2>1. UNCHANGED <<phase, link, serving>> BY <1>12 DEF PumpDrop, cliVars
  <2>2. \A c \in Conns : conn'[c] = conn[c] \/ (conn[c] \in {"open", "quit"} /\ conn'[c] = "quit")
    BY <1>t, <1>12, DropIs DEF IsToldToQuit
  <2>3. \A c \in Conns : (Live(c)' <=> Live(c)) /\ (serving'[c] # "none" => conn'[c] # "none")
    BY <1>l, <2>1, <2>2 DEF Live
  <2>q. QED BY <2>1, <2>3, LinkKept
<1>13. ASSUME NEW c \in Conns, CloseNow(c) PROVE LinkInv'
  <2>1. Live(c) /\ Shut({c}) /\ serving' = serving BY <1>13 DEF CloseNow, Live
  <2>2. HangUp({Client(c)} \cap {k \in Clients : link[k] = c}) BY <1>13 DEF CloseNow
  <2>3. IsLost(c) BY <1>t, <2>1, <2>2, HangsUp
  <2>q. QED BY <2>1, <2>3, LostLink
<1>14. ASSUME NEW c \in Conns, Lose(c) PROVE LinkInv'
  <2>1. Live(c) /\ Shut({c}) /\ serving' = serving BY <1>14 DEF Lose, Live
  <2>2. HangUp({Client(c)} \cap {k \in Clients : link[k] = c}) BY <1>14 DEF Lose
  <2>3. IsLost(c) BY <1>t, <2>1, <2>2, HangsUp
  <2>q. QED BY <2>1, <2>3, LostLink
<1>15. ASSUME NEW c \in Conns, ErrorArrives(c) PROVE LinkInv'
  <2>1. Live(c) /\ Shut({c}) /\ serving' = serving BY <1>15 DEF ErrorArrives, Live
  <2>2. HangUp({Client(c)}) BY <1>15 DEF ErrorArrives
  <2>3. IsLost(c) BY <1>t, <2>1, <2>2, HangsUp
  <2>q. QED BY <2>1, <2>3, LostLink
<1>16. ASSUME NEW c \in Conns, TearDown(c) PROVE LinkInv'
  <2>1. UNCHANGED <<phase, link, serving>> /\ conn' = [conn EXCEPT ![c] = "none"]
    BY <1>16 DEF TearDown
  <2>2. conn[c] = "shut" /\ serving[c] = "none" BY <1>16 DEF TearDown
  <2>3. \A d \in Conns : (Live(d)' <=> Live(d)) /\ (serving'[d] # "none" => conn'[d] # "none")
    BY <1>t, <1>l, <2>1, <2>2 DEF Live, OutTypes
  <2>q. QED BY <2>1, <2>3, LinkKept
<1>17. ASSUME NEW c \in Conns, SubscribeGet(c) PROVE LinkInv'
  <2>1. UNCHANGED <<phase, link>> /\ (Reply(c, ErrorMsg) \/ conn' = conn)
    BY <1>17 DEF SubscribeGet, cliVars
  <2>2. ErrorMsg \in Msgs BY <1>t DEF ErrorMsg, Msgs, ConnTypes
  <2>3. serving[c] # "none" /\ \A d \in Conns \ {c} : serving'[d] = serving[d]
    BY <1>t, <1>17 DEF SubscribeGet, Serve, ConnTypes
  <2>4. \/ conn' = conn
        \/ /\ \A d \in Conns \ {c} : conn'[d] = conn[d]
           /\ conn'[c] = conn[c] \/ conn'[c] = (IF conn[c] = "shut" THEN "shut" ELSE "quit")
    BY <1>t, <2>1, <2>2, ReplyIs DEF IsQueued, IsRefused, OthersSame
  <2>5. \A d \in Conns : (Live(d)' <=> Live(d)) /\ (serving'[d] # "none" => conn'[d] # "none")
    BY <1>t, <1>l, <2>3, <2>4 DEF Live, OutTypes
  <2>q. QED BY <2>1, <2>5, LinkKept
<1>18. ASSUME NEW c \in Conns, SubscribeReply(c) PROVE LinkInv'
  <2>1. UNCHANGED <<phase, link>> /\ (Reply(c, JoinedMsg)) BY <1>18 DEF SubscribeReply, cliVars
  <2>2. JoinedMsg \in Msgs BY <1>t DEF JoinedMsg, Msgs, ConnTypes
  <2>3. serving[c] # "none" /\ \A d \in Conns \ {c} : serving'[d] = serving[d]
    BY <1>t, <1>18 DEF SubscribeReply, Serve, ConnTypes
  <2>4. \/ conn' = conn
        \/ /\ \A d \in Conns \ {c} : conn'[d] = conn[d]
           /\ conn'[c] = conn[c] \/ conn'[c] = (IF conn[c] = "shut" THEN "shut" ELSE "quit")
    BY <1>t, <2>1, <2>2, ReplyIs DEF IsQueued, IsRefused, OthersSame
  <2>5. \A d \in Conns : (Live(d)' <=> Live(d)) /\ (serving'[d] # "none" => conn'[d] # "none")
    BY <1>t, <1>l, <2>3, <2>4 DEF Live, OutTypes
  <2>q. QED BY <2>1, <2>5, LinkKept
<1>19. ASSUME NEW c \in Conns, ReplayRead(c) PROVE LinkInv'
  <2>1. UNCHANGED <<phase, link>> /\ (Reply(c, ErrorMsg) \/ conn' = conn)
    BY <1>19 DEF ReplayRead, cliVars
  <2>2. ErrorMsg \in Msgs BY <1>t DEF ErrorMsg, Msgs, ConnTypes
  <2>3. serving[c] # "none" /\ \A d \in Conns \ {c} : serving'[d] = serving[d]
    BY <1>t, <1>19 DEF ReplayRead, Serve, ConnTypes
  <2>4. \/ conn' = conn
        \/ /\ \A d \in Conns \ {c} : conn'[d] = conn[d]
           /\ conn'[c] = conn[c] \/ conn'[c] = (IF conn[c] = "shut" THEN "shut" ELSE "quit")
    BY <1>t, <2>1, <2>2, ReplyIs DEF IsQueued, IsRefused, OthersSame
  <2>5. \A d \in Conns : (Live(d)' <=> Live(d)) /\ (serving'[d] # "none" => conn'[d] # "none")
    BY <1>t, <1>l, <2>3, <2>4 DEF Live, OutTypes
  <2>q. QED BY <2>1, <2>5, LinkKept
<1>20. ASSUME NEW c \in Conns, ReplayAnswer(c) PROVE LinkInv'
  <2>1. UNCHANGED <<phase, link>> /\ (Reply(c, ReplayMsg(got[c])))
    BY <1>20 DEF ReplayAnswer, cliVars
  <2>2. ReplayMsg(got[c]) \in Msgs BY <1>t DEF ReplayMsg, Msgs, ConnTypes
  <2>3. serving[c] # "none" /\ \A d \in Conns \ {c} : serving'[d] = serving[d]
    BY <1>t, <1>20 DEF ReplayAnswer, Serve, ConnTypes
  <2>4. \/ conn' = conn
        \/ /\ \A d \in Conns \ {c} : conn'[d] = conn[d]
           /\ conn'[c] = conn[c] \/ conn'[c] = (IF conn[c] = "shut" THEN "shut" ELSE "quit")
    BY <1>t, <2>1, <2>2, ReplyIs DEF IsQueued, IsRefused, OthersSame
  <2>5. \A d \in Conns : (Live(d)' <=> Live(d)) /\ (serving'[d] # "none" => conn'[d] # "none")
    BY <1>t, <1>l, <2>3, <2>4 DEF Live, OutTypes
  <2>q. QED BY <2>1, <2>5, LinkKept
<1>21. ASSUME NEW c \in Conns, SubscribeJoin(c) PROVE LinkInv'
  <2>1. UNCHANGED <<phase, link, conn>> BY <1>21 DEF SubscribeJoin
  <2>2. \A d \in Conns : serving'[d] # "none" => serving[d] # "none"
    BY <1>t, <1>21 DEF SubscribeJoin, Serve, ConnTypes
  <2>q. QED BY <1>l, <2>1, <2>2, LinkKept DEF Live
<1>22. ASSUME NEW c \in Conns, EventArrives(c) PROVE LinkInv'
  <2>1. UNCHANGED <<phase, link, conn>> BY <1>22 DEF EventArrives
  <2>2. \A d \in Conns : serving'[d] # "none" => serving[d] # "none"
    BY <1>t, <1>22 DEF EventArrives, Serve, ConnTypes
  <2>q. QED BY <1>l, <2>1, <2>2, LinkKept DEF Live
<1>23. ASSUME NEW c \in Conns, JoinedArrives(c) PROVE LinkInv'
  <2>1. UNCHANGED <<link, conn>> /\ phase' = [phase EXCEPT ![Client(c)] = "replaying"]
        /\ serving' = [serving EXCEPT ![c] = "replay"]
    BY <1>23 DEF JoinedArrives, Serve
  <2>2. conn[c] \in {"open", "quit"} /\ link[Client(c)] = c BY <1>23 DEF JoinedArrives, Arrives
  <2>3. phase[Client(c)] # "down" BY <2>2, ConnsAre DEF LinkInv
  <2>4. \A k \in Clients : phase'[k] = "down" <=> phase[k] = "down"
    BY <1>t, <2>1, <2>3 DEF LinkTypes
  <2>5. \A d \in Conns : serving'[d] # "none" => conn'[d] # "none"
    BY <1>t, <1>l, <2>1, <2>2 DEF ConnTypes
  <2>q. QED BY <2>1, <2>4, <2>5, LinkKept DEF Live
<1>24. ASSUME NEW c \in Conns, ReplayArrives(c) PROVE LinkInv'
  <2>1. UNCHANGED <<link, conn>> /\ phase' = [phase EXCEPT ![Client(c)] = "streaming"]
        /\ serving' = serving
    BY <1>24 DEF ReplayArrives, Serve
  <2>2. conn[c] \in {"open", "quit"} /\ link[Client(c)] = c BY <1>24 DEF ReplayArrives, Arrives
  <2>3. phase[Client(c)] # "down" BY <2>2, ConnsAre DEF LinkInv
  <2>4. \A k \in Clients : phase'[k] = "down" <=> phase[k] = "down"
    BY <1>t, <2>1, <2>3 DEF LinkTypes
  <2>5. \A d \in Conns : serving'[d] # "none" => conn'[d] # "none"
    BY <1>t, <1>l, <2>1, <2>2 DEF ConnTypes
  <2>q. QED BY <2>1, <2>4, <2>5, LinkKept DEF Live
<1>25. ASSUME NEW k \in Clients, Dial(k) PROVE LinkInv'
  <2>1. PICK i \in Slots : /\ Vacant(<<k, i>>)
                          /\ conn' = [conn EXCEPT ![<<k, i>>] = "open"]
                          /\ link' = [link EXCEPT ![k] = <<k, i>>]
                          /\ serving' = [serving EXCEPT ![<<k, i>>] = "subscribe"]
    BY <1>25 DEF Dial, Serve
  <2> DEFINE c == <<k, i>>
  <2>2. c \in Conns /\ Client(c) = k /\ c # NoConn BY ConnsAre
  <2>3. phase[k] = "down" /\ phase' = [phase EXCEPT ![k] = "joining"] BY <1>25 DEF Dial
  <2> HIDE DEF c
  <2>a. /\ conn' = [conn EXCEPT ![c] = "open"] /\ link' = [link EXCEPT ![k] = c]
        /\ serving' = [serving EXCEPT ![c] = "subscribe"]
    BY <2>1 DEF c
  <2>4. link[k] = NoConn BY <2>3 DEF LinkInv
  <2>5. ASSUME NEW h \in Clients
        PROVE  (phase'[h] = "down" <=> link'[h] = NoConn) /\ (link'[h] # NoConn => Client(link'[h]) = h)
    <3>1. CASE h = k BY <1>t, <2>2, <2>3, <2>a, <3>1 DEF LinkTypes
    <3>2. CASE h # k
      <4>1. phase'[h] = phase[h] /\ link'[h] = link[h] BY <1>t, <2>3, <2>a, <3>2 DEF LinkTypes
      <4>q. QED BY <4>1 DEF LinkInv
    <3>q. QED BY <3>1, <3>2
  <2>6. ASSUME NEW d \in Conns
        PROVE  (Live(d)' <=> link'[Client(d)] = d) /\ (serving'[d] # "none" => conn'[d] # "none")
    <3>0. Client(d) \in Clients /\ d # NoConn BY ConnsAre
    <3>1. CASE d = c BY <1>t, <2>2, <2>a, <3>1 DEF Live, OutTypes, LinkTypes
    <3>2. CASE d # c
      <4>1. conn'[d] = conn[d] /\ serving'[d] = serving[d]
        BY <1>t, <2>a, <3>2 DEF OutTypes, ConnTypes
      <4>2. CASE Client(d) = k
        <5>1. ~Live(d) /\ link'[Client(d)] = c
          BY <1>t, <2>4, <2>a, <3>0, <4>2 DEF LinkInv, LinkTypes
        <5>q. QED BY <1>l, <3>2, <4>1, <5>1 DEF Live
      <4>3. CASE Client(d) # k
        <5>1. link'[Client(d)] = link[Client(d)] BY <1>t, <2>a, <3>0, <4>3 DEF LinkTypes
        <5>q. QED BY <4>1, <5>1 DEF Live, LinkInv
      <4>q. QED BY <4>2, <4>3
    <3>q. QED BY <3>1, <3>2
  <2>q. QED BY <2>5, <2>6 DEF LinkInv
<1>26. ASSUME Restart PROVE LinkInv'
  <2>1. /\ conn' = [c \in Conns |-> "none"] /\ serving' = [c \in Conns |-> "none"] /\ HangUp(Clients)
    BY <1>26 DEF Restart
  <2>2. \A k \in Clients : IsDown(k) BY <1>t, <2>1, HangUpIs
  <2>q. QED BY <2>1, <2>2, ConnsAre DEF LinkInv, IsDown, Live
<1>27. CASE UNCHANGED vars
  <2>1. UNCHANGED <<phase, link, conn, serving>> BY <1>27 DEF vars
  <2>q. QED BY <1>l, <2>1, LinkKept DEF Live
<1>q. QED BY <1>1, <1>2, <1>3, <1>4, <1>5, <1>6, <1>7, <1>8, <1>9, <1>10, <1>11, <1>12, <1>13,
   <1>14, <1>15, <1>16, <1>17, <1>18, <1>19, <1>20, <1>21, <1>22, <1>23, <1>24, <1>25, <1>26,
   <1>27 DEF Next, PumpStep, ConnStep, ClientStep

LEMMA DownShows ==
  ASSUME NEW k \in Clients, Shows(k), IsDown(k), UNCHANGED <<len, cursor, shown>>
  PROVE  Shows(k)'
BY EmptyIs DEF Shows, IsDown

LEMMA LostFits ==
  ASSUME Types, Types', LinkInv, ClientInv, NEW c \in Conns, IsLost(c),
         UNCHANGED <<serving, got, cursor, shown, len>>
  PROVE  FitsStep
<1>n. len \in Nat /\ len' \in Nat BY DEF Types, LogTypes
<1>1. ~Live(c)' /\ link[Client(c)] = c BY DEF IsLost, Live, LinkInv
<1>2. ASSUME NEW d \in Conns \ {c}, Live(d)' PROVE Live(d) /\ SameSeen(d)
  <2>1. conn'[d] = conn[d] /\ out'[d] = out[d] BY DEF IsLost, OthersSame
  <2>2. Live(d) BY <1>2, <2>1 DEF Live
  <2>3. Client(d) \in Clients \ {Client(c)} BY <1>1, <2>2, ConnsAre DEF LinkInv
  <2>4. Still(Client(d)) BY <2>3 DEF Still, IsLost, IsSame
  <2>q. QED BY <1>n, <2>1, <2>2, <2>4 DEF SameSeen
<1>3. ASSUME NEW k \in Clients PROVE Shows(k)'
  <2>1. CASE k = Client(c) BY <2>1, DownShows DEF IsLost, ClientInv
  <2>2. CASE k # Client(c)
    <3>1. Still(k) BY <2>2 DEF Still, IsLost, IsSame
    <3>q. QED BY <1>n, <3>1, StillShows DEF ClientInv
  <2>q. QED BY <2>1, <2>2
<1>q. QED BY <1>1, <1>2, <1>3, OneMoves

LEMMA WorkerFits ==
  ASSUME Types, ClientInv, NEW c \in Conns, Serves(c), conn'[c] = conn[c],
         \A d \in Conns \ {c} : Live(d)' => Live(d) /\ SameSeen(d),
         \A k \in Clients : Shows(k)'
  PROVE  FitsStep
<1>1. ASSUME Live(c)' PROVE Live(c) /\ Fits(c)' /\ Carries(c)
  <2>1. Live(c) BY <1>1 DEF Live
  <2>2. RowTypes(c) /\ Fits(c) /\ Shows(Client(c)) BY <2>1, RowsAre, ConnsAre DEF ClientInv
  <2>q. QED BY <2>1, <2>2, ServeFits
<1>q. QED BY <1>1, OneMoves

LEMMA RowsAreNext == ASSUME Types', NEW c \in Conns PROVE RowTypes(c)'
<1>1. out'[c] \in Seq(Msgs) /\ pending'[Client(c)] \in Seq(Nat)
  BY ConnsAre DEF Types, ConnTypes, OutTypes, ClientTypes, LinkTypes, Queue, Events
<1>2. Len(out'[c]) \in Nat /\ \A i \in 1..Len(out'[c]) : out'[c][i] \in Msgs
  BY <1>1, LenProperties, ElementOfSeq
<1>3. \A i \in 1..Len(out'[c]) : out'[c][i].at \in Nat BY <1>2 DEF Msgs
<1>4. Len(pending'[Client(c)]) \in Nat
      /\ \A i \in 1..Len(pending'[Client(c)]) : pending'[Client(c)][i] \in Nat
  BY <1>1, LenProperties, ElementOfSeq
<1>5. got'[c] \in Nat /\ cursor'[Client(c)] \in Nat /\ len' \in Nat \ {0} /\ gen' \in Nat
  BY ConnsAre DEF Types, LogTypes, ConnTypes, ClientTypes
<1>q. QED BY <1>1, <1>2, <1>3, <1>4, <1>5, ConnsAre DEF RowTypes

(* A message that arrives is between a connection and its client alone.    *)
FitsArrive(c) ==
  /\ conn' = conn /\ got' = got /\ link' = link /\ len' = len
  /\ \A d \in Conns \ {c} : out'[d] = out[d] /\ serving'[d] = serving[d]
  /\ Fits(c)' /\ Carries(c) /\ Shows(Client(c))'
  /\ \A h \in Clients \ {Client(c)} : Still(h)

LEMMA ArriveFits ==
  ASSUME Types, LinkInv, ClientInv, NEW c \in Conns, link[Client(c)] = c, FitsArrive(c)
  PROVE  FitsStep
<1>n. len \in Nat /\ len' \in Nat BY DEF Types, LogTypes, FitsArrive
<1>1. ASSUME NEW d \in Conns \ {c}, Live(d)' PROVE Live(d) /\ SameSeen(d)
  <2>1. Live(d) BY <1>1 DEF Live, FitsArrive
  <2>2. Client(d) \in Clients \ {Client(c)} BY <2>1, ConnsAre DEF LinkInv
  <2>q. QED BY <1>n, <2>1, <2>2 DEF SameSeen, FitsArrive
<1>2. ASSUME NEW k \in Clients PROVE Shows(k)'
  <2>1. CASE k = Client(c) BY <2>1 DEF FitsArrive
  <2>2. CASE k # Client(c) BY <1>n, <2>2, StillShows DEF ClientInv, FitsArrive
  <2>q. QED BY <2>1, <2>2
<1>q. QED BY <1>1, <1>2, OneMoves DEF FitsArrive

LEMMA ReplayTaken ==
  ASSUME Types, NEW c \in Conns, Fits(c), Shows(Client(c)), TakesFirst(c),
         Head(out[c]).kind = "replay", ReplayArrives(c)
  PROVE  \E q : IsReplay(q, Head(out[c]).at, cursor[Client(c)], pending[Client(c)])
                 /\ Show(Client(c), q)
<1> DEFINE k == Client(c)  n == Head(out[c]).at  p == pending[k]  u == cursor[k]
           q == [i \in 1..(n - u) |-> u + i] \o p
<1>1. RowTypes(c) /\ k \in Clients BY RowsAre, ConnsAre
<1>2. out[c][1].kind = "replay" /\ 1 \in 1..Len(out[c]) /\ out[c][1].at = n BY <1>1, FirstIs
<1>3. n \in Nat /\ shown[k] \subseteq 1..n BY <1>1, <1>2 DEF Fits, Reads, RowTypes
<1>4. u \in 0..n /\ p \in Seq(Nat) BY <1>1, <1>3 DEF Shows, RowTypes
<1>5. IsReplay(q, n, u, p) BY <1>3, <1>4, ReplayIs
<1>6. Show(k, q) BY DEF ReplayArrives
<1>q. QED BY <1>5, <1>6

(* What a pump is about to queue has its turn.                             *)
PutReady ==
  \A f \in Fanouts, c \in Conns :
    at[f] = c /\ Live(c) => held[f] \in 2..len /\ Knows(c, held[f] - 1)

LEMMA FitsMove ==
  ASSUME Types, Types', LinkInv, ClientInv, PutReady, [Next]_vars
  PROVE  FitsStep
<1>t. OutTypes /\ LinkTypes /\ ConnTypes /\ PumpTypes BY DEF Types, ConnTypes, ClientTypes
<1>n. len \in Nat /\ len' \in Nat BY DEF Types, LogTypes
<1>s. ASSUME \A k \in Clients : Still(k), len <= len' PROVE \A k \in Clients : Shows(k)'
  BY <1>n, <1>s, StillShows DEF ClientInv
<1>1. ASSUME LogEvent PROVE FitsStep
  <2>1. UNCHANGED <<conn, out, serving, got, phase, link, cursor, shown, pending>> /\ len' = len + 1
    BY <1>1 DEF LogEvent, Record, connVars, cliVars, seenVars
  <2>2. len <= len' /\ \A k \in Clients : Still(k) BY <1>n, <2>1 DEF Still
  <2>3. \A d \in Conns : Live(d)' => Live(d) /\ SameSeen(d)
    BY <1>n, <2>1, <2>2, ConnsAre DEF Live, SameSeen
  <2>q. QED BY <1>s, <2>2, <2>3, NoneMoves
<1>2. ASSUME ArchiveNotice PROVE FitsStep
  <2>1. UNCHANGED <<conn, out, serving, got, phase, link, cursor, shown, pending>> /\ len' = len + 1
    BY <1>2 DEF ArchiveNotice, Record, connVars, cliVars, seenVars
  <2>2. len <= len' /\ \A k \in Clients : Still(k) BY <1>n, <2>1 DEF Still
  <2>3. \A d \in Conns : Live(d)' => Live(d) /\ SameSeen(d)
    BY <1>n, <2>1, <2>2, ConnsAre DEF Live, SameSeen
  <2>q. QED BY <1>s, <2>2, <2>3, NoneMoves
<1>3. ASSUME ArchiveMove PROVE FitsStep
  <2>1. UNCHANGED <<conn, out, serving, got, phase, link, cursor, shown, pending>> /\ len' = len
    BY <1>3 DEF ArchiveMove, logVars, connVars, cliVars, seenVars
  <2>2. len <= len' /\ \A k \in Clients : Still(k) BY <1>n, <2>1 DEF Still
  <2>3. \A d \in Conns : Live(d)' => Live(d) /\ SameSeen(d)
    BY <1>n, <2>1, <2>2, ConnsAre DEF Live, SameSeen
  <2>q. QED BY <1>s, <2>2, <2>3, NoneMoves
<1>4. ASSUME RestoreMove PROVE FitsStep
  <2>1. UNCHANGED <<conn, out, serving, got, phase, link, cursor, shown, pending>> /\ len' = len
    BY <1>4 DEF RestoreMove, logVars, connVars, cliVars, seenVars
  <2>2. len <= len' /\ \A k \in Clients : Still(k) BY <1>n, <2>1 DEF Still
  <2>3. \A d \in Conns : Live(d)' => Live(d) /\ SameSeen(d)
    BY <1>n, <2>1, <2>2, ConnsAre DEF Live, SameSeen
  <2>q. QED BY <1>s, <2>2, <2>3, NoneMoves
<1>5. ASSUME RestoreNotice PROVE FitsStep
  <2>1. UNCHANGED <<conn, out, serving, got, phase, link, cursor, shown, pending>> /\ len' = len + 1
    BY <1>5 DEF RestoreNotice, Record, connVars, cliVars, seenVars
  <2>2. len <= len' /\ \A k \in Clients : Still(k) BY <1>n, <2>1 DEF Still
  <2>3. \A d \in Conns : Live(d)' => Live(d) /\ SameSeen(d)
    BY <1>n, <2>1, <2>2, ConnsAre DEF Live, SameSeen
  <2>q. QED BY <1>s, <2>2, <2>3, NoneMoves
<1>6. ASSUME NEW f \in Fanouts, PumpReceive(f) PROVE FitsStep
  <2>1. UNCHANGED <<conn, out, serving, got, phase, link, cursor, shown, pending>> /\ len' = len
    BY <1>6 DEF PumpReceive, logVars, connVars, cliVars, seenVars
  <2>2. len <= len' /\ \A k \in Clients : Still(k) BY <1>n, <2>1 DEF Still
  <2>3. \A d \in Conns : Live(d)' => Live(d) /\ SameSeen(d)
    BY <1>n, <2>1, <2>2, ConnsAre DEF Live, SameSeen
  <2>q. QED BY <1>s, <2>2, <2>3, NoneMoves
<1>7. ASSUME NEW f \in Fanouts, PumpSnapshot(f) PROVE FitsStep
  <2>1. UNCHANGED <<conn, out, serving, got, phase, link, cursor, shown, pending>> /\ len' = len
    BY <1>7 DEF PumpSnapshot, logVars, connVars, cliVars, seenVars
  <2>2. len <= len' /\ \A k \in Clients : Still(k) BY <1>n, <2>1 DEF Still
  <2>3. \A d \in Conns : Live(d)' => Live(d) /\ SameSeen(d)
    BY <1>n, <2>1, <2>2, ConnsAre DEF Live, SameSeen
  <2>q. QED BY <1>s, <2>2, <2>3, NoneMoves
<1>8. ASSUME NEW f \in Fanouts, PumpPick(f) PROVE FitsStep
  <2>1. UNCHANGED <<conn, out, serving, got, phase, link, cursor, shown, pending>> /\ len' = len
    BY <1>8 DEF PumpPick, logVars, connVars, cliVars, seenVars
  <2>2. len <= len' /\ \A k \in Clients : Still(k) BY <1>n, <2>1 DEF Still
  <2>3. \A d \in Conns : Live(d)' => Live(d) /\ SameSeen(d)
    BY <1>n, <2>1, <2>2, ConnsAre DEF Live, SameSeen
  <2>q. QED BY <1>s, <2>2, <2>3, NoneMoves
<1>9. ASSUME NEW f \in Fanouts, PumpEnded(f) PROVE FitsStep
  <2>1. UNCHANGED <<conn, out, serving, got, phase, link, cursor, shown, pending>> /\ len' = len
    BY <1>9 DEF PumpEnded, logVars, connVars, cliVars, seenVars
  <2>2. len <= len' /\ \A k \in Clients : Still(k) BY <1>n, <2>1 DEF Still
  <2>3. \A d \in Conns : Live(d)' => Live(d) /\ SameSeen(d)
    BY <1>n, <2>1, <2>2, ConnsAre DEF Live, SameSeen
  <2>q. QED BY <1>s, <2>2, <2>3, NoneMoves
<1>10. ASSUME NEW f \in Fanouts, PumpCheck(f) PROVE FitsStep
  <2>1. UNCHANGED <<conn, out, serving, got, phase, link, cursor, shown, pending>> /\ len' = len
    BY <1>10 DEF PumpCheck, logVars, connVars, cliVars, seenVars
  <2>2. len <= len' /\ \A k \in Clients : Still(k) BY <1>n, <2>1 DEF Still
  <2>3. \A d \in Conns : Live(d)' => Live(d) /\ SameSeen(d)
    BY <1>n, <2>1, <2>2, ConnsAre DEF Live, SameSeen
  <2>q. QED BY <1>s, <2>2, <2>3, NoneMoves
<1>11. ASSUME NEW f \in Fanouts, PumpPut(f) PROVE FitsStep
  <2>0. PICK c \in Conns, e \in Nat : c = at[f] /\ e = held[f] BY <1>t, <1>11, PutIs DEF PumpTypes
  <2>1. UNCHANGED <<serving, got, phase, link, cursor, shown, pending>> /\ len' = len
    BY <1>11 DEF PumpPut, logVars, cliVars, seenVars
  <2>2. c \in Conns /\ IsPut(c, e) /\ OthersSame(c) BY <1>t, <1>11, <2>0, PutIs
  <2>3. len <= len' /\ \A k \in Clients : Still(k) BY <1>n, <2>1 DEF Still
  <2>4. \A d \in Conns \ {c} : Live(d)' => Live(d) /\ SameSeen(d)
    BY <1>n, <2>1, <2>2, <2>3, ConnsAre DEF Live, SameSeen, OthersSame
  <2>5. ASSUME Live(c)' PROVE Live(c) /\ Fits(c)' /\ Carries(c)
    <3>1. Live(c) BY <2>2, <2>5 DEF IsPut, Live
    <3>2. RowTypes(c) /\ Fits(c) BY <2>2, <3>1, RowsAre DEF ClientInv
    <3>3. CASE out'[c] = out[c]
      <4>1. SameSeen(c) BY <1>n, <2>1, <2>2, <2>3, <3>3, ConnsAre DEF SameSeen
      <4>q. QED BY <2>2, <3>1, <3>2, <4>1, SeenFits
    <3>4. CASE out'[c] = Append(out[c], EventMsg(e))
      <4>1. e \in 2..len /\ Knows(c, e - 1) BY <2>0, <2>2, <3>1 DEF PutReady
      <4>2. IsToldOf(c, e) BY <2>1, <2>2, <2>3, <3>4, ConnsAre DEF IsToldOf
      <4>q. QED BY <2>2, <3>1, <3>2, <4>1, <4>2, EventFits
    <3>q. QED BY <2>2, <3>1, <3>3, <3>4 DEF IsPut
  <2>q. QED BY <1>s, <2>2, <2>3, <2>4, <2>5, OneMoves
<1>12. ASSUME NEW f \in Fanouts, PumpDrop(f) PROVE FitsStep
  <2>1. UNCHANGED <<out, serving, got, phase, link, cursor, shown, pending>> /\ len' = len
    BY <1>12 DEF PumpDrop, logVars, cliVars, seenVars
  <2>2. \A d \in Conns : Live(d)' => Live(d) BY <1>t, <1>12, DropIs DEF IsToldToQuit, Live
  <2>3. len <= len' /\ \A k \in Clients : Still(k) BY <1>n, <2>1 DEF Still
  <2>4. \A d \in Conns : Live(d)' => Live(d) /\ SameSeen(d)
    BY <1>n, <2>1, <2>2, <2>3, ConnsAre DEF SameSeen
  <2>q. QED BY <1>s, <2>3, <2>4, NoneMoves
<1>13. ASSUME NEW c \in Conns, CloseNow(c) PROVE FitsStep
  <2>1. Live(c) /\ Shut({c}) /\ UNCHANGED <<serving, got, cursor, shown>> /\ len' = len
    BY <1>13 DEF CloseNow, Live, logVars
  <2>2. HangUp({Client(c)} \cap {k \in Clients : link[k] = c}) BY <1>13 DEF CloseNow
  <2>3. IsLost(c) BY <1>t, <2>1, <2>2, HangsUp
  <2>q. QED BY <2>1, <2>3, LostFits
<1>14. ASSUME NEW c \in Conns, Lose(c) PROVE FitsStep
  <2>1. Live(c) /\ Shut({c}) /\ UNCHANGED <<serving, got, cursor, shown>> /\ len' = len
    BY <1>14 DEF Lose, Live, logVars
  <2>2. HangUp({Client(c)} \cap {k \in Clients : link[k] = c}) BY <1>14 DEF Lose
  <2>3. IsLost(c) BY <1>t, <2>1, <2>2, HangsUp
  <2>q. QED BY <2>1, <2>3, LostFits
<1>15. ASSUME NEW c \in Conns, ErrorArrives(c) PROVE FitsStep
  <2>1. Live(c) /\ Shut({c}) /\ UNCHANGED <<serving, got, cursor, shown>> /\ len' = len
    BY <1>15 DEF ErrorArrives, Live, logVars
  <2>2. HangUp({Client(c)}) BY <1>15 DEF ErrorArrives
  <2>3. IsLost(c) BY <1>t, <2>1, <2>2, HangsUp
  <2>q. QED BY <2>1, <2>3, LostFits
<1>16. ASSUME NEW c \in Conns, TearDown(c) PROVE FitsStep
  <2>1. UNCHANGED <<out, serving, got, phase, link, cursor, shown, pending>> /\ len' = len
        /\ conn' = [conn EXCEPT ![c] = "none"]
    BY <1>16 DEF TearDown, logVars, seenVars
  <2>2. \A d \in Conns : Live(d)' => Live(d) BY <1>t, <2>1 DEF OutTypes, Live
  <2>3. len <= len' /\ \A k \in Clients : Still(k) BY <1>n, <2>1 DEF Still
  <2>4. \A d \in Conns : Live(d)' => Live(d) /\ SameSeen(d)
    BY <1>n, <2>1, <2>2, <2>3, ConnsAre DEF SameSeen
  <2>q. QED BY <1>s, <2>3, <2>4, NoneMoves
<1>17. ASSUME NEW c \in Conns, SubscribeGet(c) PROVE FitsStep
  <2>1. UNCHANGED <<phase, link, cursor, shown, pending>> /\ len' = len /\ serving[c] = "subscribe"
    BY <1>17 DEF SubscribeGet, logVars, cliVars, seenVars
  <2>2. \/ /\ Reply(c, ErrorMsg) /\ serving' = [serving EXCEPT ![c] = "none"]
           /\ \A d \in Conns \ {c} : got'[d] = got[d]
        \/ UNCHANGED <<conn, out>> /\ serving' = [serving EXCEPT ![c] = "join"] /\ got' = [got EXCEPT ![c] = gen]
    BY <1>t, <1>17 DEF SubscribeGet, Serve, ConnTypes
  <2>3. ErrorMsg \in Msgs BY <1>t DEF ErrorMsg, Msgs, ConnTypes
  <2>4. len <= len' /\ \A k \in Clients : Still(k) BY <1>n, <2>1 DEF Still
  <2>5. CASE Reply(c, ErrorMsg) /\ serving' = [serving EXCEPT ![c] = "none"]
             /\ \A d \in Conns \ {c} : got'[d] = got[d]
    <3>1. (IsQueued(c, ErrorMsg) \/ IsRefused(c)) /\ OthersSame(c) BY <1>t, <2>3, <2>5, ReplyIs
    <3>2. \A d \in Conns \ {c} : Live(d)' => Live(d) /\ SameSeen(d)
      BY <1>t, <1>n, <2>4, <2>5, <3>1, ConnsAre DEF Live, SameSeen, OthersSame, ConnTypes
    <3>3. ASSUME Live(c)' PROVE Live(c) /\ Fits(c)' /\ Carries(c)
      <4>1. Live(c) BY <1>t, <3>1, <3>3 DEF IsQueued, IsRefused, Live, OutTypes
      <4>2. RowTypes(c) /\ Fits(c) BY <4>1, RowsAre DEF ClientInv
      <4>3. out'[c] = Append(out[c], ErrorMsg) \/ out'[c] = out[c] BY <3>1 DEF IsQueued, IsRefused
      <4>4. serving'[c] = "none" /\ Still(Client(c)) /\ len' = len
        BY <1>t, <2>1, <2>4, <2>5, ConnsAre DEF ConnTypes
      <4>5. Answers(c, ErrorMsg) BY <2>1, <4>3, <4>4 DEF Answers, AnswerIs
      <4>q. QED BY <2>3, <4>1, <4>2, <4>5, AnswerFits
    <3>q. QED BY <1>s, <2>4, <3>2, <3>3, OneMoves
  <2>6. CASE /\ UNCHANGED <<conn, out>>
             /\ serving' = [serving EXCEPT ![c] = "join"] /\ got' = [got EXCEPT ![c] = gen]
    <3>1. \A d \in Conns \ {c} : Live(d)' => Live(d) /\ SameSeen(d)
      BY <1>t, <1>n, <2>4, <2>6, ConnsAre DEF Live, SameSeen, ConnTypes
    <3>2. Serves(c) BY <1>t, <2>1, <2>4, <2>6, ConnsAre DEF Serves, ConnTypes
    <3>q. QED BY <1>s, <2>4, <2>6, <3>1, <3>2, WorkerFits
  <2>q. QED BY <2>2, <2>5, <2>6
<1>18. ASSUME NEW c \in Conns, SubscribeReply(c) PROVE FitsStep
  <2>1. UNCHANGED <<phase, link, cursor, shown, pending>> /\ len' = len /\ serving[c] = "joined"
    BY <1>18 DEF SubscribeReply, logVars, cliVars, seenVars
  <2>2. \/ /\ Reply(c, JoinedMsg) /\ serving' = [serving EXCEPT ![c] = "none"]
           /\ \A d \in Conns \ {c} : got'[d] = got[d]
    BY <1>t, <1>18 DEF SubscribeReply, Serve, ConnTypes
  <2>3. JoinedMsg \in Msgs BY <1>t DEF JoinedMsg, Msgs, ConnTypes
  <2>4. len <= len' /\ \A k \in Clients : Still(k) BY <1>n, <2>1 DEF Still
  <2>5. CASE Reply(c, JoinedMsg) /\ serving' = [serving EXCEPT ![c] = "none"]
             /\ \A d \in Conns \ {c} : got'[d] = got[d]
    <3>1. (IsQueued(c, JoinedMsg) \/ IsRefused(c)) /\ OthersSame(c) BY <1>t, <2>3, <2>5, ReplyIs
    <3>2. \A d \in Conns \ {c} : Live(d)' => Live(d) /\ SameSeen(d)
      BY <1>t, <1>n, <2>4, <2>5, <3>1, ConnsAre DEF Live, SameSeen, OthersSame, ConnTypes
    <3>3. ASSUME Live(c)' PROVE Live(c) /\ Fits(c)' /\ Carries(c)
      <4>1. Live(c) BY <1>t, <3>1, <3>3 DEF IsQueued, IsRefused, Live, OutTypes
      <4>2. RowTypes(c) /\ Fits(c) BY <4>1, RowsAre DEF ClientInv
      <4>3. out'[c] = Append(out[c], JoinedMsg) \/ out'[c] = out[c] BY <3>1 DEF IsQueued, IsRefused
      <4>4. serving'[c] = "none" /\ Still(Client(c)) /\ len' = len
        BY <1>t, <2>1, <2>4, <2>5, ConnsAre DEF ConnTypes
      <4>5. Answers(c, JoinedMsg) BY <2>1, <4>3, <4>4 DEF Answers, AnswerIs
      <4>q. QED BY <2>3, <4>1, <4>2, <4>5, AnswerFits
    <3>q. QED BY <1>s, <2>4, <3>2, <3>3, OneMoves
  <2>q. QED BY <2>2, <2>5
<1>19. ASSUME NEW c \in Conns, ReplayRead(c) PROVE FitsStep
  <2>1. UNCHANGED <<phase, link, cursor, shown, pending>> /\ len' = len /\ serving[c] = "replay"
    BY <1>19 DEF ReplayRead, logVars, cliVars, seenVars
  <2>2. \/ /\ Reply(c, ErrorMsg) /\ serving' = [serving EXCEPT ![c] = "none"]
           /\ \A d \in Conns \ {c} : got'[d] = got[d]
        \/ UNCHANGED <<conn, out>> /\ serving' = [serving EXCEPT ![c] = "answer"] /\ got' = [got EXCEPT ![c] = len]
    BY <1>t, <1>19 DEF ReplayRead, Serve, ConnTypes
  <2>3. ErrorMsg \in Msgs BY <1>t DEF ErrorMsg, Msgs, ConnTypes
  <2>4. len <= len' /\ \A k \in Clients : Still(k) BY <1>n, <2>1 DEF Still
  <2>5. CASE Reply(c, ErrorMsg) /\ serving' = [serving EXCEPT ![c] = "none"]
             /\ \A d \in Conns \ {c} : got'[d] = got[d]
    <3>1. (IsQueued(c, ErrorMsg) \/ IsRefused(c)) /\ OthersSame(c) BY <1>t, <2>3, <2>5, ReplyIs
    <3>2. \A d \in Conns \ {c} : Live(d)' => Live(d) /\ SameSeen(d)
      BY <1>t, <1>n, <2>4, <2>5, <3>1, ConnsAre DEF Live, SameSeen, OthersSame, ConnTypes
    <3>3. ASSUME Live(c)' PROVE Live(c) /\ Fits(c)' /\ Carries(c)
      <4>1. Live(c) BY <1>t, <3>1, <3>3 DEF IsQueued, IsRefused, Live, OutTypes
      <4>2. RowTypes(c) /\ Fits(c) BY <4>1, RowsAre DEF ClientInv
      <4>3. out'[c] = Append(out[c], ErrorMsg) \/ out'[c] = out[c] BY <3>1 DEF IsQueued, IsRefused
      <4>4. serving'[c] = "none" /\ Still(Client(c)) /\ len' = len
        BY <1>t, <2>1, <2>4, <2>5, ConnsAre DEF ConnTypes
      <4>5. Answers(c, ErrorMsg) BY <2>1, <4>3, <4>4 DEF Answers, AnswerIs
      <4>q. QED BY <2>3, <4>1, <4>2, <4>5, AnswerFits
    <3>q. QED BY <1>s, <2>4, <3>2, <3>3, OneMoves
  <2>6. CASE /\ UNCHANGED <<conn, out>>
             /\ serving' = [serving EXCEPT ![c] = "answer"] /\ got' = [got EXCEPT ![c] = len]
    <3>1. \A d \in Conns \ {c} : Live(d)' => Live(d) /\ SameSeen(d)
      BY <1>t, <1>n, <2>4, <2>6, ConnsAre DEF Live, SameSeen, ConnTypes
    <3>2. Serves(c) BY <1>t, <2>1, <2>4, <2>6, ConnsAre DEF Serves, ConnTypes
    <3>q. QED BY <1>s, <2>4, <2>6, <3>1, <3>2, WorkerFits
  <2>q. QED BY <2>2, <2>5, <2>6
<1>20. ASSUME NEW c \in Conns, ReplayAnswer(c) PROVE FitsStep
  <2>1. UNCHANGED <<phase, link, cursor, shown, pending>> /\ len' = len /\ serving[c] = "answer"
    BY <1>20 DEF ReplayAnswer, logVars, cliVars, seenVars
  <2>2. \/ /\ Reply(c, ReplayMsg(got[c])) /\ serving' = [serving EXCEPT ![c] = "none"]
           /\ \A d \in Conns \ {c} : got'[d] = got[d]
    BY <1>t, <1>20 DEF ReplayAnswer, Serve, ConnTypes
  <2>3. ReplayMsg(got[c]) \in Msgs BY <1>t DEF ReplayMsg, Msgs, ConnTypes
  <2>4. len <= len' /\ \A k \in Clients : Still(k) BY <1>n, <2>1 DEF Still
  <2>5. CASE Reply(c, ReplayMsg(got[c])) /\ serving' = [serving EXCEPT ![c] = "none"]
             /\ \A d \in Conns \ {c} : got'[d] = got[d]
    <3>1. (IsQueued(c, ReplayMsg(got[c])) \/ IsRefused(c)) /\ OthersSame(c)
      BY <1>t, <2>3, <2>5, ReplyIs
    <3>2. \A d \in Conns \ {c} : Live(d)' => Live(d) /\ SameSeen(d)
      BY <1>t, <1>n, <2>4, <2>5, <3>1, ConnsAre DEF Live, SameSeen, OthersSame, ConnTypes
    <3>3. ASSUME Live(c)' PROVE Live(c) /\ Fits(c)' /\ Carries(c)
      <4>1. Live(c) BY <1>t, <3>1, <3>3 DEF IsQueued, IsRefused, Live, OutTypes
      <4>2. RowTypes(c) /\ Fits(c) BY <4>1, RowsAre DEF ClientInv
      <4>3. out'[c] = Append(out[c], ReplayMsg(got[c])) \/ out'[c] = out[c]
        BY <3>1 DEF IsQueued, IsRefused
      <4>4. serving'[c] = "none" /\ Still(Client(c)) /\ len' = len
        BY <1>t, <2>1, <2>4, <2>5, ConnsAre DEF ConnTypes
      <4>5. Answers(c, ReplayMsg(got[c])) BY <2>1, <4>3, <4>4 DEF Answers, AnswerIs
      <4>q. QED BY <2>3, <4>1, <4>2, <4>5, AnswerFits
    <3>q. QED BY <1>s, <2>4, <3>2, <3>3, OneMoves
  <2>q. QED BY <2>2, <2>5
<1>21. ASSUME NEW c \in Conns, SubscribeJoin(c) PROVE FitsStep
  <2>1. UNCHANGED <<phase, link, cursor, shown, pending>> /\ len' = len /\ serving[c] = "join"
    BY <1>21 DEF SubscribeJoin, logVars, seenVars
  <2>2. /\ UNCHANGED <<conn, out>>
        /\ serving' = [serving EXCEPT ![c] = "joined"] /\ got' = [got EXCEPT ![c] = 0]
    BY <1>21 DEF SubscribeJoin, Serve
  <2>4. len <= len' /\ \A k \in Clients : Still(k) BY <1>n, <2>1 DEF Still
  <2>5. \A d \in Conns \ {c} : Live(d)' => Live(d) /\ SameSeen(d)
    BY <1>t, <1>n, <2>2, <2>4, ConnsAre DEF Live, SameSeen, ConnTypes
  <2>6. Serves(c) BY <1>t, <2>1, <2>2, <2>4, ConnsAre DEF Serves, ConnTypes
  <2>q. QED BY <1>s, <2>2, <2>4, <2>5, <2>6, WorkerFits
<1>22. ASSUME NEW c \in Conns, EventArrives(c) PROVE FitsStep
  <2> DEFINE k == Client(c)
  <2>1. /\ Live(c) /\ link[k] = c /\ out[c] # <<>> /\ Head(out[c]).kind = "event"
        /\ out' = [out EXCEPT ![c] = Tail(@)]
    BY <1>22 DEF EventArrives, Arrives, Live
  <2>2. UNCHANGED <<conn, got, link>> /\ len' = len BY <1>22 DEF EventArrives, logVars
  <2>3. RowTypes(c) /\ RowTypes(c)' /\ Fits(c) /\ k \in Clients /\ Shows(k)
    BY <2>1, RowsAre, RowsAreNext, ConnsAre DEF ClientInv
  <2>4. TakesFirst(c) BY <1>t, <2>1, <2>2 DEF TakesFirst, OutTypes
  <2>5. UNCHANGED <<serving, phase>> BY <1>22 DEF EventArrives
  <2>6. /\ Fits(c)' /\ Carries(c) /\ Shows(k)'
        /\ \A h \in Clients \ {k} : Still(h)
    <3>1. CASE phase[k] = "streaming" /\ Show(k, <<Head(out[c]).at>>) /\ UNCHANGED pending
      <4>1. Others(k) BY <2>1, <2>3, <2>4, <3>1, EventShown
      <4>2. PICK m \in 1..len : /\ Head(out[c]).at <= m /\ shown[k] \subseteq 1..m
                                /\ shown'[k] = 1..m /\ cursor'[k] \in 1..m
        BY <2>1, <2>3, <2>4, <3>1, EventShown
      <4>3. Takes(c, m) BY <2>1, <2>4, <2>5, <3>1, <4>2 DEF Takes
      <4>4. \A h \in Clients \ {k} : Still(h) BY <2>2, <2>5, <3>1, <4>1 DEF Others, Still
      <4>q. QED BY <2>3, <4>3, <4>4, TakenFits
    <3>2. CASE /\ phase[k] \in {"joining", "replaying"}
               /\ pending' = [pending EXCEPT ![k] = Append(@, Head(out[c]).at)]
               /\ UNCHANGED <<shown, cursor>>
      <4>1. Keeps(c) BY <1>t, <2>1, <2>3, <2>4, <2>5, <3>2 DEF Keeps, LinkTypes
      <4>2. \A h \in Clients \ {k} : Still(h) BY <1>t, <2>2, <2>5, <3>2 DEF Still, LinkTypes
      <4>q. QED BY <2>3, <4>1, <4>2, KeptFits
    <3>q. QED BY <1>22, <3>1, <3>2 DEF EventArrives
  <2>7. \A d \in Conns \ {c} : serving'[d] = serving[d] BY <2>5
  <2>8. FitsArrive(c) BY <1>t, <2>1, <2>2, <2>5, <2>6, <2>7 DEF FitsArrive, OutTypes
  <2>q. QED BY <2>1, <2>8, ArriveFits
<1>23. ASSUME NEW c \in Conns, JoinedArrives(c) PROVE FitsStep
  <2> DEFINE k == Client(c)
  <2>1. /\ Live(c) /\ link[k] = c /\ out[c] # <<>> /\ Head(out[c]).kind = "joined"
        /\ out' = [out EXCEPT ![c] = Tail(@)]
    BY <1>23 DEF JoinedArrives, Arrives, Live
  <2>2. UNCHANGED <<conn, got, link>> /\ len' = len BY <1>23 DEF JoinedArrives, logVars
  <2>3. RowTypes(c) /\ RowTypes(c)' /\ Fits(c) /\ k \in Clients /\ Shows(k)
    BY <2>1, RowsAre, RowsAreNext, ConnsAre DEF ClientInv
  <2>4. TakesFirst(c) BY <1>t, <2>1, <2>2 DEF TakesFirst, OutTypes
  <2>5. /\ serving' = [serving EXCEPT ![c] = "replay"] /\ phase' = [phase EXCEPT ![k] = "replaying"]
        /\ UNCHANGED <<pending, shown, cursor>>
    BY <1>23 DEF JoinedArrives, Serve, seenVars
  <2>6. /\ Fits(c)' /\ Carries(c) /\ Shows(k)'
        /\ \A h \in Clients \ {k} : Still(h)
    <3>1. Joins(c) BY <1>t, <2>1, <2>3, <2>4, <2>5 DEF Joins, LinkTypes, ConnTypes
    <3>2. \A h \in Clients \ {k} : Still(h) BY <1>t, <2>2, <2>5 DEF Still, LinkTypes
    <3>q. QED BY <2>3, <3>1, <3>2, JoinedFits
  <2>7. \A d \in Conns \ {c} : serving'[d] = serving[d] BY <1>t, <2>5 DEF ConnTypes
  <2>8. FitsArrive(c) BY <1>t, <2>1, <2>2, <2>5, <2>6, <2>7 DEF FitsArrive, OutTypes
  <2>q. QED BY <2>1, <2>8, ArriveFits
<1>24. ASSUME NEW c \in Conns, ReplayArrives(c) PROVE FitsStep
  <2> DEFINE k == Client(c)
  <2>1. /\ Live(c) /\ link[k] = c /\ out[c] # <<>> /\ Head(out[c]).kind = "replay"
        /\ out' = [out EXCEPT ![c] = Tail(@)]
    BY <1>24 DEF ReplayArrives, Arrives, Live
  <2>2. UNCHANGED <<conn, got, link>> /\ len' = len BY <1>24 DEF ReplayArrives, logVars
  <2>3. RowTypes(c) /\ RowTypes(c)' /\ Fits(c) /\ k \in Clients /\ Shows(k)
    BY <2>1, RowsAre, RowsAreNext, ConnsAre DEF ClientInv
  <2>4. TakesFirst(c) BY <1>t, <2>1, <2>2 DEF TakesFirst, OutTypes
  <2>5. /\ serving' = serving /\ phase' = [phase EXCEPT ![k] = "streaming"]
        /\ pending' = [pending EXCEPT ![k] = <<>>]
    BY <1>24 DEF ReplayArrives
  <2>6. /\ Fits(c)' /\ Carries(c) /\ Shows(k)'
        /\ \A h \in Clients \ {k} : Still(h)
    <3>1. PICK q : IsReplay(q, Head(out[c]).at, cursor[k], pending[k]) /\ Show(k, q)
      BY <1>24, <2>1, <2>3, <2>4, ReplayTaken
    <3>2. Others(k) BY <2>1, <2>3, <2>4, <3>1, ReplayShown
    <3>3. PICK m \in 1..len : /\ Head(out[c]).at <= m /\ shown[k] \subseteq 1..m
                              /\ shown'[k] = 1..m /\ cursor'[k] \in 0..m
                              /\ \A i \in 1..Len(pending[k]) : pending[k][i] <= m
      BY <2>1, <2>3, <2>4, <3>1, ReplayShown
    <3>4. Catches(c, m) BY <1>t, <2>1, <2>3, <2>4, <2>5, <3>3 DEF Catches, LinkTypes
    <3>5. \A h \in Clients \ {k} : Still(h) BY <1>t, <2>2, <2>5, <3>2 DEF Others, Still, LinkTypes
    <3>q. QED BY <2>3, <3>4, <3>5, CaughtFits
  <2>7. \A d \in Conns \ {c} : serving'[d] = serving[d] BY <2>5
  <2>8. FitsArrive(c) BY <1>t, <2>1, <2>2, <2>5, <2>6, <2>7 DEF FitsArrive, OutTypes
  <2>q. QED BY <2>1, <2>8, ArriveFits
<1>25. ASSUME NEW k \in Clients, Dial(k) PROVE FitsStep
  <2>1. PICK i \in Slots : /\ Vacant(<<k, i>>)
                          /\ conn' = [conn EXCEPT ![<<k, i>>] = "open"]
                          /\ out' = [out EXCEPT ![<<k, i>>] = <<>>]
                          /\ link' = [link EXCEPT ![k] = <<k, i>>]
                          /\ serving' = [serving EXCEPT ![<<k, i>>] = "subscribe"]
    BY <1>25 DEF Dial, Serve
  <2> DEFINE c == <<k, i>>
  <2>2. c \in Conns /\ Client(c) = k BY ConnsAre
  <2>3. c \in Conns /\ Client(c) = k /\ Vacant(c)
    BY <2>1, <2>2
  <2> HIDE DEF c
  <2>a. /\ conn' = [conn EXCEPT ![c] = "open"] /\ out' = [out EXCEPT ![c] = <<>>]
        /\ link' = [link EXCEPT ![k] = c] /\ serving' = [serving EXCEPT ![c] = "subscribe"]
    BY <2>1 DEF c
  <2>4. /\ phase[k] = "down" /\ phase' = [phase EXCEPT ![k] = "joining"]
        /\ UNCHANGED <<got, cursor, shown, pending>> /\ len' = len
    BY <1>25 DEF Dial, logVars, seenVars
  <2>5. link[k] = NoConn /\ pending[k] = <<>> BY <2>4 DEF LinkInv, ClientInv, Shows
  <2>6. ASSUME NEW d \in Conns \ {c}, Live(d)' PROVE Live(d) /\ SameSeen(d)
    <3>1. /\ conn'[d] = conn[d] /\ out'[d] = out[d] /\ serving'[d] = serving[d] /\ got'[d] = got[d]
      BY <1>t, <2>a, <2>4 DEF OutTypes, ConnTypes
    <3>2. Live(d) BY <2>6, <3>1 DEF Live
    <3>3. Client(d) # k BY <2>5, <3>2, ConnsAre DEF LinkInv
    <3>4. Still(Client(d)) BY <1>t, <2>a, <2>4, <3>3, ConnsAre DEF Still, LinkTypes
    <3>q. QED BY <1>n, <2>4, <3>1, <3>2, <3>4 DEF SameSeen
  <2>7. IsNew(c) BY <1>t, <2>3, <2>a, <2>4, <2>5 DEF IsNew, OutTypes, LinkTypes, ConnTypes
  <2>8. ~Live(c) BY <2>3 DEF Vacant, Live
  <2>9. ASSUME NEW h \in Clients PROVE Shows(h)'
    <3>1. CASE h = k
      <4>1. Shows(k) /\ phase'[k] = "joining" BY <1>t, <2>4 DEF ClientInv, LinkTypes
      <4>q. QED BY <2>4, <2>5, <3>1, <4>1, EmptyIs DEF Shows
    <3>2. CASE h # k
      <4>1. Still(h) BY <1>t, <2>a, <2>4, <3>2 DEF Still, LinkTypes
      <4>q. QED BY <1>n, <2>4, <4>1, StillShows DEF ClientInv
    <3>q. QED BY <3>1, <3>2
  <2>q. QED BY <2>3, <2>6, <2>7, <2>8, <2>9, NewFits, OneMoves
<1>26. ASSUME Restart PROVE FitsStep
  <2>1. conn' = [c \in Conns |-> "none"] /\ HangUp(Clients) /\ UNCHANGED <<len, cursor, shown>>
    BY <1>26 DEF Restart
  <2>2. \A k \in Clients : IsDown(k) BY <1>t, <2>1, HangUpIs
  <2>3. \A c \in Conns : ~Live(c)' BY <2>1 DEF Live
  <2>4. \A k \in Clients : Shows(k)' BY <2>1, <2>2, DownShows DEF ClientInv
  <2>q. QED BY <2>3, <2>4 DEF FitsStep
<1>27. CASE UNCHANGED vars
  <2>1. UNCHANGED <<conn, out, serving, got, phase, link, cursor, shown, pending, len>>
    BY <1>27 DEF vars
  <2>2. len <= len' /\ \A k \in Clients : Still(k) BY <1>n, <2>1 DEF Still
  <2>3. \A d \in Conns : Live(d)' => Live(d) /\ SameSeen(d)
    BY <1>n, <2>1, <2>2, ConnsAre DEF Live, SameSeen
  <2>q. QED BY <1>s, <2>2, <2>3, NoneMoves
<1>q. QED BY <1>1, <1>2, <1>3, <1>4, <1>5, <1>6, <1>7, <1>8, <1>9, <1>10, <1>11, <1>12, <1>13,
   <1>14, <1>15, <1>16, <1>17, <1>18, <1>19, <1>20, <1>21, <1>22, <1>23, <1>24, <1>25, <1>26,
   <1>27 DEF Next, PumpStep, ConnStep, ClientStep

-----------------------------------------------------------------------------
(* The fan-outs and their pumps.                                           *)

(* A channel holds events in their order, up to the newest while it is     *)
(* fed, and follows what its pump holds.  Only the fan-out that is         *)
(* registered is fed, and its pump runs.                                   *)
ChanRow(f) ==
  /\ \A i \in 1..Len(chan[f]) : chan[f][i] \in 2..len
  /\ \A i, j \in 1..Len(chan[f]) : j = i + 1 => chan[f][j] = chan[f][i] + 1
  /\ chan[f] # <<>> /\ stream[f] = "fed" => chan[f][Len(chan[f])] = len

HeldRow(f) ==
  pump[f] \in {"snap", "send"} =>
    /\ held[f] \in 2..len
    /\ chan[f] # <<>> => chan[f][1] = held[f] + 1
    /\ chan[f] = <<>> /\ stream[f] = "fed" => held[f] = len

PumpRow(f) ==
  /\ stream[f] = "fed" => registered = f
  /\ registered = f => pump[f] \in {"recv", "snap", "send"}
  /\ pump[f] \in {"none", "check", "drop"} => chan[f] = <<>> /\ stream[f] = "none"
  /\ at[f] # NoConn => pump[f] = "send"

FanRow(f) == ChanRow(f) /\ HeldRow(f) /\ PumpRow(f)
FanInv == \A f \in Fanouts : FanRow(f)

(* The row of a fan-out, as the provers take it. *)
FanRowTypes(f) ==
  /\ chan[f] \in Seq(Nat) /\ Len(chan[f]) \in Nat
  /\ \A i \in 1..Len(chan[f]) : chan[f][i] \in Nat
  /\ chan[f] # <<>> => 1 \in 1..Len(chan[f]) /\ Len(chan[f]) \in 1..Len(chan[f])
  /\ chan[f] = <<>> => Len(chan[f]) = 0
  /\ held[f] \in Nat /\ len \in Nat \ {0}

LEMMA FanRowsAre == ASSUME Types, NEW f \in Fanouts PROVE FanRowTypes(f)
<1>1. chan[f] \in Seq(Nat) BY DEF Types, FanTypes, Events
<1>2. Len(chan[f]) \in Nat /\ \A i \in 1..Len(chan[f]) : chan[f][i] \in Nat
  BY <1>1, LenProperties, ElementOfSeq
<1>3. held[f] \in Nat /\ len \in Nat \ {0} BY DEF Types, LogTypes, PumpTypes
<1>4. chan[f] # <<>> => Len(chan[f]) # 0 BY <1>1, EmptySeq
<1>5. chan[f] = <<>> => Len(chan[f]) = 0 BY EmptyIs
<1>q. QED BY <1>1, <1>2, <1>3, <1>4, <1>5 DEF FanRowTypes

RowSame(f) ==
  /\ chan'[f] = chan[f] /\ stream'[f] = stream[f] /\ pump'[f] = pump[f] /\ held'[f] = held[f]
  /\ at'[f] = at[f]

LEMMA RowKept ==
  ASSUME NEW f \in Fanouts, FanRow(f), RowSame(f), registered' = f <=> registered = f, len' = len
  PROVE  FanRow(f)'
BY DEF FanRow, ChanRow, HeldRow, PumpRow, RowSame

(* An event is recorded. *)
LEMMA RowRecord ==
  ASSUME NEW f \in Fanouts, FanRowTypes(f), FanRow(f), TakesOrEnds(f, len + 1), len' = len + 1,
         pump'[f] = pump[f], held'[f] = held[f], at'[f] = at[f], registered' = registered
  PROVE  FanRow(f)'
<1>1. CASE /\ stream[f] = "fed" /\ stream'[f] = "fed" /\ chan'[f] = Append(chan[f], len + 1)
  <2> DEFINE n == Len(chan[f])
  <2>1. /\ n \in Nat /\ Len(chan'[f]) = n + 1 /\ chan'[f][n + 1] = len + 1 /\ chan'[f] # <<>>
        /\ \A i \in 1..n : chan'[f][i] = chan[f][i]
    BY <1>1, AppendIs DEF FanRowTypes
  <2>2. chan[f] # <<>> => chan[f][n] = len /\ n \in 1..n BY <1>1 DEF FanRow, ChanRow, FanRowTypes
  <2>3. chan[f] = <<>> => n = 0 BY DEF FanRowTypes
  <2>4. ChanRow(f)'
    <3>1. \A i \in 1..(n + 1) : chan'[f][i] \in 2..(len + 1)
      <4>1. \A i \in 1..n : chan[f][i] \in 2..len BY DEF FanRow, ChanRow
      <4>2. len + 1 \in 2..(len + 1) BY DEF FanRowTypes
      <4>3. \A i \in 1..(n + 1) : i \in 1..n \/ i = n + 1 BY <2>1
      <4> SUFFICES ASSUME NEW i \in 1..(n + 1) PROVE chan'[f][i] \in 2..(len + 1) OBVIOUS
      <4>4. CASE i \in 1..n
        <5>1. chan'[f][i] = chan[f][i] /\ chan[f][i] \in 2..len BY <2>1, <4>1, <4>4
        <5>q. QED BY <5>1 DEF FanRowTypes
      <4>q. QED BY <2>1, <4>2, <4>3, <4>4
    <3>2. \A i, j \in 1..(n + 1) : j = i + 1 => chan'[f][j] = chan'[f][i] + 1
      <4> SUFFICES ASSUME NEW i \in 1..(n + 1), NEW j \in 1..(n + 1), j = i + 1
                   PROVE  chan'[f][j] = chan'[f][i] + 1
        OBVIOUS
      <4>1. CASE j = n + 1
        <5>1. i = n /\ chan[f] # <<>> BY <2>1, <2>3, <4>1
        <5>q. QED BY <2>1, <2>2, <4>1, <5>1
      <4>2. CASE j # n + 1
        <5>1. i \in 1..n /\ j \in 1..n BY <2>1, <4>2
        <5>2. chan[f][j] = chan[f][i] + 1 BY <5>1 DEF FanRow, ChanRow
        <5>q. QED BY <2>1, <5>1, <5>2
      <4>q. QED BY <4>1, <4>2
    <3>q. QED BY <2>1, <3>1, <3>2 DEF ChanRow
  <2>5. HeldRow(f)'
    <3>1. pump[f] \in {"snap", "send"} => held[f] \in 2..(len + 1)
      BY DEF FanRow, HeldRow, FanRowTypes
    <3>2. pump[f] \in {"snap", "send"} => chan'[f][1] = held[f] + 1
      BY <1>1, <2>1, <2>2, <2>3 DEF FanRow, HeldRow, FanRowTypes
    <3>q. QED BY <2>1, <3>1, <3>2 DEF HeldRow
  <2>6. PumpRow(f)' BY <1>1, <2>1 DEF FanRow, PumpRow
  <2>q. QED BY <2>4, <2>5, <2>6 DEF FanRow
<1>2. CASE /\ chan'[f] = chan[f] /\ stream'[f] # "fed"
           /\ stream'[f] = stream[f] \/ stream[f] = "fed"
  <2>1. ChanRow(f)' BY <1>2 DEF FanRow, ChanRow, FanRowTypes
  <2>2. HeldRow(f)' BY <1>2 DEF FanRow, HeldRow, FanRowTypes
  <2>3. PumpRow(f)' BY <1>2 DEF FanRow, PumpRow
  <2>q. QED BY <2>1, <2>2, <2>3 DEF FanRow
<1>q. QED BY <1>1, <1>2 DEF TakesOrEnds

(* The pump takes the first event of its channel. *)
LEMMA RowReceive ==
  ASSUME NEW f \in Fanouts, FanRowTypes(f), FanRow(f), chan[f] # <<>>, pump[f] = "recv",
         held'[f] = Head(chan[f]), chan'[f] = Tail(chan[f]), pump'[f] = "snap",
         stream'[f] = stream[f], at'[f] = at[f], registered' = registered, len' = len
  PROVE  FanRow(f)'
<1> DEFINE n == Len(chan[f])
<1>1. /\ n \in Nat \ {0} /\ Len(chan'[f]) = n - 1 /\ Head(chan[f]) = chan[f][1] /\ 1 \in 1..n
      /\ chan'[f] \in Seq(Nat) /\ \A i \in 1..(n - 1) : chan'[f][i] = chan[f][i + 1]
  BY TailIs DEF FanRowTypes
<1>2. ChanRow(f)'
  <2>1. \A i \in 1..(n - 1) : i + 1 \in 1..n BY <1>1
  <2>2. \A i \in 1..(n - 1) : chan'[f][i] \in 2..len BY <1>1, <2>1 DEF FanRow, ChanRow
  <2>3. \A i, j \in 1..(n - 1) : j = i + 1 => chan'[f][j] = chan'[f][i] + 1
    <3> SUFFICES ASSUME NEW i \in 1..(n - 1), NEW j \in 1..(n - 1), j = i + 1
                 PROVE  chan'[f][j] = chan'[f][i] + 1
      OBVIOUS
    <3>1. i + 1 \in 1..n /\ j + 1 \in 1..n /\ j + 1 = (i + 1) + 1 BY <2>1
    <3>2. chan[f][j + 1] = chan[f][i + 1] + 1 BY <3>1 DEF FanRow, ChanRow
    <3>q. QED BY <1>1, <3>2
  <2>4. ASSUME chan'[f] # <<>>, stream[f] = "fed" PROVE chan'[f][n - 1] = len
    <3>1. n - 1 \in 1..(n - 1) BY <1>1, <2>4, EmptySeq
    <3>2. chan'[f][n - 1] = chan[f][n] BY <1>1, <3>1
    <3>q. QED BY <2>4, <3>2 DEF FanRow, ChanRow
  <2>q. QED BY <1>1, <2>2, <2>3, <2>4 DEF ChanRow
<1>3. HeldRow(f)'
  <2>1. held'[f] = chan[f][1] /\ held'[f] \in 2..len BY <1>1 DEF FanRow, ChanRow
  <2>2. ASSUME chan'[f] # <<>> PROVE chan'[f][1] = held'[f] + 1
    <3>1. 1 \in 1..(n - 1) /\ 2 \in 1..n BY <1>1, <2>2, EmptySeq
    <3>2. chan'[f][1] = chan[f][2] BY <1>1, <3>1
    <3>3. chan[f][2] = chan[f][1] + 1 BY <1>1, <3>1 DEF FanRow, ChanRow
    <3>q. QED BY <2>1, <3>2, <3>3
  <2>3. ASSUME chan'[f] = <<>>, stream[f] = "fed" PROVE held'[f] = len
    <3>0. Len(chan'[f]) = 0 BY <2>3, EmptyIs
    <3>1. n = 1 BY <1>1, <3>0
    <3>q. QED BY <2>1, <2>3, <3>1 DEF FanRow, ChanRow
  <2>q. QED BY <2>1, <2>2, <2>3 DEF HeldRow
<1>4. PumpRow(f)' BY DEF FanRow, PumpRow
<1>q. QED BY <1>2, <1>3, <1>4 DEF FanRow

(* The pump goes on with what it holds, or has sent it. *)
LEMMA RowSends ==
  ASSUME NEW f \in Fanouts, FanRow(f), chan'[f] = chan[f], stream'[f] = stream[f],
         registered' = registered, len' = len,
         pump[f] \in {"snap", "send"},
         \/ pump'[f] = "recv" /\ at'[f] = NoConn
         \/ pump'[f] = "send" /\ held'[f] = held[f]
  PROVE  FanRow(f)'
<1>1. ChanRow(f)' BY DEF FanRow, ChanRow
<1>2. HeldRow(f)' BY DEF FanRow, HeldRow
<1>3. PumpRow(f)' BY DEF FanRow, PumpRow
<1>q. QED BY <1>1, <1>2, <1>3 DEF FanRow

(* The pump is done with its channel, and the fan-out is not registered.   *)
LEMMA RowEnded ==
  ASSUME NEW f \in Fanouts, FanRow(f), chan'[f] = <<>>, stream'[f] = "none", registered' # f,
         pump'[f] \in {"none", "check", "drop"}, at'[f] = NoConn
  PROVE  FanRow(f)'
<1>1. Len(chan'[f]) = 0 BY EmptyIs
<1>q. QED BY <1>1 DEF FanRow, ChanRow, HeldRow, PumpRow

(* A stream that is cut off. *)
LEMMA RowCut ==
  ASSUME NEW f \in Fanouts, FanRow(f), chan'[f] = chan[f], pump'[f] = pump[f], held'[f] = held[f],
         at'[f] = at[f], len' = len, stream[f] = "fed" \/ pump[f] \in {"recv", "snap", "send"},
         stream'[f] = "closed", registered' = f => registered = f
  PROVE  FanRow(f)'
<1>1. pump[f] \notin {"none", "check", "drop"} BY DEF FanRow, PumpRow
<1>q. QED BY <1>1 DEF FanRow, ChanRow, HeldRow, PumpRow

LEMMA FanStep == ASSUME Types, Types', FanInv, [Next]_vars PROVE FanInv'
<1>t. FanTypes /\ PumpTypes /\ len \in Nat BY DEF Types, LogTypes
<1>r. \A f \in Fanouts : FanRow(f) /\ FanRowTypes(f) BY FanRowsAre DEF FanInv
<1>k. ASSUME NEW f \in Fanouts, UNCHANGED <<registered, chan, stream, len>>,
             \A g \in Fanouts \ {f} : pump'[g] = pump[g] /\ held'[g] = held[g] /\ at'[g] = at[g]
      PROVE  \A g \in Fanouts \ {f} : FanRow(g)'
  BY <1>r, <1>k, RowKept DEF RowSame
<1>1. ASSUME LogEvent PROVE FanInv'
  <2>1. /\ len' = len + 1 /\ Broadcast(len + 1)
        /\ UNCHANGED <<registered, pump, held, at>>
    BY <1>1 DEF LogEvent, Record, pumpVars
  <2>2. \A f \in Fanouts : TakesOrEnds(f, len + 1) BY <1>t, <2>1, BroadcastIs
  <2>q. QED BY <1>r, <2>1, <2>2, RowRecord DEF FanInv
<1>2. ASSUME ArchiveNotice PROVE FanInv'
  <2>1. /\ len' = len + 1 /\ Broadcast(len + 1)
        /\ UNCHANGED <<registered, pump, held, at>>
    BY <1>2 DEF ArchiveNotice, Record, pumpVars
  <2>2. \A f \in Fanouts : TakesOrEnds(f, len + 1) BY <1>t, <2>1, BroadcastIs
  <2>q. QED BY <1>r, <2>1, <2>2, RowRecord DEF FanInv
<1>3. ASSUME RestoreNotice PROVE FanInv'
  <2>1. /\ len' = len + 1 /\ Broadcast(len + 1)
        /\ UNCHANGED <<registered, pump, held, at>>
    BY <1>3 DEF RestoreNotice, Record, pumpVars
  <2>2. \A f \in Fanouts : TakesOrEnds(f, len + 1) BY <1>t, <2>1, BroadcastIs
  <2>q. QED BY <1>r, <2>1, <2>2, RowRecord DEF FanInv
<1>4. ASSUME ArchiveMove PROVE FanInv'
  <2>1. /\ stream' = [f \in Fanouts |-> IF stream[f] = "fed" THEN "closed" ELSE stream[f]]
        /\ UNCHANGED <<registered, chan, pump, held, at, len>>
    BY <1>4 DEF ArchiveMove, pumpVars
  <2>2. ASSUME NEW f \in Fanouts PROVE FanRow(f)'
    <3>1. CASE stream[f] = "fed" BY <1>r, <2>1, <3>1, RowCut
    <3>2. CASE stream[f] # "fed" BY <1>r, <2>1, <3>2, RowKept DEF RowSame
    <3>q. QED BY <3>1, <3>2
  <2>q. QED BY <2>2 DEF FanInv
<1>5. ASSUME RestoreMove PROVE FanInv'
  <2>1. UNCHANGED <<registered, chan, stream, pump, held, at, len>>
    BY <1>5 DEF RestoreMove, logVars, fanVars, pumpVars
  <2>q. QED BY <1>r, <2>1, RowKept DEF RowSame, FanInv
<1>6. ASSUME NEW c \in Conns, CloseNow(c) PROVE FanInv'
  <2>1. UNCHANGED <<registered, chan, stream, pump, held, at, len>>
    BY <1>6 DEF CloseNow, logVars, fanVars, pumpVars
  <2>q. QED BY <1>r, <2>1, RowKept DEF RowSame, FanInv
<1>7. ASSUME NEW c \in Conns, Lose(c) PROVE FanInv'
  <2>1. UNCHANGED <<registered, chan, stream, pump, held, at, len>>
    BY <1>7 DEF Lose, logVars, fanVars, pumpVars
  <2>q. QED BY <1>r, <2>1, RowKept DEF RowSame, FanInv
<1>8. ASSUME NEW c \in Conns, ErrorArrives(c) PROVE FanInv'
  <2>1. UNCHANGED <<registered, chan, stream, pump, held, at, len>>
    BY <1>8 DEF ErrorArrives, logVars, fanVars, pumpVars
  <2>q. QED BY <1>r, <2>1, RowKept DEF RowSame, FanInv
<1>9. ASSUME NEW c \in Conns, SubscribeGet(c) PROVE FanInv'
  <2>1. UNCHANGED <<registered, chan, stream, pump, held, at, len>>
    BY <1>9 DEF SubscribeGet, logVars, fanVars, pumpVars
  <2>q. QED BY <1>r, <2>1, RowKept DEF RowSame, FanInv
<1>10. ASSUME NEW c \in Conns, SubscribeReply(c) PROVE FanInv'
  <2>1. UNCHANGED <<registered, chan, stream, pump, held, at, len>>
    BY <1>10 DEF SubscribeReply, logVars, fanVars, pumpVars
  <2>q. QED BY <1>r, <2>1, RowKept DEF RowSame, FanInv
<1>11. ASSUME NEW c \in Conns, ReplayRead(c) PROVE FanInv'
  <2>1. UNCHANGED <<registered, chan, stream, pump, held, at, len>>
    BY <1>11 DEF ReplayRead, logVars, fanVars, pumpVars
  <2>q. QED BY <1>r, <2>1, RowKept DEF RowSame, FanInv
<1>12. ASSUME NEW c \in Conns, ReplayAnswer(c) PROVE FanInv'
  <2>1. UNCHANGED <<registered, chan, stream, pump, held, at, len>>
    BY <1>12 DEF ReplayAnswer, logVars, fanVars, pumpVars
  <2>q. QED BY <1>r, <2>1, RowKept DEF RowSame, FanInv
<1>13. ASSUME NEW c \in Conns, EventArrives(c) PROVE FanInv'
  <2>1. UNCHANGED <<registered, chan, stream, pump, held, at, len>>
    BY <1>13 DEF EventArrives, logVars, fanVars, pumpVars
  <2>q. QED BY <1>r, <2>1, RowKept DEF RowSame, FanInv
<1>14. ASSUME NEW c \in Conns, JoinedArrives(c) PROVE FanInv'
  <2>1. UNCHANGED <<registered, chan, stream, pump, held, at, len>>
    BY <1>14 DEF JoinedArrives, logVars, fanVars, pumpVars
  <2>q. QED BY <1>r, <2>1, RowKept DEF RowSame, FanInv
<1>15. ASSUME NEW c \in Conns, ReplayArrives(c) PROVE FanInv'
  <2>1. UNCHANGED <<registered, chan, stream, pump, held, at, len>>
    BY <1>15 DEF ReplayArrives, logVars, fanVars, pumpVars
  <2>q. QED BY <1>r, <2>1, RowKept DEF RowSame, FanInv
<1>16. ASSUME NEW k \in Clients, Dial(k) PROVE FanInv'
  <2>1. UNCHANGED <<registered, chan, stream, pump, held, at, len>>
    BY <1>16 DEF Dial, logVars, fanVars, pumpVars
  <2>q. QED BY <1>r, <2>1, RowKept DEF RowSame, FanInv
<1>17. ASSUME NEW f \in Fanouts, PumpReceive(f) PROVE FanInv'
  <2>1. /\ pump[f] = "recv" /\ chan[f] # <<>> /\ held' = [held EXCEPT ![f] = Head(chan[f])]
        /\ chan' = [chan EXCEPT ![f] = Tail(@)] /\ pump' = [pump EXCEPT ![f] = "snap"]
        /\ UNCHANGED <<registered, stream, at, len>>
    BY <1>17 DEF PumpReceive, logVars
  <2>2. FanRow(f)' BY <1>t, <1>r, <2>1, RowReceive DEF FanTypes, PumpTypes
  <2>3. \A g \in Fanouts \ {f} : FanRow(g)'
    BY <1>t, <1>r, <2>1, RowKept DEF FanTypes, PumpTypes, RowSame
  <2>q. QED BY <2>2, <2>3 DEF FanInv
<1>18. ASSUME NEW f \in Fanouts, PumpSnapshot(f) PROVE FanInv'
  <2>1. UNCHANGED <<registered, chan, stream, len>> BY <1>18 DEF PumpSnapshot, logVars, fanVars
  <2>2. pump[f] \in {"snap", "send"} BY <1>18 DEF PumpSnapshot
  <2>5. at' = at /\ at[f] = NoConn BY <1>r, <1>18 DEF PumpSnapshot, FanRow, PumpRow
  <2>6. IsSent(f, Subscribers) BY <1>t, <1>18, SentIs DEF PumpSnapshot
  <2>3. \/ pump'[f] = "recv" /\ at'[f] = NoConn
        \/ pump'[f] = "send" /\ held'[f] = held[f]
    BY <2>5, <2>6 DEF IsSent
  <2>4. \A g \in Fanouts \ {f} : pump'[g] = pump[g] /\ held'[g] = held[g] /\ at'[g] = at[g]
    BY <2>5, <2>6 DEF IsSent
  <2>8. FanRow(f)' BY <1>r, <2>1, <2>2, <2>3, RowSends
  <2>9. \A g \in Fanouts \ {f} : FanRow(g)' BY <1>k, <2>1, <2>4
  <2>q. QED BY <2>8, <2>9 DEF FanInv
<1>19. ASSUME NEW f \in Fanouts, PumpPick(f) PROVE FanInv'
  <2>1. UNCHANGED <<registered, chan, stream, len>> BY <1>19 DEF PumpPick, logVars, fanVars
  <2>2. pump[f] \in {"snap", "send"} BY <1>19 DEF PumpPick
  <2>5. PICK c \in todo[f] : IF conn[c] = "open" THEN at' = [at EXCEPT ![f] = c] /\ UNCHANGED <<pump, held>>
                             ELSE Sent(f, todo[f] \ {c}) /\ UNCHANGED at
    BY <1>19 DEF PumpPick
  <2>6. at[f] = NoConn /\ pump[f] = "send" BY <1>19 DEF PumpPick
  <2>7. \/ at' = [at EXCEPT ![f] = c] /\ UNCHANGED <<pump, held>>
        \/ at' = at /\ IsSent(f, todo[f] \ {c})
    BY <1>t, <2>5, SentIs
  <2>3. \/ pump'[f] = "recv" /\ at'[f] = NoConn
        \/ pump'[f] = "send" /\ held'[f] = held[f]
    BY <2>6, <2>7 DEF IsSent
  <2>4. \A g \in Fanouts \ {f} : pump'[g] = pump[g] /\ held'[g] = held[g] /\ at'[g] = at[g]
    BY <1>t, <2>7 DEF IsSent, PumpTypes
  <2>8. FanRow(f)' BY <1>r, <2>1, <2>2, <2>3, RowSends
  <2>9. \A g \in Fanouts \ {f} : FanRow(g)' BY <1>k, <2>1, <2>4
  <2>q. QED BY <2>8, <2>9 DEF FanInv
<1>20. ASSUME NEW f \in Fanouts, PumpPut(f) PROVE FanInv'
  <2>1. UNCHANGED <<registered, chan, stream, len>> BY <1>20 DEF PumpPut, logVars, fanVars
  <2>2. pump[f] \in {"snap", "send"} BY <1>20 DEF PumpPut
  <2>5. at' = [at EXCEPT ![f] = NoConn] BY <1>20 DEF PumpPut
  <2>6. IsSent(f, todo[f]) BY <1>t, <1>20, SentIs DEF PumpPut
  <2>3. \/ pump'[f] = "recv" /\ at'[f] = NoConn
        \/ pump'[f] = "send" /\ held'[f] = held[f]
    BY <1>t, <2>5, <2>6 DEF IsSent, PumpTypes
  <2>4. \A g \in Fanouts \ {f} : pump'[g] = pump[g] /\ held'[g] = held[g] /\ at'[g] = at[g]
    BY <1>t, <2>5, <2>6 DEF IsSent, PumpTypes
  <2>8. FanRow(f)' BY <1>r, <2>1, <2>2, <2>3, RowSends
  <2>9. \A g \in Fanouts \ {f} : FanRow(g)' BY <1>k, <2>1, <2>4
  <2>q. QED BY <2>8, <2>9 DEF FanInv
<1>21. ASSUME NEW f \in Fanouts, PumpEnded(f) PROVE FanInv'
  <2>1. /\ pump[f] = "recv" /\ chan[f] = <<>> /\ stream' = [stream EXCEPT ![f] = "none"]
        /\ UNCHANGED <<chan, held, at, len>>
        /\ registered' = IF registered = f THEN NoFanout ELSE registered
        /\ pump' = [pump EXCEPT ![f] = IF registered = f THEN "check" ELSE "none"]
    BY <1>21 DEF PumpEnded, PumpGone, logVars
  <2>2. registered' # f BY <2>1, NoneAssumption
  <2>3. at[f] = NoConn BY <1>r, <2>1 DEF FanRow, PumpRow
  <2>4. FanRow(f)' BY <1>t, <1>r, <2>1, <2>2, <2>3, RowEnded DEF FanTypes, PumpTypes
  <2>5. ASSUME NEW g \in Fanouts \ {f} PROVE FanRow(g)'
    <3>1. registered' = g <=> registered = g BY <2>1, NoneAssumption
    <3>2. RowSame(g) BY <1>t, <2>1 DEF FanTypes, PumpTypes, RowSame
    <3>q. QED BY <1>r, <2>1, <3>1, <3>2, RowKept
  <2>q. QED BY <2>4, <2>5 DEF FanInv
<1>22. ASSUME NEW f \in Fanouts, PumpCheck(f) PROVE FanInv'
  <2>1. UNCHANGED <<registered, chan, stream, len, held, at>>
    BY <1>22 DEF PumpCheck, logVars, fanVars
  <2>2. /\ pump[f] \in {"check", "drop"} /\ pump'[f] \in {"none", "check", "drop"}
        /\ \A g \in Fanouts \ {f} : pump'[g] = pump[g]
    BY <1>t, <1>22 DEF PumpCheck, PumpGone, PumpTypes
  <2>3. at[f] = NoConn /\ chan[f] = <<>> /\ stream[f] = "none" /\ registered # f
    BY <1>r, <2>2 DEF FanRow, PumpRow
  <2>4. FanRow(f)' BY <1>r, <2>1, <2>2, <2>3, RowEnded
  <2>5. \A g \in Fanouts \ {f} : FanRow(g)' BY <1>k, <2>1, <2>2
  <2>q. QED BY <2>4, <2>5 DEF FanInv
<1>23. ASSUME NEW f \in Fanouts, PumpDrop(f) PROVE FanInv'
  <2>1. UNCHANGED <<registered, chan, stream, len, held, at>>
    BY <1>23 DEF PumpDrop, logVars, fanVars
  <2>2. /\ pump[f] \in {"check", "drop"} /\ pump'[f] \in {"none", "check", "drop"}
        /\ \A g \in Fanouts \ {f} : pump'[g] = pump[g]
    BY <1>t, <1>23 DEF PumpDrop, PumpGone, PumpTypes
  <2>3. at[f] = NoConn /\ chan[f] = <<>> /\ stream[f] = "none" /\ registered # f
    BY <1>r, <2>2 DEF FanRow, PumpRow
  <2>4. FanRow(f)' BY <1>r, <2>1, <2>2, <2>3, RowEnded
  <2>5. \A g \in Fanouts \ {f} : FanRow(g)' BY <1>k, <2>1, <2>2
  <2>q. QED BY <2>4, <2>5 DEF FanInv
<1>24. ASSUME NEW c \in Conns, TearDown(c) PROVE FanInv'
  <2>1. UNCHANGED <<chan, pump, held, at, len>> /\ DropLocked(c)
    BY <1>24 DEF TearDown, logVars, pumpVars
  <2>2. IsDropped(c) BY <1>t, <2>1, DropLockedIs
  <2>3. ASSUME NEW f \in Fanouts PROVE FanRow(f)'
    <3>1. CASE registered = f /\ members[f] \subseteq {c}
      <4>1. stream'[f] = "closed" /\ registered' # f /\ pump[f] \in {"recv", "snap", "send"}
        BY <1>r, <2>2, <3>1, NoneAssumption DEF IsDropped, FanRow, PumpRow
      <4>q. QED BY <1>r, <2>1, <4>1, RowCut
    <3>2. CASE ~(registered = f /\ members[f] \subseteq {c})
      <4>1. stream'[f] = stream[f] /\ (registered' = f <=> registered = f)
        BY <2>2, <3>2, NoneAssumption DEF IsDropped
      <4>q. QED BY <1>r, <2>1, <4>1, RowKept DEF RowSame
    <3>q. QED BY <3>1, <3>2
  <2>q. QED BY <2>3 DEF FanInv
<1>25. ASSUME NEW c \in Conns, SubscribeJoin(c) PROVE FanInv'
  <2>1. Join(c, got[c]) /\ len' = len BY <1>25 DEF SubscribeJoin, logVars
  <2>2. IsJoined(c, got[c]) BY <1>t, <2>1, JoinIs
  <2>3. CASE IsMember(c) BY <1>r, <2>1, <2>3, RowKept DEF IsMember, RowSame, FanInv
  <2>4. ASSUME NEW f \in Fanouts, IsFirst(c, got[c], f) PROVE FanInv'
    <3>1. at[f] = NoConn /\ at' = at BY <1>r, <2>4 DEF IsFirst, FanRow, PumpRow
    <3>2. FanRow(f)'
      <4>1. Len(chan'[f]) = 0 BY <2>4, EmptyIs DEF IsFirst
      <4>q. QED BY <2>4, <3>1, <4>1 DEF IsFirst, FanRow, ChanRow, HeldRow, PumpRow
    <3>3. ASSUME NEW g \in Fanouts \ {f} PROVE FanRow(g)'
      <4>1. RowSame(g) /\ (registered' = g <=> registered = g)
        BY <2>4, NoneAssumption DEF IsFirst, RowSame
      <4>q. QED BY <1>r, <2>1, <4>1, RowKept
    <3>q. QED BY <3>2, <3>3 DEF FanInv
  <2>q. QED BY <2>2, <2>3, <2>4 DEF IsJoined
<1>26. ASSUME Restart PROVE FanInv'
  <2>1. /\ registered' = NoFanout /\ chan' = [f \in Fanouts |-> <<>>]
        /\ stream' = [f \in Fanouts |-> "none"] /\ pump' = [f \in Fanouts |-> "none"]
        /\ at' = [f \in Fanouts |-> NoConn]
    BY <1>26 DEF Restart
  <2>q. QED BY <1>r, <2>1, NoneAssumption, RowEnded DEF FanInv
<1>27. CASE UNCHANGED vars
  <2>1. UNCHANGED <<registered, chan, stream, pump, held, at, len>> BY <1>27 DEF vars
  <2>q. QED BY <1>r, <2>1, RowKept DEF RowSame, FanInv
<1>q. QED BY <1>1, <1>2, <1>3, <1>4, <1>5, <1>6, <1>7, <1>8, <1>9, <1>10, <1>11, <1>12, <1>13,
   <1>14, <1>15, <1>16, <1>17, <1>18, <1>19, <1>20, <1>21, <1>22, <1>23, <1>24, <1>25, <1>26,
   <1>27 DEF Next, PumpStep, ConnStep, ClientStep

-----------------------------------------------------------------------------
(* Which connections are open, and which have joined.                      *)

(* The daemon has carried out the connection's subscribe.                  *)
HasJoined(c) ==
  \/ serving[c] = "joined" \/ phase[Client(c)] \in {"replaying", "streaming"}
  \/ \E i \in 1..Len(out[c]) : out[c][i].kind = "joined"

(* Only a vacant slot is opened, and only a call to subscribe joins.       *)
Opens(c) ==
  /\ Live(c)' => Live(c) \/ Vacant(c)
  /\ conn'[c] = "open" => conn[c] = "open" \/ Vacant(c)
  /\ conn'[c] = "open" /\ HasJoined(c)' =>
       conn[c] = "open" /\ (HasJoined(c) \/ (serving[c] = "join" /\ serving'[c] = "joined"))

LEMMA OpenKept ==
  ASSUME NEW c \in Conns, conn'[c] = conn[c] \/ conn'[c] \notin {"open", "quit"}
                          \/ (conn[c] = "open" /\ conn'[c] = "quit"),
         out'[c] = out[c], serving'[c] = serving[c], phase'[Client(c)] = phase[Client(c)]
  PROVE  Opens(c)
BY DEF Opens, HasJoined, Live

LEMMA OpenAnswers ==
  ASSUME NEW c \in Conns, RowTypes(c), NEW m \in Msgs, m.kind # "joined" \/ serving[c] = "joined",
         IsQueued(c, m) \/ IsRefused(c), conn[c] \in {"none", "open", "quit", "shut"},
         serving'[c] # "joined", phase'[Client(c)] = phase[Client(c)]
  PROVE  Opens(c)
<1>1. conn'[c] = "open" => conn[c] = "open" BY DEF IsQueued, IsRefused
<1>2. Live(c)' => Live(c) BY DEF IsQueued, IsRefused, Live
<1>3. ASSUME conn'[c] = "open", HasJoined(c)' PROVE HasJoined(c)
  <2>1. CASE serving[c] = "joined" BY <2>1 DEF HasJoined
  <2>2. CASE m.kind # "joined"
    <3>1. out'[c] = Append(out[c], m) \/ out'[c] = out[c] BY DEF IsQueued, IsRefused
    <3>2. /\ Len(out'[c]) \in {Len(out[c]), Len(out[c]) + 1} /\ \A i \in 1..Len(out[c]) : out'[c][i] = out[c][i]
          /\ Len(out'[c]) = Len(out[c]) + 1 => out'[c][Len(out[c]) + 1] = m
      BY <3>1, AppendIs DEF RowTypes
    <3>3. ASSUME NEW i \in 1..Len(out'[c]), out'[c][i].kind = "joined" PROVE HasJoined(c)
      <4>1. i \in 1..Len(out[c]) BY <2>2, <3>2, <3>3 DEF RowTypes
      <4>2. out[c][i].kind = "joined" BY <3>2, <3>3, <4>1
      <4>q. QED BY <4>1, <4>2 DEF HasJoined
    <3>q. QED BY <1>3, <3>3 DEF HasJoined
  <2>q. QED BY <2>1, <2>2
<1>q. QED BY <1>1, <1>2, <1>3 DEF Opens

LEMMA OpenTakes ==
  ASSUME NEW c \in Conns, RowTypes(c), TakesFirst(c), conn'[c] = conn[c], serving'[c] # "joined" \/ serving'[c] = serving[c],
         phase'[Client(c)] \in {"replaying", "streaming"} =>
           phase[Client(c)] \in {"replaying", "streaming"} \/ Head(out[c]).kind = "joined"
  PROVE  Opens(c)
<1>1. \A i \in 1..Len(out'[c]) : i + 1 \in 1..Len(out[c]) /\ out'[c][i] = out[c][i + 1] BY FirstIs
<1>2. Head(out[c]) = out[c][1] /\ 1 \in 1..Len(out[c]) BY FirstIs
<1>3. ASSUME NEW i \in 1..Len(out'[c]), out'[c][i].kind = "joined" PROVE HasJoined(c)
  <2>1. i + 1 \in 1..Len(out[c]) /\ out[c][i + 1].kind = "joined" BY <1>1, <1>3
  <2>q. QED BY <2>1 DEF HasJoined
<1>4. Head(out[c]).kind = "joined" => HasJoined(c) BY <1>2 DEF HasJoined
<1>5. HasJoined(c)' => HasJoined(c) BY <1>3, <1>4 DEF HasJoined
<1>q. QED BY <1>5 DEF Opens, Live

(* A connection whose client has hung up, or dials, has no other open.     *)
LEMMA OpenOthers ==
  ASSUME LinkInv, NEW c \in Conns, link[Client(c)] \in {c, NoConn}, NEW d \in Conns \ {c},
         conn'[d] = conn[d], out'[d] = out[d], serving'[d] = serving[d],
         \A k \in Clients \ {Client(c)} : phase'[k] = phase[k]
  PROVE  Opens(d)
<1>0. Client(d) \in Clients /\ d # NoConn BY ConnsAre
<1>1. CASE Client(d) = Client(c)
  <2>1. ~Live(d) BY <1>0, <1>1 DEF LinkInv
  <2>q. QED BY <2>1 DEF Opens, Live
<1>2. CASE Client(d) # Client(c) BY <1>0, <1>2, OpenKept
<1>q. QED BY <1>1, <1>2

LEMMA OpenMove ==
  ASSUME Types, LinkInv, ClientInv, [Next]_vars PROVE \A c \in Conns : Opens(c)
<1>t. OutTypes /\ LinkTypes /\ ConnTypes /\ PumpTypes BY DEF Types, ConnTypes, ClientTypes
<1>c. \A c \in Conns : conn[c] \in {"none", "open", "quit", "shut"} BY <1>t DEF OutTypes
<1>r. \A c \in Conns : RowTypes(c) BY RowsAre
<1>u. ASSUME UNCHANGED <<conn, out, serving, phase>> PROVE \A c \in Conns : Opens(c)
  BY <1>u, OpenKept
<1>1. ASSUME LogEvent PROVE \A d \in Conns : Opens(d)
  <2>1. UNCHANGED <<conn, out, serving, phase>> BY <1>1 DEF LogEvent, connVars, cliVars
  <2>q. QED BY <1>u, <2>1
<1>2. ASSUME ArchiveNotice PROVE \A d \in Conns : Opens(d)
  <2>1. UNCHANGED <<conn, out, serving, phase>> BY <1>2 DEF ArchiveNotice, connVars, cliVars
  <2>q. QED BY <1>u, <2>1
<1>3. ASSUME ArchiveMove PROVE \A d \in Conns : Opens(d)
  <2>1. UNCHANGED <<conn, out, serving, phase>> BY <1>3 DEF ArchiveMove, connVars, cliVars
  <2>q. QED BY <1>u, <2>1
<1>4. ASSUME RestoreMove PROVE \A d \in Conns : Opens(d)
  <2>1. UNCHANGED <<conn, out, serving, phase>> BY <1>4 DEF RestoreMove, connVars, cliVars
  <2>q. QED BY <1>u, <2>1
<1>5. ASSUME RestoreNotice PROVE \A d \in Conns : Opens(d)
  <2>1. UNCHANGED <<conn, out, serving, phase>> BY <1>5 DEF RestoreNotice, connVars, cliVars
  <2>q. QED BY <1>u, <2>1
<1>6. ASSUME NEW f \in Fanouts, PumpReceive(f) PROVE \A d \in Conns : Opens(d)
  <2>1. UNCHANGED <<conn, out, serving, phase>> BY <1>6 DEF PumpReceive, connVars, cliVars
  <2>q. QED BY <1>u, <2>1
<1>7. ASSUME NEW f \in Fanouts, PumpSnapshot(f) PROVE \A d \in Conns : Opens(d)
  <2>1. UNCHANGED <<conn, out, serving, phase>> BY <1>7 DEF PumpSnapshot, connVars, cliVars
  <2>q. QED BY <1>u, <2>1
<1>8. ASSUME NEW f \in Fanouts, PumpPick(f) PROVE \A d \in Conns : Opens(d)
  <2>1. UNCHANGED <<conn, out, serving, phase>> BY <1>8 DEF PumpPick, connVars, cliVars
  <2>q. QED BY <1>u, <2>1
<1>9. ASSUME NEW f \in Fanouts, PumpEnded(f) PROVE \A d \in Conns : Opens(d)
  <2>1. UNCHANGED <<conn, out, serving, phase>> BY <1>9 DEF PumpEnded, connVars, cliVars
  <2>q. QED BY <1>u, <2>1
<1>10. ASSUME NEW f \in Fanouts, PumpCheck(f) PROVE \A d \in Conns : Opens(d)
  <2>1. UNCHANGED <<conn, out, serving, phase>> BY <1>10 DEF PumpCheck, connVars, cliVars
  <2>q. QED BY <1>u, <2>1
<1>11. ASSUME NEW f \in Fanouts, PumpPut(f) PROVE \A d \in Conns : Opens(d)
  <2>0. PICK c \in Conns, e \in Nat : c = at[f] /\ e = held[f] BY <1>t, <1>11, PutIs DEF PumpTypes
  <2>1. UNCHANGED <<serving, phase>> BY <1>11 DEF PumpPut, cliVars
  <2>2. IsPut(c, e) /\ OthersSame(c) BY <1>t, <1>11, <2>0, PutIs
  <2>3. \A d \in Conns \ {c} : Opens(d) BY <2>1, <2>2, OpenKept DEF OthersSame
  <2>4. ASSUME out'[c] = Append(out[c], EventMsg(e)), conn'[c] = conn[c] PROVE Opens(c)
    <3>1. EventMsg(e) \in Msgs /\ EventMsg(e).kind = "event" BY DEF EventMsg, Msgs
    <3>2. /\ Len(out'[c]) = Len(out[c]) + 1 /\ \A i \in 1..Len(out[c]) : out'[c][i] = out[c][i]
          /\ out'[c][Len(out[c]) + 1] = EventMsg(e) /\ Len(out[c]) \in Nat
      BY <1>r, <2>4, <3>1, AppendIs DEF RowTypes
    <3>3. ASSUME NEW i \in 1..Len(out'[c]), out'[c][i].kind = "joined" PROVE HasJoined(c)
      <4>1. i \in 1..Len(out[c]) BY <3>1, <3>2, <3>3
      <4>2. out[c][i].kind = "joined" BY <3>2, <3>3, <4>1
      <4>q. QED BY <4>1, <4>2 DEF HasJoined
    <3>4. HasJoined(c)' => HasJoined(c) BY <2>1, <3>3 DEF HasJoined
    <3>q. QED BY <2>4, <3>4 DEF Opens, Live
  <2>5. ASSUME out'[c] = out[c] PROVE Opens(c)
    <3>1. conn'[c] = conn[c] \/ (Live(c) /\ conn'[c] = "quit") BY <2>2 DEF IsPut
    <3>2. HasJoined(c)' => HasJoined(c) BY <2>1, <2>5 DEF HasJoined
    <3>q. QED BY <3>1, <3>2 DEF Opens, Live
  <2>q. QED BY <2>2, <2>3, <2>4, <2>5 DEF IsPut
<1>12. ASSUME NEW f \in Fanouts, PumpDrop(f) PROVE \A d \in Conns : Opens(d)
  <2>1. UNCHANGED <<out, serving, phase>> BY <1>12 DEF PumpDrop, cliVars
  <2>q. QED BY <1>t, <1>12, <2>1, DropIs, OpenKept DEF IsToldToQuit
<1>13. ASSUME NEW c \in Conns, CloseNow(c) PROVE \A d \in Conns : Opens(d)
  <2>1. Live(c) /\ Shut({c}) /\ serving' = serving /\ HangUp({Client(c)} \cap {k \in Clients : link[k] = c})
    BY <1>13 DEF CloseNow, Live
  <2>2. IsLost(c) BY <1>t, <2>1, HangsUp
  <2>3. Opens(c) BY <2>2 DEF Opens, IsLost, Live
  <2>4. link[Client(c)] = c BY <2>1 DEF LinkInv
  <2>5. \A d \in Conns \ {c} : Opens(d)
    BY <2>1, <2>2, <2>4, OpenOthers DEF IsLost, OthersSame, IsSame
  <2>q. QED BY <2>3, <2>5
<1>14. ASSUME NEW c \in Conns, Lose(c) PROVE \A d \in Conns : Opens(d)
  <2>1. Live(c) /\ Shut({c}) /\ serving' = serving /\ HangUp({Client(c)} \cap {k \in Clients : link[k] = c})
    BY <1>14 DEF Lose, Live
  <2>2. IsLost(c) BY <1>t, <2>1, HangsUp
  <2>3. Opens(c) BY <2>2 DEF Opens, IsLost, Live
  <2>4. link[Client(c)] = c BY <2>1 DEF LinkInv
  <2>5. \A d \in Conns \ {c} : Opens(d)
    BY <2>1, <2>2, <2>4, OpenOthers DEF IsLost, OthersSame, IsSame
  <2>q. QED BY <2>3, <2>5
<1>15. ASSUME NEW c \in Conns, ErrorArrives(c) PROVE \A d \in Conns : Opens(d)
  <2>1. Live(c) /\ Shut({c}) /\ serving' = serving /\ HangUp({Client(c)})
    BY <1>15 DEF ErrorArrives, Live
  <2>2. IsLost(c) BY <1>t, <2>1, HangsUp
  <2>3. Opens(c) BY <2>2 DEF Opens, IsLost, Live
  <2>4. link[Client(c)] = c BY <2>1 DEF LinkInv
  <2>5. \A d \in Conns \ {c} : Opens(d)
    BY <2>1, <2>2, <2>4, OpenOthers DEF IsLost, OthersSame, IsSame
  <2>q. QED BY <2>3, <2>5
<1>16. ASSUME NEW c \in Conns, TearDown(c) PROVE \A d \in Conns : Opens(d)
  <2>1. UNCHANGED <<out, serving, phase>> /\ conn' = [conn EXCEPT ![c] = "none"]
    BY <1>16 DEF TearDown
  <2>2. \A d \in Conns : conn'[d] = conn[d] \/ conn'[d] = "none" BY <1>t, <2>1 DEF OutTypes
  <2>q. QED BY <2>1, <2>2, OpenKept
<1>17. ASSUME NEW c \in Conns, SubscribeGet(c) PROVE \A d \in Conns : Opens(d)
  <2>1. phase' = phase /\ serving[c] = "subscribe" /\ (Reply(c, ErrorMsg) \/ UNCHANGED <<conn, out>>)
    BY <1>17 DEF SubscribeGet, cliVars
  <2>2. serving'[c] # "joined" /\ \A d \in Conns \ {c} : serving'[d] = serving[d]
    BY <1>t, <1>17 DEF SubscribeGet, Serve, ConnTypes
  <2>3. ErrorMsg \in Msgs /\ (ErrorMsg.kind # "joined" \/ serving[c] = "joined")
    BY <1>t, <2>1 DEF ErrorMsg, Msgs, ConnTypes
  <2>4. CASE Reply(c, ErrorMsg)
    <3>1. (IsQueued(c, ErrorMsg) \/ IsRefused(c)) /\ OthersSame(c) BY <1>t, <2>3, <2>4, ReplyIs
    <3>2. Opens(c) BY <1>c, <1>r, <2>1, <2>2, <2>3, <3>1, OpenAnswers
    <3>3. \A d \in Conns \ {c} : Opens(d) BY <2>1, <2>2, <3>1, OpenKept DEF OthersSame
    <3>q. QED BY <3>2, <3>3
  <2>5. CASE UNCHANGED <<conn, out>>
    <3>1. Opens(c) BY <2>1, <2>2, <2>5 DEF Opens, HasJoined, Live
    <3>2. \A d \in Conns \ {c} : Opens(d) BY <2>1, <2>2, <2>5, OpenKept
    <3>q. QED BY <3>1, <3>2
  <2>q. QED BY <2>1, <2>4, <2>5
<1>18. ASSUME NEW c \in Conns, SubscribeReply(c) PROVE \A d \in Conns : Opens(d)
  <2>1. phase' = phase /\ serving[c] = "joined" /\ (Reply(c, JoinedMsg))
    BY <1>18 DEF SubscribeReply, cliVars
  <2>2. serving'[c] # "joined" /\ \A d \in Conns \ {c} : serving'[d] = serving[d]
    BY <1>t, <1>18 DEF SubscribeReply, Serve, ConnTypes
  <2>3. JoinedMsg \in Msgs /\ (JoinedMsg.kind # "joined" \/ serving[c] = "joined")
    BY <1>t, <2>1 DEF JoinedMsg, Msgs, ConnTypes
  <2>4. CASE Reply(c, JoinedMsg)
    <3>1. (IsQueued(c, JoinedMsg) \/ IsRefused(c)) /\ OthersSame(c) BY <1>t, <2>3, <2>4, ReplyIs
    <3>2. Opens(c) BY <1>c, <1>r, <2>1, <2>2, <2>3, <3>1, OpenAnswers
    <3>3. \A d \in Conns \ {c} : Opens(d) BY <2>1, <2>2, <3>1, OpenKept DEF OthersSame
    <3>q. QED BY <3>2, <3>3
  <2>q. QED BY <2>1, <2>4
<1>19. ASSUME NEW c \in Conns, ReplayRead(c) PROVE \A d \in Conns : Opens(d)
  <2>1. phase' = phase /\ serving[c] = "replay" /\ (Reply(c, ErrorMsg) \/ UNCHANGED <<conn, out>>)
    BY <1>19 DEF ReplayRead, cliVars
  <2>2. serving'[c] # "joined" /\ \A d \in Conns \ {c} : serving'[d] = serving[d]
    BY <1>t, <1>19 DEF ReplayRead, Serve, ConnTypes
  <2>3. ErrorMsg \in Msgs /\ (ErrorMsg.kind # "joined" \/ serving[c] = "joined")
    BY <1>t, <2>1 DEF ErrorMsg, Msgs, ConnTypes
  <2>4. CASE Reply(c, ErrorMsg)
    <3>1. (IsQueued(c, ErrorMsg) \/ IsRefused(c)) /\ OthersSame(c) BY <1>t, <2>3, <2>4, ReplyIs
    <3>2. Opens(c) BY <1>c, <1>r, <2>1, <2>2, <2>3, <3>1, OpenAnswers
    <3>3. \A d \in Conns \ {c} : Opens(d) BY <2>1, <2>2, <3>1, OpenKept DEF OthersSame
    <3>q. QED BY <3>2, <3>3
  <2>5. CASE UNCHANGED <<conn, out>>
    <3>1. Opens(c) BY <2>1, <2>2, <2>5 DEF Opens, HasJoined, Live
    <3>2. \A d \in Conns \ {c} : Opens(d) BY <2>1, <2>2, <2>5, OpenKept
    <3>q. QED BY <3>1, <3>2
  <2>q. QED BY <2>1, <2>4, <2>5
<1>20. ASSUME NEW c \in Conns, ReplayAnswer(c) PROVE \A d \in Conns : Opens(d)
  <2>1. phase' = phase /\ serving[c] = "answer" /\ (Reply(c, ReplayMsg(got[c])))
    BY <1>20 DEF ReplayAnswer, cliVars
  <2>2. serving'[c] # "joined" /\ \A d \in Conns \ {c} : serving'[d] = serving[d]
    BY <1>t, <1>20 DEF ReplayAnswer, Serve, ConnTypes
  <2>3. ReplayMsg(got[c]) \in Msgs /\ (ReplayMsg(got[c]).kind # "joined" \/ serving[c] = "joined")
    BY <1>t, <2>1 DEF ReplayMsg, Msgs, ConnTypes
  <2>4. CASE Reply(c, ReplayMsg(got[c]))
    <3>1. (IsQueued(c, ReplayMsg(got[c])) \/ IsRefused(c)) /\ OthersSame(c)
      BY <1>t, <2>3, <2>4, ReplyIs
    <3>2. Opens(c) BY <1>c, <1>r, <2>1, <2>2, <2>3, <3>1, OpenAnswers
    <3>3. \A d \in Conns \ {c} : Opens(d) BY <2>1, <2>2, <3>1, OpenKept DEF OthersSame
    <3>q. QED BY <3>2, <3>3
  <2>q. QED BY <2>1, <2>4
<1>21. ASSUME NEW c \in Conns, SubscribeJoin(c) PROVE \A d \in Conns : Opens(d)
  <2>1. UNCHANGED <<conn, out, phase>> /\ serving[c] = "join" /\ serving' = [serving EXCEPT ![c] = "joined"]
    BY <1>21 DEF SubscribeJoin, Serve
  <2>2. Opens(c) BY <1>t, <2>1 DEF Opens, Live, ConnTypes
  <2>3. \A d \in Conns \ {c} : Opens(d) BY <1>t, <2>1, OpenKept DEF ConnTypes
  <2>q. QED BY <2>2, <2>3
<1>22. ASSUME NEW c \in Conns, EventArrives(c) PROVE \A d \in Conns : Opens(d)
  <2> DEFINE k == Client(c)
  <2>1. /\ Live(c) /\ link[k] = c /\ out[c] # <<>> /\ Head(out[c]).kind = "event"
        /\ out' = [out EXCEPT ![c] = Tail(@)] /\ UNCHANGED <<conn, got>> /\ len' = len
    BY <1>22 DEF EventArrives, Arrives, Live, logVars
  <2>2. serving' = serving /\ phase' = phase BY <1>22 DEF EventArrives, Serve
  <2>3. k \in Clients /\ TakesFirst(c) BY <1>t, <2>1, ConnsAre DEF TakesFirst, OutTypes
  <2>4. Head(out[c]).kind = "replay" => phase[k] = "replaying"
    BY <1>r, <2>1, <2>3, FirstIs DEF ClientInv, Fits, Talks
  <2>5. Opens(c) BY <1>t, <1>r, <2>1, <2>2, <2>3, <2>4, OpenTakes DEF LinkTypes, ConnTypes
  <2>6. \A d \in Conns \ {c} : Opens(d)
    BY <1>t, <2>1, <2>2, OpenOthers DEF OutTypes, LinkTypes, ConnTypes
  <2>q. QED BY <2>5, <2>6
<1>23. ASSUME NEW c \in Conns, JoinedArrives(c) PROVE \A d \in Conns : Opens(d)
  <2> DEFINE k == Client(c)
  <2>1. /\ Live(c) /\ link[k] = c /\ out[c] # <<>> /\ Head(out[c]).kind = "joined"
        /\ out' = [out EXCEPT ![c] = Tail(@)] /\ UNCHANGED <<conn, got>> /\ len' = len
    BY <1>23 DEF JoinedArrives, Arrives, Live, logVars
  <2>2. serving' = [serving EXCEPT ![c] = "replay"] /\ phase' = [phase EXCEPT ![k] = "replaying"]
    BY <1>23 DEF JoinedArrives, Serve
  <2>3. k \in Clients /\ TakesFirst(c) BY <1>t, <2>1, ConnsAre DEF TakesFirst, OutTypes
  <2>4. Head(out[c]).kind = "replay" => phase[k] = "replaying"
    BY <1>r, <2>1, <2>3, FirstIs DEF ClientInv, Fits, Talks
  <2>5. Opens(c) BY <1>t, <1>r, <2>1, <2>2, <2>3, <2>4, OpenTakes DEF LinkTypes, ConnTypes
  <2>6. \A d \in Conns \ {c} : Opens(d)
    BY <1>t, <2>1, <2>2, OpenOthers DEF OutTypes, LinkTypes, ConnTypes
  <2>q. QED BY <2>5, <2>6
<1>24. ASSUME NEW c \in Conns, ReplayArrives(c) PROVE \A d \in Conns : Opens(d)
  <2> DEFINE k == Client(c)
  <2>1. /\ Live(c) /\ link[k] = c /\ out[c] # <<>> /\ Head(out[c]).kind = "replay"
        /\ out' = [out EXCEPT ![c] = Tail(@)] /\ UNCHANGED <<conn, got>> /\ len' = len
    BY <1>24 DEF ReplayArrives, Arrives, Live, logVars
  <2>2. serving' = serving /\ phase' = [phase EXCEPT ![k] = "streaming"]
    BY <1>24 DEF ReplayArrives, Serve
  <2>3. k \in Clients /\ TakesFirst(c) BY <1>t, <2>1, ConnsAre DEF TakesFirst, OutTypes
  <2>4. Head(out[c]).kind = "replay" => phase[k] = "replaying"
    BY <1>r, <2>1, <2>3, FirstIs DEF ClientInv, Fits, Talks
  <2>5. Opens(c) BY <1>t, <1>r, <2>1, <2>2, <2>3, <2>4, OpenTakes DEF LinkTypes, ConnTypes
  <2>6. \A d \in Conns \ {c} : Opens(d)
    BY <1>t, <2>1, <2>2, OpenOthers DEF OutTypes, LinkTypes, ConnTypes
  <2>q. QED BY <2>5, <2>6
<1>25. ASSUME NEW k \in Clients, Dial(k) PROVE \A d \in Conns : Opens(d)
  <2>1. PICK i \in Slots : /\ Vacant(<<k, i>>)
                          /\ conn' = [conn EXCEPT ![<<k, i>>] = "open"]
                          /\ out' = [out EXCEPT ![<<k, i>>] = <<>>]
                          /\ serving' = [serving EXCEPT ![<<k, i>>] = "subscribe"]
    BY <1>25 DEF Dial, Serve
  <2> DEFINE c == <<k, i>>
  <2>3. c \in Conns /\ Client(c) = k /\ Vacant(c) BY <2>1, ConnsAre
  <2> HIDE DEF c
  <2>a. /\ conn' = [conn EXCEPT ![c] = "open"] /\ out' = [out EXCEPT ![c] = <<>>]
        /\ serving' = [serving EXCEPT ![c] = "subscribe"]
    BY <2>1 DEF c
  <2>4. phase[k] = "down" /\ phase' = [phase EXCEPT ![k] = "joining"] BY <1>25 DEF Dial
  <2>5. link[k] = NoConn BY <2>4 DEF LinkInv
  <2>6. ~HasJoined(c)'
    <3>1. out'[c] = <<>> /\ serving'[c] = "subscribe" /\ phase'[Client(c)] = "joining"
      BY <1>t, <2>3, <2>a, <2>4 DEF OutTypes, ConnTypes, LinkTypes
    <3>2. Len(out'[c]) = 0 BY <3>1, EmptyIs
    <3>q. QED BY <3>1, <3>2 DEF HasJoined
  <2>7. Opens(c) BY <2>3, <2>6 DEF Opens
  <2>8. \A d \in Conns \ {c} : Opens(d)
    BY <1>t, <2>3, <2>a, <2>4, <2>5, OpenOthers DEF OutTypes, LinkTypes, ConnTypes
  <2>q. QED BY <2>7, <2>8
<1>26. ASSUME Restart PROVE \A d \in Conns : Opens(d)
  <2>1. conn' = [c \in Conns |-> "none"] BY <1>26 DEF Restart
  <2>q. QED BY <2>1 DEF Opens, Live
<1>27. CASE UNCHANGED vars
  <2>1. UNCHANGED <<conn, out, serving, phase>> BY <1>27 DEF vars
  <2>q. QED BY <1>u, <2>1
<1>q. QED BY <1>1, <1>2, <1>3, <1>4, <1>5, <1>6, <1>7, <1>8, <1>9, <1>10, <1>11, <1>12, <1>13,
   <1>14, <1>15, <1>16, <1>17, <1>18, <1>19, <1>20, <1>21, <1>22, <1>23, <1>24, <1>25, <1>26,
   <1>27 DEF Next, PumpStep, ConnStep, ClientStep

-----------------------------------------------------------------------------
(* Session objects: a call that is over has none newer than the one that   *)
(* is open, and while the log is archived only older ones.                 *)
SinceRow(c) ==
  /\ since[c] <= gen /\ (serving[c] = "join" => got[c] <= gen)
  /\ archived => since[c] < gen /\ (serving[c] = "join" => got[c] < gen)

SinceInv == \A c \in Conns : SinceRow(c)

LEMMA SinceKept ==
  ASSUME Types, NEW c \in Conns, SinceRow(c), gen' = gen, archived' => archived,
         since'[c] = since[c] \/ since'[c] = 0,
         serving'[c] = "join" => serving[c] = "join" /\ got'[c] = got[c]
  PROVE  SinceRow(c)'
<1>1. since[c] \in Nat /\ gen \in Nat BY DEF Types, ClientTypes, LogTypes
<1>q. QED BY <1>1 DEF SinceRow

LEMMA SinceStep == ASSUME Types, SinceInv, [Next]_vars PROVE SinceInv'
<1>t. ConnTypes /\ ClientTypes /\ gen \in Nat BY DEF Types, LogTypes
<1>r. \A c \in Conns : SinceRow(c) BY DEF SinceInv
<1>1. ASSUME LogEvent PROVE SinceInv'
  <2>1. UNCHANGED <<since, serving, got, gen, archived>>
    BY <1>1 DEF LogEvent, logVars, connVars, cliVars
  <2>q. QED BY <1>r, <2>1, SinceKept DEF SinceInv
<1>2. ASSUME ArchiveNotice PROVE SinceInv'
  <2>1. UNCHANGED <<since, serving, got, gen, archived>>
    BY <1>2 DEF ArchiveNotice, logVars, connVars, cliVars
  <2>q. QED BY <1>r, <2>1, SinceKept DEF SinceInv
<1>3. ASSUME RestoreNotice PROVE SinceInv'
  <2>1. UNCHANGED <<since, serving, got, gen, archived>>
    BY <1>3 DEF RestoreNotice, logVars, connVars, cliVars
  <2>q. QED BY <1>r, <2>1, SinceKept DEF SinceInv
<1>4. ASSUME NEW f \in Fanouts, PumpReceive(f) PROVE SinceInv'
  <2>1. UNCHANGED <<since, serving, got, gen, archived>>
    BY <1>4 DEF PumpReceive, logVars, connVars, cliVars
  <2>q. QED BY <1>r, <2>1, SinceKept DEF SinceInv
<1>5. ASSUME NEW f \in Fanouts, PumpSnapshot(f) PROVE SinceInv'
  <2>1. UNCHANGED <<since, serving, got, gen, archived>>
    BY <1>5 DEF PumpSnapshot, logVars, connVars, cliVars
  <2>q. QED BY <1>r, <2>1, SinceKept DEF SinceInv
<1>6. ASSUME NEW f \in Fanouts, PumpPick(f) PROVE SinceInv'
  <2>1. UNCHANGED <<since, serving, got, gen, archived>>
    BY <1>6 DEF PumpPick, logVars, connVars, cliVars
  <2>q. QED BY <1>r, <2>1, SinceKept DEF SinceInv
<1>7. ASSUME NEW f \in Fanouts, PumpPut(f) PROVE SinceInv'
  <2>1. UNCHANGED <<since, serving, got, gen, archived>>
    BY <1>7 DEF PumpPut, logVars, connVars, cliVars
  <2>q. QED BY <1>r, <2>1, SinceKept DEF SinceInv
<1>8. ASSUME NEW f \in Fanouts, PumpEnded(f) PROVE SinceInv'
  <2>1. UNCHANGED <<since, serving, got, gen, archived>>
    BY <1>8 DEF PumpEnded, logVars, connVars, cliVars
  <2>q. QED BY <1>r, <2>1, SinceKept DEF SinceInv
<1>9. ASSUME NEW f \in Fanouts, PumpCheck(f) PROVE SinceInv'
  <2>1. UNCHANGED <<since, serving, got, gen, archived>>
    BY <1>9 DEF PumpCheck, logVars, connVars, cliVars
  <2>q. QED BY <1>r, <2>1, SinceKept DEF SinceInv
<1>10. ASSUME NEW f \in Fanouts, PumpDrop(f) PROVE SinceInv'
  <2>1. UNCHANGED <<since, serving, got, gen, archived>>
    BY <1>10 DEF PumpDrop, logVars, connVars, cliVars
  <2>q. QED BY <1>r, <2>1, SinceKept DEF SinceInv
<1>11. ASSUME NEW c \in Conns, CloseNow(c) PROVE SinceInv'
  <2>1. UNCHANGED <<since, serving, got, gen, archived>>
    BY <1>11 DEF CloseNow, logVars, connVars, cliVars
  <2>q. QED BY <1>r, <2>1, SinceKept DEF SinceInv
<1>12. ASSUME NEW c \in Conns, Lose(c) PROVE SinceInv'
  <2>1. UNCHANGED <<since, serving, got, gen, archived>>
    BY <1>12 DEF Lose, logVars, connVars, cliVars
  <2>q. QED BY <1>r, <2>1, SinceKept DEF SinceInv
<1>13. ASSUME NEW c \in Conns, ErrorArrives(c) PROVE SinceInv'
  <2>1. UNCHANGED <<since, serving, got, gen, archived>>
    BY <1>13 DEF ErrorArrives, logVars, connVars, cliVars
  <2>q. QED BY <1>r, <2>1, SinceKept DEF SinceInv
<1>14. ASSUME NEW c \in Conns, EventArrives(c) PROVE SinceInv'
  <2>1. UNCHANGED <<since, serving, got, gen, archived>>
    BY <1>14 DEF EventArrives, logVars, connVars, cliVars
  <2>q. QED BY <1>r, <2>1, SinceKept DEF SinceInv
<1>15. ASSUME NEW c \in Conns, ReplayArrives(c) PROVE SinceInv'
  <2>1. UNCHANGED <<since, serving, got, gen, archived>>
    BY <1>15 DEF ReplayArrives, logVars, connVars, cliVars
  <2>q. QED BY <1>r, <2>1, SinceKept DEF SinceInv
<1>16. ASSUME RestoreMove PROVE SinceInv'
  <2>1. UNCHANGED <<since, serving, got, gen>> /\ archived' = FALSE
    BY <1>16 DEF RestoreMove, connVars, cliVars
  <2>q. QED BY <1>r, <2>1, SinceKept DEF SinceInv
<1>17. ASSUME ArchiveMove PROVE SinceInv'
  <2>1. UNCHANGED <<since, serving, got>> /\ gen' = gen + 1
    BY <1>17 DEF ArchiveMove, connVars, cliVars
  <2>2. \A c \in Conns : since[c] \in Nat /\ got[c] \in Nat BY <1>t DEF ConnTypes, ClientTypes
  <2>q. QED BY <1>t, <1>r, <2>1, <2>2 DEF SinceInv, SinceRow
<1>18. ASSUME NEW c \in Conns, TearDown(c) PROVE SinceInv'
  <2>1. UNCHANGED <<serving, got, gen, archived>> /\ since' = [since EXCEPT ![c] = 0]
    BY <1>18 DEF TearDown, logVars
  <2>2. \A d \in Conns : since'[d] = since[d] \/ since'[d] = 0 BY <1>t, <2>1 DEF ClientTypes
  <2>q. QED BY <1>r, <2>1, <2>2, SinceKept DEF SinceInv
<1>19. ASSUME NEW c \in Conns, SubscribeGet(c) PROVE SinceInv'
  <2>1. UNCHANGED <<since, gen, archived>> BY <1>19 DEF SubscribeGet, logVars, cliVars
  <2>2. \/ serving' = [serving EXCEPT ![c] = "none"] /\ got' = got
        \/ serving' = [serving EXCEPT ![c] = "join"] /\ got' = [got EXCEPT ![c] = gen] /\ ~archived
    BY <1>19 DEF SubscribeGet, Serve
  <2>3. \A d \in Conns \ {c} : SinceRow(d)' BY <1>t, <1>r, <2>1, <2>2, SinceKept DEF ConnTypes
  <2>4. SinceRow(c)'
    <3>1. CASE serving' = [serving EXCEPT ![c] = "none"] /\ got' = got
      <4>1. serving'[c] # "join" BY <1>t, <3>1 DEF ConnTypes
      <4>q. QED BY <1>r, <2>1, <4>1, SinceKept
    <3>2. CASE serving' = [serving EXCEPT ![c] = "join"] /\ got' = [got EXCEPT ![c] = gen] /\ ~archived
      <4>1. got'[c] = gen BY <1>t, <3>2 DEF ConnTypes
      <4>q. QED BY <1>t, <1>r, <2>1, <3>2, <4>1 DEF SinceRow
    <3>q. QED BY <2>2, <3>1, <3>2
  <2>q. QED BY <2>3, <2>4 DEF SinceInv
<1>20. ASSUME NEW c \in Conns, SubscribeJoin(c) PROVE SinceInv'
  <2>1. /\ UNCHANGED <<gen, archived>> /\ serving[c] = "join"
        /\ serving' = [serving EXCEPT ![c] = "joined"] /\ got' = [got EXCEPT ![c] = 0]
        /\ since' = [since EXCEPT ![c] = got[c]]
    BY <1>20 DEF SubscribeJoin, Serve, logVars
  <2>3. \A d \in Conns \ {c} : SinceRow(d)'
    BY <1>t, <1>r, <2>1, SinceKept DEF ConnTypes, ClientTypes
  <2>4. since'[c] = got[c] /\ serving'[c] # "join" BY <1>t, <2>1 DEF ConnTypes, ClientTypes
  <2>5. SinceRow(c)' BY <1>r, <2>1, <2>4 DEF SinceRow
  <2>q. QED BY <2>3, <2>5 DEF SinceInv
<1>21. ASSUME NEW c \in Conns, SubscribeReply(c) PROVE SinceInv'
  <2>1. UNCHANGED <<since, gen, archived>> BY <1>21 DEF SubscribeReply, logVars, cliVars
  <2>2. /\ serving'[c] # "join"
        /\ \A d \in Conns \ {c} : serving'[d] = serving[d] /\ got'[d] = got[d]
    BY <1>t, <1>21 DEF SubscribeReply, Serve, ConnTypes
  <2>q. QED BY <1>r, <2>1, <2>2, SinceKept DEF SinceInv
<1>22. ASSUME NEW c \in Conns, ReplayRead(c) PROVE SinceInv'
  <2>1. UNCHANGED <<since, gen, archived>> BY <1>22 DEF ReplayRead, logVars, cliVars
  <2>2. /\ serving'[c] # "join"
        /\ \A d \in Conns \ {c} : serving'[d] = serving[d] /\ got'[d] = got[d]
    BY <1>t, <1>22 DEF ReplayRead, Serve, ConnTypes
  <2>q. QED BY <1>r, <2>1, <2>2, SinceKept DEF SinceInv
<1>23. ASSUME NEW c \in Conns, ReplayAnswer(c) PROVE SinceInv'
  <2>1. UNCHANGED <<since, gen, archived>> BY <1>23 DEF ReplayAnswer, logVars, cliVars
  <2>2. /\ serving'[c] # "join"
        /\ \A d \in Conns \ {c} : serving'[d] = serving[d] /\ got'[d] = got[d]
    BY <1>t, <1>23 DEF ReplayAnswer, Serve, ConnTypes
  <2>q. QED BY <1>r, <2>1, <2>2, SinceKept DEF SinceInv
<1>24. ASSUME NEW c \in Conns, JoinedArrives(c) PROVE SinceInv'
  <2>1. UNCHANGED <<since, gen, archived>> BY <1>24 DEF JoinedArrives, logVars, cliVars
  <2>2. /\ serving'[c] # "join"
        /\ \A d \in Conns \ {c} : serving'[d] = serving[d] /\ got'[d] = got[d]
    BY <1>t, <1>24 DEF JoinedArrives, Serve, ConnTypes
  <2>q. QED BY <1>r, <2>1, <2>2, SinceKept DEF SinceInv
<1>25. ASSUME NEW k \in Clients, Dial(k) PROVE SinceInv'
  <2>1. UNCHANGED <<since, gen, archived, got>> BY <1>25 DEF Dial, logVars
  <2>2. PICK i \in Slots : serving' = [serving EXCEPT ![<<k, i>>] = "subscribe"]
    BY <1>25 DEF Dial, Serve
  <2>3. \A d \in Conns : serving'[d] = "join" => serving[d] = "join" BY <1>t, <2>2 DEF ConnTypes
  <2>q. QED BY <1>r, <2>1, <2>3, SinceKept DEF SinceInv
<1>26. ASSUME Restart PROVE SinceInv'
  <2>1. UNCHANGED <<gen, archived>> /\ since' = [c \in Conns |-> 0] /\ serving' = [c \in Conns |-> "none"]
    BY <1>26 DEF Restart
  <2>q. QED BY <1>r, <2>1, SinceKept DEF SinceInv
<1>27. CASE UNCHANGED vars
  <2>1. UNCHANGED <<since, serving, got, gen, archived>> BY <1>27 DEF vars
  <2>q. QED BY <1>r, <2>1, SinceKept DEF SinceInv
<1>q. QED BY <1>1, <1>2, <1>3, <1>4, <1>5, <1>6, <1>7, <1>8, <1>9, <1>10, <1>11, <1>12, <1>13,
   <1>14, <1>15, <1>16, <1>17, <1>18, <1>19, <1>20, <1>21, <1>22, <1>23, <1>24, <1>25, <1>26,
   <1>27 DEF Next, PumpStep, ConnStep, ClientStep

-----------------------------------------------------------------------------
(* Who is subscribed.  A fan-out's members live, and one that has joined   *)
(* is a member of the fan-out that is registered, or about to be dropped.  *)

LEMMA LeaksKept ==
  ASSUME NoPumpLeaks, registered' = registered, registered # NoFanout => members'[registered] = members[registered],
         \A c \in Conns : conn'[c] = "none" => conn[c] = "none", FanTypes
  PROVE  NoPumpLeaks'
<1>1. \A c \in members[registered] : registered # NoFanout => c \in Conns BY DEF FanTypes
<1>q. QED BY <1>1 DEF NoPumpLeaks

LEMMA LeaksStep == ASSUME Types, LinkInv, NoPumpLeaks, FanInv, [Next]_vars PROVE NoPumpLeaks'
<1>t. FanTypes /\ ConnTypes /\ OutTypes /\ PumpTypes /\ LinkTypes
  BY DEF Types, ConnTypes, ClientTypes
<1>1. ASSUME LogEvent PROVE NoPumpLeaks'
  <2>1. UNCHANGED <<registered, members>> BY <1>1 DEF LogEvent, fanVars
  <2>2. \A d \in Conns : conn'[d] = "none" => conn[d] = "none" BY <1>1 DEF LogEvent, connVars
  <2>q. QED BY <1>t, <2>1, <2>2, LeaksKept
<1>2. ASSUME ArchiveNotice PROVE NoPumpLeaks'
  <2>1. UNCHANGED <<registered, members>> BY <1>2 DEF ArchiveNotice, fanVars
  <2>2. \A d \in Conns : conn'[d] = "none" => conn[d] = "none" BY <1>2 DEF ArchiveNotice, connVars
  <2>q. QED BY <1>t, <2>1, <2>2, LeaksKept
<1>3. ASSUME ArchiveMove PROVE NoPumpLeaks'
  <2>1. UNCHANGED <<registered, members>> BY <1>3 DEF ArchiveMove, fanVars
  <2>2. \A d \in Conns : conn'[d] = "none" => conn[d] = "none" BY <1>3 DEF ArchiveMove, connVars
  <2>q. QED BY <1>t, <2>1, <2>2, LeaksKept
<1>4. ASSUME RestoreMove PROVE NoPumpLeaks'
  <2>1. UNCHANGED <<registered, members>> BY <1>4 DEF RestoreMove, fanVars
  <2>2. \A d \in Conns : conn'[d] = "none" => conn[d] = "none" BY <1>4 DEF RestoreMove, connVars
  <2>q. QED BY <1>t, <2>1, <2>2, LeaksKept
<1>5. ASSUME RestoreNotice PROVE NoPumpLeaks'
  <2>1. UNCHANGED <<registered, members>> BY <1>5 DEF RestoreNotice, fanVars
  <2>2. \A d \in Conns : conn'[d] = "none" => conn[d] = "none" BY <1>5 DEF RestoreNotice, connVars
  <2>q. QED BY <1>t, <2>1, <2>2, LeaksKept
<1>6. ASSUME NEW f \in Fanouts, PumpReceive(f) PROVE NoPumpLeaks'
  <2>1. UNCHANGED <<registered, members>> BY <1>6 DEF PumpReceive, fanVars
  <2>2. \A d \in Conns : conn'[d] = "none" => conn[d] = "none" BY <1>6 DEF PumpReceive, connVars
  <2>q. QED BY <1>t, <2>1, <2>2, LeaksKept
<1>7. ASSUME NEW f \in Fanouts, PumpSnapshot(f) PROVE NoPumpLeaks'
  <2>1. UNCHANGED <<registered, members>> BY <1>7 DEF PumpSnapshot, fanVars
  <2>2. \A d \in Conns : conn'[d] = "none" => conn[d] = "none" BY <1>7 DEF PumpSnapshot, connVars
  <2>q. QED BY <1>t, <2>1, <2>2, LeaksKept
<1>8. ASSUME NEW f \in Fanouts, PumpPick(f) PROVE NoPumpLeaks'
  <2>1. UNCHANGED <<registered, members>> BY <1>8 DEF PumpPick, fanVars
  <2>2. \A d \in Conns : conn'[d] = "none" => conn[d] = "none" BY <1>8 DEF PumpPick, connVars
  <2>q. QED BY <1>t, <2>1, <2>2, LeaksKept
<1>9. ASSUME NEW f \in Fanouts, PumpCheck(f) PROVE NoPumpLeaks'
  <2>1. UNCHANGED <<registered, members>> BY <1>9 DEF PumpCheck, fanVars
  <2>2. \A d \in Conns : conn'[d] = "none" => conn[d] = "none" BY <1>9 DEF PumpCheck, connVars
  <2>q. QED BY <1>t, <2>1, <2>2, LeaksKept
<1>10. ASSUME NEW f \in Fanouts, PumpPut(f) PROVE NoPumpLeaks'
  <2>1. UNCHANGED <<registered, members>> BY <1>10 DEF PumpPut, fanVars
  <2>2. \A d \in Conns : conn'[d] = "none" => conn[d] = "none"
    BY <1>10 , <1>t, PutIs DEF IsPut, OthersSame
  <2>q. QED BY <1>t, <2>1, <2>2, LeaksKept
<1>11. ASSUME NEW f \in Fanouts, PumpDrop(f) PROVE NoPumpLeaks'
  <2>1. UNCHANGED <<registered, members>> BY <1>11 DEF PumpDrop, fanVars
  <2>2. \A d \in Conns : conn'[d] = "none" => conn[d] = "none"
    BY <1>11 , <1>t, DropIs DEF IsToldToQuit
  <2>q. QED BY <1>t, <2>1, <2>2, LeaksKept
<1>12. ASSUME NEW c \in Conns, CloseNow(c) PROVE NoPumpLeaks'
  <2>1. UNCHANGED <<registered, members>> BY <1>12 DEF CloseNow, fanVars
  <2>2. \A d \in Conns : conn'[d] = "none" => conn[d] = "none"
    BY <1>12 , <1>t, ShutIs DEF CloseNow, OthersSame
  <2>q. QED BY <1>t, <2>1, <2>2, LeaksKept
<1>13. ASSUME NEW c \in Conns, Lose(c) PROVE NoPumpLeaks'
  <2>1. UNCHANGED <<registered, members>> BY <1>13 DEF Lose, fanVars
  <2>2. \A d \in Conns : conn'[d] = "none" => conn[d] = "none"
    BY <1>13 , <1>t, ShutIs DEF Lose, OthersSame
  <2>q. QED BY <1>t, <2>1, <2>2, LeaksKept
<1>14. ASSUME NEW c \in Conns, ErrorArrives(c) PROVE NoPumpLeaks'
  <2>1. UNCHANGED <<registered, members>> BY <1>14 DEF ErrorArrives, fanVars
  <2>2. \A d \in Conns : conn'[d] = "none" => conn[d] = "none"
    BY <1>14 , <1>t, ShutIs DEF ErrorArrives, OthersSame
  <2>q. QED BY <1>t, <2>1, <2>2, LeaksKept
<1>15. ASSUME NEW c \in Conns, SubscribeGet(c) PROVE NoPumpLeaks'
  <2>1. UNCHANGED <<registered, members>> /\ (Reply(c, ErrorMsg) \/ conn' = conn)
    BY <1>15 DEF SubscribeGet, fanVars
  <2>2. ErrorMsg \in Msgs BY <1>t DEF ErrorMsg, Msgs, ConnTypes
  <2>3. \A d \in Conns : conn'[d] = "none" => conn[d] = "none"
    BY <1>t, <2>1, <2>2, ReplyIs DEF IsQueued, IsRefused, OthersSame
  <2>q. QED BY <1>t, <2>1, <2>3, LeaksKept
<1>16. ASSUME NEW c \in Conns, SubscribeReply(c) PROVE NoPumpLeaks'
  <2>1. UNCHANGED <<registered, members>> /\ (Reply(c, JoinedMsg) \/ conn' = conn)
    BY <1>16 DEF SubscribeReply, fanVars
  <2>2. JoinedMsg \in Msgs BY <1>t DEF JoinedMsg, Msgs, ConnTypes
  <2>3. \A d \in Conns : conn'[d] = "none" => conn[d] = "none"
    BY <1>t, <2>1, <2>2, ReplyIs DEF IsQueued, IsRefused, OthersSame
  <2>q. QED BY <1>t, <2>1, <2>3, LeaksKept
<1>17. ASSUME NEW c \in Conns, ReplayRead(c) PROVE NoPumpLeaks'
  <2>1. UNCHANGED <<registered, members>> /\ (Reply(c, ErrorMsg) \/ conn' = conn)
    BY <1>17 DEF ReplayRead, fanVars
  <2>2. ErrorMsg \in Msgs BY <1>t DEF ErrorMsg, Msgs, ConnTypes
  <2>3. \A d \in Conns : conn'[d] = "none" => conn[d] = "none"
    BY <1>t, <2>1, <2>2, ReplyIs DEF IsQueued, IsRefused, OthersSame
  <2>q. QED BY <1>t, <2>1, <2>3, LeaksKept
<1>18. ASSUME NEW c \in Conns, ReplayAnswer(c) PROVE NoPumpLeaks'
  <2>1. UNCHANGED <<registered, members>> /\ (Reply(c, ReplayMsg(got[c])) \/ conn' = conn)
    BY <1>18 DEF ReplayAnswer, fanVars
  <2>2. ReplayMsg(got[c]) \in Msgs BY <1>t DEF ReplayMsg, Msgs, ConnTypes
  <2>3. \A d \in Conns : conn'[d] = "none" => conn[d] = "none"
    BY <1>t, <2>1, <2>2, ReplyIs DEF IsQueued, IsRefused, OthersSame
  <2>q. QED BY <1>t, <2>1, <2>3, LeaksKept
<1>19. ASSUME NEW c \in Conns, EventArrives(c) PROVE NoPumpLeaks'
  <2>1. UNCHANGED <<registered, members>> BY <1>19 DEF EventArrives, fanVars
  <2>2. \A d \in Conns : conn'[d] = "none" => conn[d] = "none" BY <1>19 DEF EventArrives
  <2>q. QED BY <1>t, <2>1, <2>2, LeaksKept
<1>20. ASSUME NEW c \in Conns, JoinedArrives(c) PROVE NoPumpLeaks'
  <2>1. UNCHANGED <<registered, members>> BY <1>20 DEF JoinedArrives, fanVars
  <2>2. \A d \in Conns : conn'[d] = "none" => conn[d] = "none" BY <1>20 DEF JoinedArrives
  <2>q. QED BY <1>t, <2>1, <2>2, LeaksKept
<1>21. ASSUME NEW c \in Conns, ReplayArrives(c) PROVE NoPumpLeaks'
  <2>1. UNCHANGED <<registered, members>> BY <1>21 DEF ReplayArrives, fanVars
  <2>2. \A d \in Conns : conn'[d] = "none" => conn[d] = "none" BY <1>21 DEF ReplayArrives
  <2>q. QED BY <1>t, <2>1, <2>2, LeaksKept
<1>22. ASSUME NEW k \in Clients, Dial(k) PROVE NoPumpLeaks'
  <2>1. UNCHANGED <<registered, members>> BY <1>22 DEF Dial, fanVars
  <2>2. \A d \in Conns : conn'[d] = "none" => conn[d] = "none" BY <1>22 , <1>t DEF Dial, OutTypes
  <2>q. QED BY <1>t, <2>1, <2>2, LeaksKept
<1>23. ASSUME NEW f \in Fanouts, PumpEnded(f) PROVE NoPumpLeaks'
  <2>1. /\ members' = [members EXCEPT ![f] = {}] /\ conn' = conn
        /\ registered' = IF registered = f THEN NoFanout ELSE registered
    BY <1>23 DEF PumpEnded, connVars
  <2>2. CASE registered = f BY <2>1, <2>2 DEF NoPumpLeaks
  <2>3. CASE registered # f BY <1>t, <2>1, <2>3, LeaksKept DEF FanTypes
  <2>q. QED BY <2>2, <2>3
<1>24. ASSUME NEW c \in Conns, TearDown(c) PROVE NoPumpLeaks'
  <2>1. DropLocked(c) /\ UNCHANGED chan /\ conn' = [conn EXCEPT ![c] = "none"] BY <1>24 DEF TearDown
  <2>2. IsDropped(c) BY <1>t, <2>1, DropLockedIs
  <2>3. ASSUME registered' # NoFanout PROVE members'[registered'] # {} /\ \A d \in members'[registered'] : conn'[d] # "none"
    <3>1. /\ registered' = registered /\ registered # NoFanout
          /\ members'[registered] = members[registered] \ {c} /\ ~(members[registered] \subseteq {c})
      BY <2>2, <2>3 DEF IsDropped
    <3>2. members[registered] \subseteq Conns BY <1>t, <3>1 DEF FanTypes
    <3>3. \A d \in members[registered] : conn[d] # "none" BY <3>1 DEF NoPumpLeaks
    <3>4. \A d \in Conns \ {c} : conn'[d] = conn[d] BY <1>t, <2>1 DEF OutTypes
    <3>q. QED BY <3>1, <3>2, <3>3, <3>4
  <2>q. QED BY <2>3 DEF NoPumpLeaks
<1>25. ASSUME NEW c \in Conns, SubscribeJoin(c) PROVE NoPumpLeaks'
  <2>1. Join(c, got[c]) /\ conn' = conn /\ serving[c] = "join" BY <1>25 DEF SubscribeJoin
  <2>2. IsJoined(c, got[c]) BY <1>t, <2>1, JoinIs
  <2>3. conn[c] # "none" BY <2>1 DEF LinkInv
  <2>4. CASE IsMember(c) BY <2>1, <2>3, <2>4 DEF IsMember, NoPumpLeaks
  <2>5. CASE \E f \in Fanouts : IsFirst(c, got[c], f) BY <2>1, <2>3, <2>5 DEF IsFirst, NoPumpLeaks
  <2>q. QED BY <2>2, <2>4, <2>5 DEF IsJoined
<1>26. ASSUME Restart PROVE NoPumpLeaks'
  <2>1. registered' = NoFanout BY <1>26 DEF Restart
  <2>q. QED BY <2>1 DEF NoPumpLeaks
<1>27. CASE UNCHANGED vars
  <2>1. UNCHANGED <<registered, members, conn>> BY <1>27 DEF vars
  <2>q. QED BY <1>t, <2>1, LeaksKept
<1>q. QED BY <1>1, <1>2, <1>3, <1>4, <1>5, <1>6, <1>7, <1>8, <1>9, <1>10, <1>11, <1>12, <1>13,
   <1>14, <1>15, <1>16, <1>17, <1>18, <1>19, <1>20, <1>21, <1>22, <1>23, <1>24, <1>25, <1>26,
   <1>27 DEF Next, PumpStep, ConnStep, ClientStep

-----------------------------------------------------------------------------
(* What a step does to the fan-outs and their pumps: most do nothing.      *)

Quiet ==
  /\ UNCHANGED <<len, gen, since, registered, members, chan, stream, pump, held, todo, at>>
  /\ \A c \in Conns : serving[c] = "join" => serving'[c] # "joined"

Recorded ==
  /\ Record
  /\ UNCHANGED <<gen, since, registered, members, pump, held, todo, at, conn, serving>>

FanMoves ==
  \/ Quiet \/ Recorded \/ ArchiveMove \/ Restart
  \/ \E f \in Fanouts : PumpStep(f)
  \/ \E c \in Conns : TearDown(c) \/ SubscribeJoin(c)

LEMMA StepIs == ASSUME Types, [Next]_vars PROVE FanMoves
<1>t. \A c \in Conns, s \in {"none", "join", "answer", "replay"}, d \in Conns :
        Serve(c, s) /\ serving[d] = "join" => serving'[d] # "joined"
  BY DEF Types, ConnTypes, Serve
<1>1. CASE LogEvent \/ ArchiveNotice \/ RestoreNotice
  BY <1>1 DEF LogEvent, ArchiveNotice, RestoreNotice, FanMoves, Recorded, pumpVars, connVars,
     cliVars
<1>2. CASE RestoreMove
  BY <1>2 DEF RestoreMove, FanMoves, Quiet, fanVars, pumpVars, connVars, cliVars
<1>3. ASSUME NEW c \in Conns, CloseNow(c) \/ Lose(c) \/ ErrorArrives(c) PROVE FanMoves
  BY <1>3 DEF CloseNow, Lose, ErrorArrives, FanMoves, Quiet, logVars, fanVars, pumpVars
<1>4. ASSUME NEW c \in Conns, EventArrives(c) \/ ReplayArrives(c) PROVE FanMoves
  BY <1>4 DEF EventArrives, ReplayArrives, FanMoves, Quiet, logVars, fanVars, pumpVars
<1>5. ASSUME NEW c \in Conns, JoinedArrives(c) PROVE FanMoves
  BY <1>t, <1>5 DEF JoinedArrives, FanMoves, Quiet, logVars, fanVars, pumpVars
<1>6. ASSUME NEW c \in Conns, SubscribeGet(c) PROVE FanMoves
  <2>1. Serve(c, "none") \/ Serve(c, "join") BY <1>6 DEF SubscribeGet
  <2>2. UNCHANGED <<logVars, fanVars, pumpVars, since>> BY <1>6 DEF SubscribeGet, cliVars
  <2>q. QED BY <1>t, <2>1, <2>2 DEF FanMoves, Quiet, logVars, fanVars, pumpVars
<1>7. ASSUME NEW c \in Conns, SubscribeReply(c) PROVE FanMoves
  <2>1. Serve(c, "none") /\ UNCHANGED <<logVars, fanVars, pumpVars, since>>
    BY <1>7 DEF SubscribeReply, cliVars
  <2>q. QED BY <1>t, <2>1 DEF FanMoves, Quiet, logVars, fanVars, pumpVars
<1>8. ASSUME NEW c \in Conns, ReplayRead(c) PROVE FanMoves
  <2>1. Serve(c, "none") \/ Serve(c, "answer") BY <1>8 DEF ReplayRead
  <2>2. UNCHANGED <<logVars, fanVars, pumpVars, since>> BY <1>8 DEF ReplayRead, cliVars
  <2>q. QED BY <1>t, <2>1, <2>2 DEF FanMoves, Quiet, logVars, fanVars, pumpVars
<1>9. ASSUME NEW c \in Conns, ReplayAnswer(c) PROVE FanMoves
  <2>1. Serve(c, "none") /\ UNCHANGED <<logVars, fanVars, pumpVars, since>>
    BY <1>9 DEF ReplayAnswer, cliVars
  <2>q. QED BY <1>t, <2>1 DEF FanMoves, Quiet, logVars, fanVars, pumpVars
<1>10. ASSUME NEW k \in Clients, Dial(k) PROVE FanMoves
  <2>1. PICK i \in Slots : Serve(<<k, i>>, "subscribe") BY <1>10 DEF Dial
  <2>2. UNCHANGED <<logVars, fanVars, pumpVars, since>> BY <1>10 DEF Dial
  <2>3. \A d \in Conns : serving[d] = "join" => serving'[d] # "joined"
    BY <2>1 DEF Serve, Types, ConnTypes
  <2>q. QED BY <2>2, <2>3 DEF FanMoves, Quiet, logVars, fanVars, pumpVars
<1>11. CASE UNCHANGED vars BY <1>11 DEF vars, FanMoves, Quiet
<1>12. CASE ArchiveMove \/ Restart \/ (\E f \in Fanouts : PumpStep(f))
              \/ (\E c \in Conns : TearDown(c) \/ SubscribeJoin(c))
  BY <1>12 DEF FanMoves
<1>q. QED BY <1>1, <1>2, <1>3, <1>4, <1>5, <1>6, <1>7, <1>8, <1>9, <1>10, <1>11, <1>12
          DEF Next, ConnStep, ClientStep

(* A connection that has joined stands in the fan-out that is registered,  *)
(* or among those its pump is about to drop, unless the session has been   *)
(* archived since.                                                         *)
StandsIn(c) ==
  \/ registered # NoFanout /\ c \in members[registered]
  \/ \E f \in Fanouts : pump[f] \in {"check", "drop"} /\ c \in todo[f]

StandInv == \A c \in Conns : conn[c] = "open" /\ HasJoined(c) /\ since[c] = gen => StandsIn(c)

LEMMA StandKept ==
  ASSUME StandInv, NEW c \in Conns, Opens(c), gen' = gen, since'[c] = since[c],
         serving[c] = "join" => serving'[c] # "joined",
         conn[c] = "open" /\ conn'[c] = "open" /\ since[c] = gen /\ StandsIn(c) => StandsIn(c)'
  PROVE  conn'[c] = "open" /\ HasJoined(c)' /\ since'[c] = gen' => StandsIn(c)'
BY Zenon DEF StandInv, Opens

LEMMA StandsSame ==
  ASSUME NEW c \in Conns, registered' = registered,
         registered # NoFanout /\ c \in members[registered] => c \in members'[registered],
         \A f \in Fanouts : pump[f] \in {"check", "drop"} /\ c \in todo[f] =>
                              pump'[f] \in {"check", "drop"} /\ c \in todo'[f],
         StandsIn(c)
  PROVE  StandsIn(c)'
BY DEF StandsIn

LEMMA StandStep ==
  ASSUME Types, Types', FanInv, SinceInv, StandInv, \A c \in Conns : Opens(c), [Next]_vars
  PROVE  StandInv'
<1>t. FanTypes /\ PumpTypes /\ ConnTypes /\ OutTypes /\ ClientTypes /\ gen \in Nat
  BY DEF Types, ConnTypes, LogTypes
<1>s. ASSUME gen' = gen, since' = since, \A c \in Conns : serving[c] = "join" => serving'[c] # "joined",
             \A c \in Conns : conn[c] = "open" /\ conn'[c] = "open" /\ since[c] = gen /\ StandsIn(c)
                                => StandsIn(c)'
      PROVE  StandInv'
  BY <1>s, StandKept DEF StandInv
<1>1. ASSUME Quiet PROVE StandInv'
  <2>1. UNCHANGED <<gen, since, registered, members, pump, todo>> BY <1>1 DEF Quiet
  <2>2. \A c \in Conns : StandsIn(c) => StandsIn(c)' BY <2>1, StandsSame
  <2>q. QED BY <1>1, <1>s, <2>1, <2>2 DEF Quiet
<1>2. ASSUME Recorded PROVE StandInv'
  <2>1. UNCHANGED <<gen, since, registered, members, pump, todo, serving>> BY <1>2 DEF Recorded
  <2>2. \A c \in Conns : StandsIn(c) => StandsIn(c)' BY <2>1, StandsSame
  <2>q. QED BY <1>s, <2>1, <2>2
<1>3. ASSUME ArchiveMove PROVE StandInv'
  <2>1. gen' = gen + 1 /\ since' = since BY <1>3 DEF ArchiveMove, cliVars
  <2>2. \A c \in Conns : since[c] <= gen /\ since[c] \in Nat
    BY <1>t DEF SinceInv, SinceRow, ClientTypes
  <2>3. \A c \in Conns : since'[c] # gen' BY <1>t, <2>1, <2>2
  <2>q. QED BY <2>3 DEF StandInv
<1>4. ASSUME Restart PROVE StandInv'
  <2>1. conn' = [c \in Conns |-> "none"] BY <1>4 DEF Restart
  <2>q. QED BY <2>1 DEF StandInv
<1>5. ASSUME NEW f \in Fanouts, pump[f] \notin {"check", "drop"}, UNCHANGED <<logVars, registered, members, serving, since>>,
             \A g \in Fanouts \ {f} : pump'[g] = pump[g] /\ todo'[g] = todo[g]
      PROVE  StandInv'
  <2>1. \A c \in Conns : StandsIn(c) => StandsIn(c)' BY <1>5, StandsSame
  <2>q. QED BY <1>5, <1>s, <2>1 DEF logVars
<1>6. ASSUME NEW f \in Fanouts, PumpReceive(f) \/ PumpSnapshot(f) \/ PumpPick(f) \/ PumpPut(f)
      PROVE  StandInv'
  <2>1. pump[f] \notin {"check", "drop"}
    BY <1>6 DEF PumpReceive, PumpSnapshot, PumpPick, PumpPut
  <2>2. UNCHANGED <<logVars, registered, members, serving, since>>
    BY <1>6 DEF PumpReceive, PumpSnapshot, PumpPick, PumpPut, fanVars, connVars, cliVars
  <2>3. ASSUME NEW left, Sent(f, left) PROVE \A g \in Fanouts \ {f} : pump'[g] = pump[g]
    BY <1>t, <2>3, SentIs DEF IsSent
  <2>4. \A g \in Fanouts \ {f} : pump'[g] = pump[g]
    <3>1. CASE PumpReceive(f) BY <1>t, <3>1 DEF PumpReceive, PumpTypes
    <3>2. CASE PumpSnapshot(f) BY <2>3, <3>2 DEF PumpSnapshot
    <3>3. CASE PumpPick(f) BY <2>3, <3>3 DEF PumpPick
    <3>4. CASE PumpPut(f) BY <2>3, <3>4 DEF PumpPut
    <3>q. QED BY <1>6, <3>1, <3>2, <3>3, <3>4
  <2>5. \A g \in Fanouts \ {f} : todo'[g] = todo[g]
    BY <1>t, <1>6 DEF PumpReceive, PumpSnapshot, PumpPick, PumpPut, PumpTypes
  <2>q. QED BY <1>5, <2>1, <2>2, <2>4, <2>5
<1>7. ASSUME NEW f \in Fanouts, PumpEnded(f) PROVE StandInv'
  <2>1. /\ UNCHANGED <<gen, since, serving>> /\ members' = [members EXCEPT ![f] = {}] /\ pump[f] = "recv"
        /\ \/ /\ registered = f /\ registered' = NoFanout
              /\ todo' = [todo EXCEPT ![f] = members[f]] /\ pump' = [pump EXCEPT ![f] = "check"]
           \/ /\ registered # f /\ registered' = registered
              /\ todo' = [todo EXCEPT ![f] = {}] /\ pump' = [pump EXCEPT ![f] = "none"]
    BY <1>7 DEF PumpEnded, PumpGone, logVars, connVars, cliVars
  <2>2. ASSUME NEW c \in Conns, StandsIn(c) PROVE StandsIn(c)'
    <3>1. \A g \in Fanouts : pump[g] \in {"check", "drop"} => g # f /\ pump'[g] = pump[g] /\ todo'[g] = todo[g]
      BY <1>t, <2>1 DEF PumpTypes
    <3>2. CASE registered = f
      <4>1. pump'[f] = "check" /\ todo'[f] = members[f]
        BY <1>t, <2>1, <3>2, NoneAssumption DEF PumpTypes
      <4>q. QED BY <2>2, <3>1, <3>2, <4>1 DEF StandsIn
    <3>3. CASE registered # f
      <4>1. registered' = registered /\ (registered # NoFanout => members'[registered] = members[registered])
        BY <1>t, <2>1, <3>3 DEF FanTypes
      <4>q. QED BY <2>2, <3>1, <4>1, StandsSame
    <3>q. QED BY <3>2, <3>3
  <2>q. QED BY <1>s, <2>1, <2>2
<1>8. ASSUME NEW f \in Fanouts, PumpCheck(f) PROVE StandInv'
  <2>1. /\ UNCHANGED <<gen, since, serving, registered, members>>
        /\ archived \/ (pump' = [pump EXCEPT ![f] = "drop"] /\ todo' = todo)
    BY <1>8 DEF PumpCheck, logVars, fanVars, connVars, cliVars
  <2>2. ASSUME NEW c \in Conns, since[c] = gen, StandsIn(c) PROVE StandsIn(c)'
    <3>1. ~archived
      <4>1. archived => since[c] < gen /\ since[c] \in Nat
        BY <1>t DEF SinceInv, SinceRow, ClientTypes
      <4>q. QED BY <1>t, <2>2, <4>1
    <3>2. \A g \in Fanouts : /\ todo'[g] = todo[g]
                             /\ pump[g] \in {"check", "drop"} => pump'[g] \in {"check", "drop"}
      BY <1>t, <2>1, <3>1 DEF PumpTypes
    <3>q. QED BY <2>1, <2>2, <3>2, StandsSame
  <2>q. QED BY <1>s, <2>1, <2>2
<1>9. ASSUME NEW f \in Fanouts, PumpDrop(f) PROVE StandInv'
  <2>1. /\ UNCHANGED <<gen, since, serving, registered, members>>
        /\ \/ todo[f] = {} /\ todo' = [todo EXCEPT ![f] = {}] /\ pump' = [pump EXCEPT ![f] = "none"]
           \/ \E d \in todo[f] :
                /\ todo' = [todo EXCEPT ![f] = @ \ {d}] /\ pump' = pump
                /\ conn' = [conn EXCEPT ![d] = IF @ = "open" THEN "quit" ELSE @]
    BY <1>9 DEF PumpDrop, PumpGone, logVars, fanVars, cliVars
  <2>2. ASSUME NEW c \in Conns, conn'[c] = "open", StandsIn(c) PROVE StandsIn(c)'
    <3>1. CASE todo[f] = {} /\ todo' = [todo EXCEPT ![f] = {}] /\ pump' = [pump EXCEPT ![f] = "none"]
      <4>1. \A g \in Fanouts : pump[g] \in {"check", "drop"} /\ c \in todo[g] =>
                                 pump'[g] = pump[g] /\ todo'[g] = todo[g]
        BY <1>t, <3>1 DEF PumpTypes
      <4>q. QED BY <2>1, <2>2, <4>1, StandsSame
    <3>2. ASSUME NEW d \in todo[f], todo' = [todo EXCEPT ![f] = @ \ {d}], pump' = pump,
                 conn' = [conn EXCEPT ![d] = IF @ = "open" THEN "quit" ELSE @]
          PROVE  StandsIn(c)'
      <4>1. c # d BY <1>t, <2>2, <3>2 DEF OutTypes
      <4>2. \A g \in Fanouts : c \in todo[g] => c \in todo'[g] BY <1>t, <3>2, <4>1 DEF PumpTypes
      <4>q. QED BY <2>1, <2>2, <3>2, <4>2, StandsSame
    <3>q. QED BY <2>1, <3>1, <3>2
  <2>q. QED BY <1>s, <2>1, <2>2
<1>10. ASSUME NEW d \in Conns, TearDown(d) PROVE StandInv'
  <2>1. /\ DropLocked(d) /\ UNCHANGED <<gen, serving, chan, pump, todo>>
        /\ conn' = [conn EXCEPT ![d] = "none"] /\ since' = [since EXCEPT ![d] = 0]
    BY <1>10 DEF TearDown, logVars, pumpVars
  <2>2. IsDropped(d) BY <1>t, <2>1, DropLockedIs
  <2>3. ASSUME NEW c \in Conns, conn'[c] = "open", StandsIn(c) PROVE StandsIn(c)'
    <3>1. c # d BY <1>t, <2>1, <2>3 DEF OutTypes
    <3>2. ASSUME registered # NoFanout, c \in members[registered]
          PROVE  registered' = registered /\ c \in members'[registered]
      BY <2>2, <3>1, <3>2 DEF IsDropped
    <3>q. QED BY <2>1, <2>3, <3>2 DEF StandsIn
  <2>4. ASSUME NEW c \in Conns
        PROVE  conn'[c] = "open" /\ HasJoined(c)' /\ since'[c] = gen' => StandsIn(c)'
    <3>1. CASE c = d BY <1>t, <2>1, <3>1 DEF OutTypes
    <3>2. CASE c # d
      <4>1. since'[c] = since[c] BY <1>t, <2>1, <3>2 DEF ClientTypes
      <4>q. QED BY <2>1, <2>3, <4>1, StandKept
    <3>q. QED BY <3>1, <3>2
  <2>q. QED BY <2>4 DEF StandInv
<1>11. ASSUME NEW d \in Conns, SubscribeJoin(d) PROVE StandInv'
  <2>1. /\ Join(d, got[d]) /\ UNCHANGED <<gen, conn>>
        /\ serving' = [serving EXCEPT ![d] = "joined"] /\ since' = [since EXCEPT ![d] = got[d]]
    BY <1>11 DEF SubscribeJoin, Serve, logVars
  <2>2. IsJoined(d, got[d]) BY <1>t, <2>1, JoinIs
  <2>3. StandsIn(d)'
    <3>1. registered' # NoFanout /\ d \in members'[registered']
      BY <2>2, NoneAssumption DEF IsJoined, IsMember, IsFirst
    <3>q. QED BY <3>1 DEF StandsIn
  <2>4. ASSUME NEW c \in Conns \ {d}, StandsIn(c) PROVE StandsIn(c)'
    <3>1. CASE IsMember(d) BY <2>4, <3>1, StandsSame DEF IsMember
    <3>2. ASSUME NEW f \in Fanouts, IsFirst(d, got[d], f) PROVE StandsIn(c)'
      <4>1. \A g \in Fanouts : pump[g] \in {"check", "drop"} => pump'[g] = pump[g] /\ todo'[g] = todo[g]
        BY <3>2 DEF IsFirst
      <4>q. QED BY <2>4, <3>2, <4>1 DEF IsFirst, StandsIn
    <3>q. QED BY <2>2, <3>1, <3>2 DEF IsJoined
  <2>5. \A c \in Conns \ {d} : since'[c] = since[c] /\ serving'[c] = serving[c]
    BY <1>t, <2>1 DEF ClientTypes, ConnTypes
  <2>6. \A c \in Conns \ {d} : conn'[c] = "open" /\ HasJoined(c)' /\ since'[c] = gen' => StandsIn(c)'
    BY <2>1, <2>4, <2>5, StandKept
  <2>q. QED BY <2>3, <2>6 DEF StandInv
<1>12. FanMoves BY StepIs
<1>q. QED BY <1>1, <1>2, <1>3, <1>4, <1>6, <1>7, <1>8, <1>9, <1>10, <1>11, <1>12 DEF FanMoves,
   PumpStep

-----------------------------------------------------------------------------
(* What a pump will send is in turn: who is still to get the event it      *)
(* holds knows the one before.                                             *)
SendsTo(f, c) == (pump[f] = "send" /\ c \in todo[f] /\ conn[c] = "open") \/ (at[f] = c /\ Live(c))
SendRow(f, c) == SendsTo(f, c) => \A e \in Nat : held[f] = e + 1 => Knows(c, e)
SendInv == \A f \in Fanouts, c \in Conns : SendRow(f, c)

LEMMA PutIsReady == ASSUME Types, FanInv, SendInv PROVE PutReady
<1> SUFFICES ASSUME NEW f \in Fanouts, NEW c \in Conns, at[f] = c, Live(c)
             PROVE  held[f] \in 2..len /\ Knows(c, held[f] - 1)
  BY DEF PutReady
<1>1. pump[f] = "send" /\ held[f] \in 2..len BY ConnsAre DEF FanInv, FanRow, PumpRow, HeldRow
<1>2. PICK e \in Nat : held[f] = e + 1 BY <1>1 DEF Types, LogTypes
<1>3. Knows(c, e) BY <1>2 DEF SendInv, SendRow, SendsTo
<1>4. held[f] - 1 = e BY <1>2
<1>q. QED BY <1>1, <1>3, <1>4

(* A pump goes on sending the event it holds, to those it has left. *)
SendsOn(f) ==
  pump'[f] = "send" =>
    /\ pump[f] = "send" /\ held'[f] = held[f] /\ todo'[f] \subseteq todo[f]
    /\ \/ at'[f] = at[f] \/ at'[f] = NoConn
       \/ at'[f] \in todo[f] /\ conn[at'[f]] = "open"

LEMMA SendKept ==
  ASSUME Types, FanInv, FanInv', SendInv, FitsStep, NEW f \in Fanouts, NEW c \in Conns, Opens(c), SendsOn(f)
  PROVE  SendRow(f, c)'
<1> SUFFICES ASSUME SendsTo(f, c)' PROVE \A e \in Nat : held'[f] = e + 1 => Knows(c, e)'
  BY DEF SendRow
<1>0. c # NoConn BY ConnsAre
<1>1. Live(c)' /\ pump'[f] = "send" BY <1>0 DEF SendsTo, Live, FanInv, FanRow, PumpRow
<1>2. pump[f] = "send" /\ held'[f] = held[f] BY <1>1 DEF SendsOn
<1>3. held[f] \in 2..len BY <1>2 DEF FanInv, FanRow, HeldRow
<1>4. SendsTo(f, c) /\ Live(c)
  <2>1. CASE conn'[c] = "open" /\ c \in todo'[f]
    <3>1. c \in todo[f] BY <1>1, <2>1 DEF SendsOn
    <3>2. conn[c] = "open" BY <2>1, <3>1 DEF Opens, Vacant
    <3>q. QED BY <1>2, <3>1, <3>2 DEF SendsTo, Live
  <2>2. CASE at'[f] = c
    <3>1. CASE at[f] = c
      <4>1. Live(c) BY <1>1, <3>1 DEF Opens, Vacant
      <4>q. QED BY <3>1, <4>1 DEF SendsTo
    <3>2. CASE c \in todo[f] /\ conn[c] = "open" BY <1>2, <3>2 DEF SendsTo, Live
    <3>q. QED BY <1>0, <1>1, <2>2, <3>1, <3>2 DEF SendsOn
  <2>q. QED BY <2>1, <2>2 DEF SendsTo
<1>5. ASSUME NEW e \in Nat, held'[f] = e + 1 PROVE Knows(c, e)'
  <2>1. Knows(c, e) BY <1>2, <1>4, <1>5 DEF SendInv, SendRow
  <2>2. e \in Nat \ {0} BY <1>2, <1>3, <1>5 DEF Types, LogTypes
  <2>q. QED BY <1>1, <1>4, <2>1, <2>2 DEF FitsStep, Carries
<1>q. QED BY <1>5

(* What is still to come to a subscriber, from the fan-out it is in and    *)
(* from those that are ending.                                             *)
Awaits(f, c, e) ==
  \/ pump[f] = "recv" /\ chan[f] = <<>> /\ stream[f] = "fed" /\ e = len
  \/ pump[f] = "recv" /\ chan[f] # <<>> /\ chan[f][1] = e + 1
  \/ pump[f] = "snap" /\ held[f] = e + 1
  \/ pump[f] = "send" /\ c \notin todo[f] /\ at[f] # c /\ held[f] = e

Carried(g, e) ==
  \/ \E i \in 1..Len(chan[g]) : chan[g][i] = e
  \/ pump[g] \in {"snap", "send"} /\ held[g] = e

(* A subscriber knows what came before the next event its fan-out sends    *)
(* it, and has the base of all that an ending one still does.              *)
NextRow(f, c) == \A e \in Nat \ {0} : Awaits(f, c, e) => Knows(c, e)
OldRow(g, c)  == \A e \in Nat \ {0} : Carried(g, e) => Base(c, e)
IsSubscribed(f, c) == registered = f /\ c \in members[f] /\ conn[c] = "open"

FlowRow(f, c) ==
  IsSubscribed(f, c) => NextRow(f, c) /\ \A g \in Fanouts \ {f} : OldRow(g, c)
FlowInv == \A f \in Fanouts, c \in Conns : FlowRow(f, c)

(* What a replay gives it gives from the start. *)
LEMMA BaseDown ==
  ASSUME Types, ClientInv, NEW c \in Conns, NEW e \in Nat \ {0}, NEW x \in Nat, Base(c, x), e <= x
  PROVE  Base(c, e)
<1>0. Client(c) \in Clients BY ConnsAre
<1>1. RowTypes(c) BY RowsAre
<1>2. e \in 1..len BY <1>1 DEF Base, RowTypes
<1>3. ASSUME phase[Client(c)] = "streaming" PROVE e \in shown[Client(c)]
  <2>1. PICK n \in 0..len : shown[Client(c)] = 1..n BY <1>0 DEF ClientInv, Shows
  <2>2. x \in 1..n BY <1>3, <2>1 DEF Base
  <2>q. QED BY <1>1, <2>1, <2>2 DEF RowTypes
<1>4. serving[c] = "answer" => e <= got[c] BY <1>1 DEF Base, RowTypes
<1>5. \A i \in 1..Len(out[c]) : out[c][i].kind = "replay" => e <= out[c][i].at
  BY <1>1 DEF Base, RowTypes
<1>q. QED BY <1>2, <1>3, <1>4, <1>5 DEF Base

LEMMA SnapshotSends ==
  ASSUME Types, FanInv, SendInv, FlowInv, ClientInv, FitsStep, NEW f \in Fanouts, PumpSnapshot(f)
  PROVE  \A c \in Conns : SendRow(f, c)'
<1>t. PumpTypes /\ FanTypes BY DEF Types
<1>1. /\ pump[f] = "snap" /\ todo' = [todo EXCEPT ![f] = Subscribers] /\ Sent(f, Subscribers)
      /\ at' = at /\ conn' = conn
  BY DEF PumpSnapshot, connVars
<1>2. IsSent(f, Subscribers) BY <1>t, <1>1, SentIs
<1>3. at[f] = NoConn /\ held[f] \in 2..len BY <1>1 DEF FanInv, FanRow, PumpRow, HeldRow
<1>4. ASSUME NEW c \in Conns, SendsTo(f, c)', NEW e \in Nat, held'[f] = e + 1 PROVE Knows(c, e)'
  <2>1. pump'[f] = "send" /\ c \in todo'[f] /\ conn[c] = "open"
    BY <1>1, <1>3, <1>4, ConnsAre DEF SendsTo
  <2>2. c \in Subscribers /\ held'[f] = held[f] BY <1>t, <1>1, <1>2, <2>1 DEF PumpTypes, IsSent
  <2>3. registered \in Fanouts /\ IsSubscribed(registered, c)
    BY <1>t, <2>1, <2>2 DEF Subscribers, IsSubscribed, FanTypes
  <2>4. e \in Nat \ {0} /\ held[f] = e + 1 BY <1>3, <1>4, <2>2 DEF Types, LogTypes
  <2>5. Knows(c, e)
    <3>1. CASE registered = f BY <1>1, <2>3, <2>4, <3>1 DEF FlowInv, FlowRow, NextRow, Awaits
    <3>2. CASE registered # f
      <4>1. Carried(f, held[f]) /\ held[f] \in Nat \ {0} BY <1>1, <1>3 DEF Carried, Types, LogTypes
      <4>2. Base(c, held[f]) BY <2>3, <3>2, <4>1 DEF FlowInv, FlowRow, OldRow
      <4>3. Base(c, e) BY <2>4, <4>1, <4>2, BaseDown
      <4>q. QED BY <4>3 DEF Knows
    <3>q. QED BY <3>1, <3>2
  <2>6. Live(c) /\ Live(c)' BY <1>1, <2>1 DEF Live
  <2>q. QED BY <2>4, <2>5, <2>6 DEF FitsStep, Carries
<1>q. QED BY <1>4 DEF SendRow

LEMMA SendStep ==
  ASSUME Types, FanInv, FanInv', SendInv, FlowInv, ClientInv, FitsStep, \A c \in Conns : Opens(c),
         [Next]_vars
  PROVE  SendInv'
<1>t. FanTypes /\ PumpTypes BY DEF Types
<1>s. ASSUME \A f \in Fanouts : SendsOn(f) PROVE SendInv'
  <2>1. \A f \in Fanouts, c \in Conns : SendRow(f, c)' BY <1>s, SendKept
  <2>q. QED BY <2>1 DEF SendInv
<1>0. ASSUME UNCHANGED <<pump, held, todo, at>> PROVE SendInv'
  BY <1>0, <1>s DEF SendsOn
<1>1. ASSUME Quiet PROVE SendInv' BY <1>1, <1>0 DEF Quiet
<1>2. ASSUME Recorded PROVE SendInv' BY <1>2, <1>0 DEF Recorded
<1>3. ASSUME ArchiveMove PROVE SendInv' BY <1>3, <1>0 DEF ArchiveMove, pumpVars
<1>4. ASSUME Restart PROVE SendInv'
  <2>1. \A f \in Fanouts : pump'[f] = "none" BY <1>4 DEF Restart
  <2>q. QED BY <1>s, <2>1 DEF SendsOn
<1>5. ASSUME NEW f \in Fanouts, PumpReceive(f) PROVE SendInv'
  <2>1. \A g \in Fanouts : pump'[g] = "send" => g # f
    BY <1>t, <1>5 DEF PumpReceive, PumpTypes
  <2>2. \A g \in Fanouts \ {f} : pump'[g] = pump[g] /\ held'[g] = held[g]
    BY <1>t, <1>5 DEF PumpReceive, PumpTypes
  <2>3. todo' = todo /\ at' = at BY <1>5 DEF PumpReceive
  <2>q. QED BY <1>s, <2>1, <2>2, <2>3 DEF SendsOn
<1>6. ASSUME NEW f \in Fanouts, PumpSnapshot(f) PROVE SendInv'
  <2>1. Sent(f, Subscribers) /\ todo' = [todo EXCEPT ![f] = Subscribers] /\ at' = at
    BY <1>6 DEF PumpSnapshot
  <2>2. IsSent(f, Subscribers) BY <1>t, <2>1, SentIs
  <2>3. \A g \in Fanouts \ {f} : SendsOn(g) BY <1>t, <2>1, <2>2 DEF IsSent, PumpTypes, SendsOn
  <2>4. \A g \in Fanouts \ {f}, c \in Conns : SendRow(g, c)' BY <2>3, SendKept
  <2>5. \A c \in Conns : SendRow(f, c)' BY <1>6, SnapshotSends
  <2>q. QED BY <2>4, <2>5 DEF SendInv
<1>7. ASSUME NEW f \in Fanouts, PumpPick(f) PROVE SendInv'
  <2>1. PICK c \in todo[f] :
             /\ todo' = [todo EXCEPT ![f] = @ \ {c}]
             /\ \/ conn[c] = "open" /\ at' = [at EXCEPT ![f] = c] /\ UNCHANGED <<pump, held>>
                \/ Sent(f, todo[f] \ {c}) /\ UNCHANGED at
    BY <1>7 DEF PumpPick
  <2>2. pump[f] = "send" BY <1>7 DEF PumpPick
  <2>3. \A g \in Fanouts : todo'[g] \subseteq todo[g] BY <1>t, <2>1 DEF PumpTypes
  <2>4. CASE conn[c] = "open" /\ at' = [at EXCEPT ![f] = c] /\ UNCHANGED <<pump, held>>
    <3>1. at'[f] = c /\ \A g \in Fanouts \ {f} : at'[g] = at[g] BY <1>t, <2>4 DEF PumpTypes
    <3>q. QED BY <1>s, <2>1, <2>3, <2>4, <3>1 DEF SendsOn
  <2>5. CASE Sent(f, todo[f] \ {c}) /\ UNCHANGED at
    <3>1. IsSent(f, todo[f] \ {c}) BY <1>t, <2>5, SentIs
    <3>q. QED BY <1>s, <2>2, <2>3, <2>5, <3>1 DEF SendsOn, IsSent
  <2>q. QED BY <2>1, <2>4, <2>5
<1>8. ASSUME NEW f \in Fanouts, PumpPut(f) PROVE SendInv'
  <2>1. /\ pump[f] = "send" /\ at' = [at EXCEPT ![f] = NoConn] /\ Sent(f, todo[f]) /\ todo' = todo
    BY <1>8 DEF PumpPut
  <2>2. IsSent(f, todo[f]) BY <1>t, <2>1, SentIs
  <2>3. \A g \in Fanouts : at'[g] = at[g] \/ at'[g] = NoConn BY <1>t, <2>1 DEF PumpTypes
  <2>q. QED BY <1>s, <2>1, <2>2, <2>3 DEF SendsOn, IsSent
<1>9. ASSUME NEW f \in Fanouts, UNCHANGED <<held, at>>, pump'[f] # "send",
             \A g \in Fanouts \ {f} : pump'[g] = pump[g] /\ todo'[g] = todo[g]
      PROVE  SendInv'
  BY <1>9, <1>s DEF SendsOn
<1>10. ASSUME NEW f \in Fanouts, PumpEnded(f) \/ PumpCheck(f) \/ PumpDrop(f) PROVE SendInv'
  <2>1. /\ UNCHANGED <<held, at>> /\ pump[f] # "send"
        /\ \/ pump' = pump \/ \E s \in {"none", "check", "drop"} : pump' = [pump EXCEPT ![f] = s]
    BY <1>10 DEF PumpEnded, PumpCheck, PumpDrop, PumpGone
  <2>2. pump'[f] # "send" /\ \A g \in Fanouts \ {f} : pump'[g] = pump[g] BY <1>t, <2>1 DEF PumpTypes
  <2>3. \A g \in Fanouts \ {f} : todo'[g] = todo[g]
    BY <1>t, <1>10 DEF PumpEnded, PumpCheck, PumpDrop, PumpGone, PumpTypes
  <2>q. QED BY <1>9, <2>1, <2>2, <2>3
<1>11. ASSUME NEW c \in Conns, TearDown(c) PROVE SendInv' BY <1>11, <1>0 DEF TearDown, pumpVars
<1>12. ASSUME NEW c \in Conns, SubscribeJoin(c) PROVE SendInv'
  <2>1. Join(c, got[c]) BY <1>12 DEF SubscribeJoin
  <2>2. IsJoined(c, got[c]) BY <1>t, <2>1, JoinIs
  <2>3. UNCHANGED <<held, todo, at>> BY <2>2 DEF IsJoined, IsMember, IsFirst
  <2>4. \A g \in Fanouts : pump'[g] = "send" => pump[g] = "send"
    BY <2>2 DEF IsJoined, IsMember, IsFirst
  <2>q. QED BY <1>s, <2>3, <2>4 DEF SendsOn
<1>13. FanMoves BY StepIs
<1>q. QED BY <1>1, <1>2, <1>3, <1>4, <1>5, <1>6, <1>7, <1>8, <1>10, <1>11, <1>12, <1>13
          DEF FanMoves, PumpStep

(* Nothing new comes to a subscriber but what it goes on to know. *)
ComesNext(f, c) ==
  \A e \in Nat \ {0} : Awaits(f, c, e)' => Awaits(f, c, e) \/ (conn'[c] = "open" => Knows(c, e)')
NothingNew(f) == \A g \in Fanouts \ {f}, e \in Nat \ {0} : Carried(g, e)' => Carried(g, e)

LEMMA FlowKept ==
  ASSUME FanTypes, FlowInv, FitsStep, NoPumpLeaks, NEW f \in Fanouts, NEW c \in Conns, Opens(c),
         registered = f, c \in members[f], ComesNext(f, c), NothingNew(f)
  PROVE  FlowRow(f, c)'
<1> SUFFICES ASSUME conn'[c] = "open"
             PROVE  NextRow(f, c)' /\ \A g \in Fanouts \ {f} : OldRow(g, c)'
  BY DEF FlowRow, IsSubscribed
<1>1. conn[c] = "open" BY NoneAssumption DEF NoPumpLeaks, Opens, Vacant
<1>2. IsSubscribed(f, c) BY <1>1 DEF IsSubscribed
<1>3. Live(c) /\ Live(c)' BY <1>1 DEF Live
<1>4. Carries(c) BY <1>3 DEF FitsStep
<1>5. ASSUME NEW e \in Nat \ {0}, Awaits(f, c, e)' PROVE Knows(c, e)'
  <2>1. CASE Awaits(f, c, e)
    <3>1. Knows(c, e) BY <1>2, <2>1 DEF FlowInv, FlowRow, NextRow
    <3>q. QED BY <1>4, <3>1 DEF Carries
  <2>q. QED BY <1>5, <2>1 DEF ComesNext
<1>6. ASSUME NEW g \in Fanouts \ {f}, NEW e \in Nat \ {0}, Carried(g, e)' PROVE Base(c, e)'
  <2>1. Carried(g, e) BY <1>6 DEF NothingNew
  <2>2. Base(c, e) BY <1>2, <2>1 DEF FlowInv, FlowRow, OldRow
  <2>q. QED BY <1>4, <2>2 DEF Carries
<1>q. QED BY <1>5, <1>6 DEF NextRow, OldRow

(* A step that keeps the fan-out that is registered, and adds nobody. *)
LEMMA FlowsOn ==
  ASSUME FanTypes, FlowInv, FitsStep, NoPumpLeaks, \A c \in Conns : Opens(c),
         \A f \in Fanouts, c \in Conns : registered' = f /\ c \in members'[f] =>
           registered = f /\ c \in members[f] /\ (conn'[c] = "open" => ComesNext(f, c)) /\ NothingNew(f)
  PROVE  FlowInv'
<1>1. ASSUME NEW f \in Fanouts, NEW c \in Conns PROVE FlowRow(f, c)'
  <2>1. CASE registered' = f /\ c \in members'[f] /\ conn'[c] = "open" BY <2>1, FlowKept
  <2>q. QED BY <2>1 DEF FlowRow, IsSubscribed
<1>q. QED BY <1>1 DEF FlowInv

AwaitsSame(f, c) ==
  /\ pump'[f] = pump[f] /\ chan'[f] = chan[f] /\ held'[f] = held[f] /\ at'[f] = at[f]
  /\ todo'[f] = todo[f] /\ (stream'[f] = "fed" => stream[f] = "fed") /\ len' = len

LEMMA SameComes ==
  ASSUME NEW f \in Fanouts, NEW c \in Conns, AwaitsSame(f, c)
  PROVE  ComesNext(f, c)
BY DEF ComesNext, Awaits, AwaitsSame

LEMMA SameCarried ==
  ASSUME NEW f \in Fanouts,
         \A g \in Fanouts \ {f} : /\ chan'[g] = chan[g]
                                  /\ pump'[g] \in {"snap", "send"} => pump[g] \in {"snap", "send"} /\ held'[g] = held[g]
  PROVE  NothingNew(f)
<1>1. ASSUME NEW g \in Fanouts \ {f}, NEW e \in Nat \ {0}, Carried(g, e)' PROVE Carried(g, e)
  BY <1>1 DEF Carried
<1>q. QED BY <1>1 DEF NothingNew

(* The pump takes the next event, and holds what was in its channel. *)
LEMMA ReceiveFlows ==
  ASSUME Types, FanInv, FlowInv, FitsStep, NoPumpLeaks, \A c \in Conns : Opens(c),
         NEW f \in Fanouts, PumpReceive(f)
  PROVE  FlowInv'
<1>t. FanTypes /\ PumpTypes BY DEF Types
<1>1. /\ pump[f] = "recv" /\ chan[f] # <<>> /\ UNCHANGED <<len, registered, members, stream, todo, at>>
      /\ pump' = [pump EXCEPT ![f] = "snap"] /\ held' = [held EXCEPT ![f] = Head(chan[f])]
      /\ chan' = [chan EXCEPT ![f] = Tail(@)]
  BY DEF PumpReceive, logVars
<1>2. /\ pump'[f] = "snap" /\ held'[f] = Head(chan[f]) /\ chan'[f] = Tail(chan[f])
      /\ \A g \in Fanouts \ {f} : pump'[g] = pump[g] /\ held'[g] = held[g] /\ chan'[g] = chan[g]
  BY <1>t, <1>1 DEF FanTypes, PumpTypes
<1>3. /\ Len(chan[f]) \in Nat \ {0} /\ Len(Tail(chan[f])) = Len(chan[f]) - 1 /\ Head(chan[f]) = chan[f][1]
      /\ \A i \in 1..(Len(chan[f]) - 1) : Tail(chan[f])[i] = chan[f][i + 1]
  <2>1. chan[f] \in Seq(Nat) BY <1>t DEF FanTypes, Events
  <2>q. QED BY <1>1, <2>1, TailIs
<1>4. ASSUME NEW c \in Conns PROVE ComesNext(f, c)
  <2>1. \A e \in Nat \ {0} : Awaits(f, c, e)' => held'[f] = e + 1 BY <1>2 DEF Awaits
  <2>2. \A e \in Nat \ {0} : chan[f][1] = e + 1 => Awaits(f, c, e) BY <1>1 DEF Awaits
  <2>q. QED BY <1>2, <1>3, <2>1, <2>2 DEF ComesNext
<1>5. ASSUME NEW e \in Nat \ {0}, Carried(f, e)' PROVE Carried(f, e)
  <2>1. CASE held'[f] = e
    <3>1. 1 \in 1..Len(chan[f]) BY <1>3
    <3>q. QED BY <1>2, <1>3, <2>1, <3>1 DEF Carried
  <2>2. ASSUME NEW i \in 1..Len(chan'[f]), chan'[f][i] = e PROVE Carried(f, e)
    <3>1. i + 1 \in 1..Len(chan[f]) /\ chan[f][i + 1] = e BY <1>2, <1>3, <2>2
    <3>q. QED BY <3>1 DEF Carried
  <2>q. QED BY <1>5, <2>1, <2>2 DEF Carried
<1>6. ASSUME NEW g \in Fanouts \ {f}, NEW e \in Nat \ {0}, Carried(g, e)' PROVE Carried(g, e)
  BY <1>2, <1>6 DEF Carried
<1>7. ASSUME NEW r \in Fanouts PROVE NothingNew(r) BY <1>5, <1>6 DEF NothingNew
<1>8. ASSUME NEW r \in Fanouts \ {f}, NEW c \in Conns PROVE ComesNext(r, c)
  BY <1>1, <1>2, SameComes DEF AwaitsSame
<1>q. QED BY <1>t, <1>1, <1>4, <1>7, <1>8, FlowsOn

(* A pump goes on: who is passed over or sent to knows what it held. *)
LEMMA SentFlows ==
  ASSUME len \in Nat, FanInv, NEW f \in Fanouts, NEW c \in Conns,
         pump[f] = "send", UNCHANGED <<chan, stream, len>>, NEW h \in Nat, held[f] = h,
         pump'[f] = "recv" \/ (pump'[f] = "send" /\ held'[f] = h),
         (pump'[f] = "recv" \/ (c \notin todo'[f] /\ at'[f] # c)) =>
           (c \notin todo[f] /\ at[f] # c) \/ (conn'[c] = "open" => Knows(c, h)')
  PROVE  ComesNext(f, c)
<1>1. /\ chan[f] # <<>> => chan[f][1] = h + 1
      /\ chan[f] = <<>> /\ stream[f] = "fed" => h = len
  BY DEF FanInv, FanRow, HeldRow
<1>2. ASSUME NEW e \in Nat \ {0}, Awaits(f, c, e)'
      PROVE  e = h /\ (pump'[f] = "recv" \/ (c \notin todo'[f] /\ at'[f] # c))
  <2>1. CASE pump'[f] = "recv" BY <1>1, <1>2, <2>1 DEF Awaits
  <2>2. CASE pump'[f] = "send" /\ held'[f] = h BY <1>2, <2>2 DEF Awaits
  <2>q. QED BY <2>1, <2>2
<1>3. (c \notin todo[f] /\ at[f] # c) => Awaits(f, c, h) BY DEF Awaits
<1>q. QED BY <1>2, <1>3 DEF ComesNext

LEMMA PickFlows ==
  ASSUME Types, FanInv, FlowInv, FitsStep, NoPumpLeaks, \A c \in Conns : Opens(c),
         NEW f \in Fanouts, PumpPick(f)
  PROVE  FlowInv'
<1>t. FanTypes /\ PumpTypes /\ len \in Nat BY DEF Types, LogTypes
<1>1. /\ pump[f] = "send" /\ at[f] = NoConn
      /\ UNCHANGED <<len, registered, members, chan, stream, conn>>
  BY DEF PumpPick, logVars, fanVars, connVars
<1>2. PICK d \in todo[f] :
        /\ todo' = [todo EXCEPT ![f] = @ \ {d}]
        /\ \/ conn[d] = "open" /\ at' = [at EXCEPT ![f] = d] /\ UNCHANGED <<pump, held>>
           \/ conn[d] # "open" /\ Sent(f, todo[f] \ {d}) /\ UNCHANGED at
  BY DEF PumpPick
<1>3. PICK h \in Nat : held[f] = h BY <1>t DEF PumpTypes
<1>4. /\ todo'[f] = todo[f] \ {d} /\ \A g \in Fanouts \ {f} : todo'[g] = todo[g]
  BY <1>t, <1>2 DEF PumpTypes
<1>5. /\ pump'[f] = "recv" \/ (pump'[f] = "send" /\ held'[f] = h)
      /\ \A g \in Fanouts \ {f} : pump'[g] = pump[g] /\ held'[g] = held[g] /\ at'[g] = at[g]
      /\ \/ conn[d] = "open" /\ at'[f] = d /\ pump'[f] = "send"
         \/ conn[d] # "open" /\ at'[f] = NoConn /\ (pump'[f] = "recv" => todo[f] \ {d} = {})
  <2>1. CASE conn[d] = "open" /\ at' = [at EXCEPT ![f] = d] /\ UNCHANGED <<pump, held>>
    BY <1>t, <1>1, <1>3, <2>1 DEF PumpTypes
  <2>2. CASE conn[d] # "open" /\ Sent(f, todo[f] \ {d}) /\ UNCHANGED at
    <3>1. IsSent(f, todo[f] \ {d}) BY <1>t, <2>2, SentIs
    <3>q. QED BY <1>1, <1>3, <2>2, <3>1 DEF IsSent
  <2>q. QED BY <1>2, <2>1, <2>2
<1>6. ASSUME NEW c \in Conns, conn'[c] = "open" PROVE ComesNext(f, c)
  <2>1. ASSUME pump'[f] = "recv" \/ (c \notin todo'[f] /\ at'[f] # c) PROVE c \notin todo[f] /\ at[f] # c
    BY <1>1, <1>4, <1>5, <1>6, <2>1, ConnsAre
  <2>q. QED BY <1>t, <1>1, <1>3, <1>5, <2>1, SentFlows
<1>7. ASSUME NEW r \in Fanouts PROVE NothingNew(r)
  <2>1. \A g \in Fanouts \ {r} : pump'[g] \in {"snap", "send"} =>
                                   pump[g] \in {"snap", "send"} /\ held'[g] = held[g]
    BY <1>1, <1>3, <1>5
  <2>q. QED BY <1>1, <2>1, SameCarried
<1>8. ASSUME NEW r \in Fanouts \ {f}, NEW c \in Conns PROVE ComesNext(r, c)
  BY <1>1, <1>4, <1>5, SameComes DEF AwaitsSame
<1>q. QED BY <1>t, <1>1, <1>6, <1>7, <1>8, FlowsOn

LEMMA PutFlows ==
  ASSUME Types, Types', FanInv, FlowInv, FitsStep, NoPumpLeaks, \A c \in Conns : Opens(c),
         NEW f \in Fanouts, PumpPut(f)
  PROVE  FlowInv'
<1>t. FanTypes /\ PumpTypes /\ OutTypes /\ len \in Nat BY DEF Types, LogTypes, ConnTypes
<1>1. /\ pump[f] = "send" /\ Sent(f, todo[f]) /\ at' = [at EXCEPT ![f] = NoConn]
      /\ UNCHANGED <<len, registered, members, chan, stream, todo>>
  BY DEF PumpPut, logVars, fanVars
<1>2. at[f] \in Conns /\ IsPut(at[f], held[f]) BY <1>t, PutIs
<1>3. PICK h \in Nat : held[f] = h BY <1>t DEF PumpTypes
<1>4. IsSent(f, todo[f]) BY <1>t, <1>1, SentIs
<1>5. at'[f] = NoConn /\ \A g \in Fanouts \ {f} : at'[g] = at[g] BY <1>t, <1>1 DEF PumpTypes
<1>6. ASSUME NEW c \in Conns, c = at[f], conn'[c] = "open" PROVE Knows(c, h)'
  <2>1. out'[c] = Append(out[c], EventMsg(h)) BY <1>2, <1>3, <1>6 DEF IsPut, Live
  <2>2. out[c] \in Seq(Msgs) /\ EventMsg(h) \in Msgs BY <1>t DEF OutTypes, Queue, EventMsg, Msgs
  <2>3. /\ Len(out'[c]) = Len(out[c]) + 1 /\ Len(out[c]) \in Nat
        /\ out'[c][Len(out[c]) + 1] = EventMsg(h)
    BY <2>1, <2>2, AppendIs
  <2>4. Len(out[c]) + 1 \in 1..Len(out'[c]) BY <2>3
  <2>5. EventMsg(h).kind = "event" /\ EventMsg(h).at = h /\ h >= h BY DEF EventMsg
  <2>6. Queued(c, h)' BY <2>3, <2>4, <2>5 DEF Queued
  <2>q. QED BY <2>6 DEF Knows
<1>7. pump'[f] = "recv" \/ (pump'[f] = "send" /\ held'[f] = h) BY <1>3, <1>4 DEF IsSent
<1>8. ASSUME NEW c \in Conns, conn'[c] = "open" PROVE ComesNext(f, c)
  <2>1. pump'[f] = "recv" => todo[f] = {} BY <1>4 DEF IsSent
  <2>2. ASSUME pump'[f] = "recv" \/ (c \notin todo'[f] /\ at'[f] # c)
        PROVE  (c \notin todo[f] /\ at[f] # c) \/ Knows(c, h)'
    BY <1>1, <1>6, <1>8, <2>1, <2>2
  <2>q. QED BY <1>t, <1>1, <1>3, <1>7, <2>2, SentFlows
<1>9. ASSUME NEW r \in Fanouts PROVE NothingNew(r)
  <2>1. \A g \in Fanouts \ {r} : pump'[g] \in {"snap", "send"} =>
                                   pump[g] \in {"snap", "send"} /\ held'[g] = held[g]
    BY <1>1, <1>3, <1>4, <1>7 DEF IsSent
  <2>q. QED BY <1>1, <2>1, SameCarried
<1>10. ASSUME NEW r \in Fanouts \ {f}, NEW c \in Conns PROVE ComesNext(r, c)
  BY <1>1, <1>4, <1>5, SameComes DEF AwaitsSame, IsSent
<1>q. QED BY <1>t, <1>1, <1>8, <1>9, <1>10, FlowsOn

(* Who joins has the whole log to come in its replay. *)
LEMMA JoinBase ==
  ASSUME Types, ClientInv, NEW d \in Conns, SubscribeJoin(d), conn'[d] = "open"
  PROVE  \A e \in 1..len : Base(d, e)'
<1>1. /\ serving[d] = "join" /\ conn'[d] = conn[d] /\ len' = len /\ out' = out /\ phase' = phase
      /\ serving' = [serving EXCEPT ![d] = "joined"]
  BY DEF SubscribeJoin, Serve, logVars
<1>2. Fits(d) BY <1>1 DEF ClientInv, Live
<1>3. /\ phase[Client(d)] = "joining" /\ \A i \in 1..Len(out[d]) : out[d][i].kind = "event"
  BY <1>1, <1>2 DEF Fits, Talks
<1>4. serving'[d] = "joined" BY <1>1 DEF Types, ConnTypes
<1>q. QED BY <1>1, <1>3, <1>4 DEF Base

(* What the fan-outs hold is of the log. *)
LEMMA AwaitsIn ==
  ASSUME len \in Nat \ {0}, NEW f \in Fanouts, FanRowTypes(f), FanRow(f)
  PROVE  /\ \A c \in Conns, e \in Nat \ {0} : Awaits(f, c, e) => e \in 1..len
         /\ \A e \in Nat \ {0} : Carried(f, e) => e \in 1..len
<1>1. \A i \in 1..Len(chan[f]) : chan[f][i] \in 2..len BY DEF FanRow, ChanRow
<1>2. pump[f] \in {"snap", "send"} => held[f] \in 2..len BY DEF FanRow, HeldRow
<1>3. chan[f] # <<>> => chan[f][1] \in 2..len BY <1>1 DEF FanRowTypes
<1>4. ASSUME NEW c \in Conns, NEW e \in Nat \ {0}, Awaits(f, c, e) PROVE e \in 1..len
  BY <1>2, <1>3, <1>4 DEF Awaits
<1>5. ASSUME NEW e \in Nat \ {0}, Carried(f, e) PROVE e \in 1..len
  BY <1>1, <1>2, <1>5 DEF Carried
<1>q. QED BY <1>4, <1>5

LEMMA JoinFlows ==
  ASSUME Types, FanInv, ClientInv, FlowInv, FitsStep, NoPumpLeaks, \A c \in Conns : Opens(c),
         NEW d \in Conns, SubscribeJoin(d)
  PROVE  FlowInv'
<1>t. FanTypes /\ PumpTypes /\ len \in Nat \ {0} BY DEF Types, LogTypes
<1>1. Join(d, got[d]) /\ len' = len BY DEF SubscribeJoin, logVars
<1>2. IsJoined(d, got[d]) BY <1>t, <1>1, JoinIs
<1>3. conn'[d] = "open" => \A e \in 1..len : Base(d, e)' /\ Knows(d, e)' BY JoinBase DEF Knows
<1>r. \A g \in Fanouts : /\ \A c \in Conns, e \in Nat \ {0} : Awaits(g, c, e) => e \in 1..len
                         /\ \A e \in Nat \ {0} : Carried(g, e) => e \in 1..len
  BY <1>t, FanRowsAre, AwaitsIn DEF FanInv
<1>4. CASE IsMember(d)
  <2>1. /\ registered # NoFanout /\ registered' = registered /\ members'[registered] = members[registered] \cup {d}
        /\ UNCHANGED <<chan, stream, pump, held, todo, at>>
    BY <1>4 DEF IsMember
  <2>2. \A g \in Fanouts, e \in Nat \ {0} : Carried(g, e)' => Carried(g, e) BY <2>1 DEF Carried
  <2>3. \A g \in Fanouts, c \in Conns, e \in Nat \ {0} : Awaits(g, c, e)' => Awaits(g, c, e)
    BY <1>1, <2>1 DEF Awaits
  <2>4. ASSUME NEW f \in Fanouts, NEW c \in Conns PROVE FlowRow(f, c)'
    <3>1. CASE registered = f /\ c \in members[f]
      <4>1. ComesNext(f, c) /\ NothingNew(f) BY <2>2, <2>3 DEF ComesNext, NothingNew
      <4>q. QED BY <1>t, <3>1, <4>1, FlowKept
    <3>2. CASE registered = f /\ c = d
      <4>1. conn'[d] = "open" => NextRow(f, c)' BY <1>3, <1>r, <2>3, <3>2 DEF NextRow
      <4>2. conn'[d] = "open" => \A g \in Fanouts : OldRow(g, c)'
        BY <1>3, <1>r, <2>2, <3>2 DEF OldRow
      <4>q. QED BY <3>2, <4>1, <4>2 DEF FlowRow, IsSubscribed
    <3>3. CASE ~(registered = f /\ c \in members[f] \cup {d})
      BY <2>1, <3>3 DEF FlowRow, IsSubscribed
    <3>q. QED BY <3>1, <3>2, <3>3
  <2>q. QED BY <2>4 DEF FlowInv
<1>5. ASSUME NEW f \in Fanouts, IsFirst(d, got[d], f) PROVE FlowInv'
  <2>1. /\ registered' = f /\ members'[f] = {d} /\ chan'[f] = <<>> /\ pump'[f] = "recv" /\ UNCHANGED held
        /\ \A g \in Fanouts \ {f} : chan'[g] = chan[g] /\ pump'[g] = pump[g]
    BY <1>5 DEF IsFirst
  <2>2. \A g \in Fanouts \ {f}, e \in Nat \ {0} : Carried(g, e)' => Carried(g, e)
    BY <2>1 DEF Carried
  <2>3. \A e \in Nat \ {0} : Awaits(f, d, e)' => e = len BY <1>1, <2>1 DEF Awaits
  <2>4. conn'[d] = "open" => NextRow(f, d)' BY <1>t, <1>3, <2>3 DEF NextRow
  <2>5. conn'[d] = "open" => \A g \in Fanouts \ {f} : OldRow(g, d)' BY <1>3, <1>r, <2>2 DEF OldRow
  <2>6. ASSUME NEW r \in Fanouts, NEW c \in Conns PROVE FlowRow(r, c)'
    <3>1. CASE r = f /\ c = d BY <2>4, <2>5, <3>1 DEF FlowRow, IsSubscribed
    <3>2. CASE ~(r = f /\ c = d) BY <2>1, <3>2 DEF FlowRow, IsSubscribed
    <3>q. QED BY <3>1, <3>2
  <2>q. QED BY <2>6 DEF FlowInv
<1>q. QED BY <1>2, <1>4, <1>5 DEF IsJoined

LEMMA RecordFlows ==
  ASSUME Types, FanInv, FlowInv, FitsStep, NoPumpLeaks, \A c \in Conns : Opens(c), Recorded
  PROVE  FlowInv'
<1>t. FanTypes /\ len \in Nat BY DEF Types, LogTypes
<1>1. /\ len' = len + 1 /\ Broadcast(len + 1) /\ UNCHANGED <<registered, members, pump, held, todo, at>>
  BY DEF Recorded, Record
<1>2. \A f \in Fanouts : TakesOrEnds(f, len + 1) BY <1>t, <1>1, BroadcastIs
<1>3. ASSUME NEW f \in Fanouts, NEW c \in Conns PROVE ComesNext(f, c)
  <2>1. FanRowTypes(f) BY FanRowsAre
  <2>2. CASE stream[f] = "fed" /\ chan'[f] = Append(chan[f], len + 1)
    <3>1. /\ chan'[f] # <<>> /\ Len(chan[f]) \in Nat /\ chan'[f][Len(chan[f]) + 1] = len + 1
          /\ \A i \in 1..Len(chan[f]) : chan'[f][i] = chan[f][i]
      BY <1>t, <2>1, <2>2, AppendIs DEF FanRowTypes
    <3>2. ASSUME chan[f] = <<>> PROVE chan'[f][1] = len + 1 BY <2>1, <3>1, <3>2 DEF FanRowTypes
    <3>3. ASSUME chan[f] # <<>> PROVE chan'[f][1] = chan[f][1] BY <2>1, <3>1, <3>3 DEF FanRowTypes
    <3>q. QED BY <1>t, <1>1, <2>2, <3>1, <3>2, <3>3 DEF ComesNext, Awaits
  <2>3. CASE chan'[f] = chan[f] /\ stream'[f] # "fed"
    BY <1>1, <2>3 DEF ComesNext, Awaits
  <2>q. QED BY <1>2, <2>2, <2>3 DEF TakesOrEnds
<1>4. ASSUME NEW f \in Fanouts, registered = f PROVE NothingNew(f)
  <2>1. \A g \in Fanouts \ {f} : stream[g] # "fed" BY <1>4 DEF FanInv, FanRow, PumpRow
  <2>2. \A g \in Fanouts \ {f} : chan'[g] = chan[g] BY <1>2, <2>1 DEF TakesOrEnds
  <2>q. QED BY <1>1, <2>2, SameCarried
<1>q. QED BY <1>t, <1>1, <1>3, <1>4, FlowsOn

LEMMA FlowStep ==
  ASSUME Types, Types', FanInv, ClientInv, FlowInv, FitsStep, NoPumpLeaks, \A c \in Conns : Opens(c),
         [Next]_vars
  PROVE  FlowInv'
<1>t. FanTypes /\ PumpTypes /\ len \in Nat BY DEF Types, LogTypes
<1>1. ASSUME Quiet PROVE FlowInv'
  <2>1. UNCHANGED <<len, registered, members, chan, stream, pump, held, todo, at>> BY <1>1 DEF Quiet
  <2>2. \A f \in Fanouts, c \in Conns : ComesNext(f, c) /\ NothingNew(f)
    BY <2>1, SameComes, SameCarried DEF AwaitsSame
  <2>q. QED BY <1>t, <2>1, <2>2, FlowsOn
<1>2. ASSUME Recorded PROVE FlowInv' BY <1>2, RecordFlows
<1>3. ASSUME ArchiveMove PROVE FlowInv'
  <2>1. /\ UNCHANGED <<len, registered, members, chan, pump, held, todo, at>>
        /\ \A f \in Fanouts : stream'[f] = "fed" => stream[f] = "fed"
    BY <1>3 DEF ArchiveMove, pumpVars
  <2>2. \A f \in Fanouts, c \in Conns : ComesNext(f, c) /\ NothingNew(f)
    BY <2>1, SameComes, SameCarried DEF AwaitsSame
  <2>q. QED BY <1>t, <2>1, <2>2, FlowsOn
<1>4. ASSUME Restart PROVE FlowInv'
  <2>1. registered' = NoFanout BY <1>4 DEF Restart
  <2>q. QED BY <2>1, NoneAssumption DEF FlowInv, FlowRow, IsSubscribed
<1>5. ASSUME NEW f \in Fanouts, PumpReceive(f) PROVE FlowInv' BY <1>5, ReceiveFlows
<1>6. ASSUME NEW f \in Fanouts, PumpSnapshot(f) PROVE FlowInv'
  <2>1. /\ pump[f] = "snap" /\ Sent(f, Subscribers) /\ todo' = [todo EXCEPT ![f] = Subscribers]
        /\ UNCHANGED <<len, registered, members, chan, stream, at>>
    BY <1>6 DEF PumpSnapshot, logVars, fanVars
  <2>2. IsSent(f, Subscribers) BY <1>t, <2>1, SentIs
  <2>3. todo'[f] = Subscribers /\ \A g \in Fanouts \ {f} : todo'[g] = todo[g]
    BY <1>t, <2>1 DEF PumpTypes
  <2>4. ASSUME NEW c \in Conns, registered = f, c \in members[f] PROVE ComesNext(f, c)
    <3>1. c \in Subscribers BY <2>4, NoneAssumption DEF Subscribers
    <3>2. pump'[f] = "send" /\ c \in todo'[f] BY <2>2, <2>3, <3>1 DEF IsSent
    <3>q. QED BY <3>2 DEF ComesNext, Awaits
  <2>5. ASSUME NEW r \in Fanouts PROVE NothingNew(r)
    <3>1. \A g \in Fanouts \ {r} : pump'[g] \in {"snap", "send"} =>
                                     pump[g] \in {"snap", "send"} /\ held'[g] = held[g]
      BY <2>1, <2>2 DEF IsSent
    <3>q. QED BY <2>1, <3>1, SameCarried
  <2>6. ASSUME NEW r \in Fanouts \ {f}, NEW c \in Conns PROVE ComesNext(r, c)
    BY <2>1, <2>2, <2>3, SameComes DEF AwaitsSame, IsSent
  <2>q. QED BY <1>t, <2>1, <2>4, <2>5, <2>6, FlowsOn
<1>7. ASSUME NEW f \in Fanouts, PumpPick(f) PROVE FlowInv' BY <1>7, PickFlows
<1>8. ASSUME NEW f \in Fanouts, PumpPut(f) PROVE FlowInv' BY <1>8, PutFlows
<1>9. ASSUME NEW f \in Fanouts, UNCHANGED <<len, chan, held, at>>, registered' = registered \/ registered' = NoFanout,
             \A g \in Fanouts \ {f} : /\ pump'[g] = pump[g] /\ todo'[g] = todo[g] /\ members'[g] = members[g]
                                      /\ stream'[g] = stream[g],
             pump'[f] \notin {"snap", "send"}, registered' = f => registered # f
      PROVE  FlowInv'
  <2>1. \A r \in Fanouts \ {f}, c \in Conns : ComesNext(r, c) BY <1>9, SameComes DEF AwaitsSame
  <2>2. \A r \in Fanouts : NothingNew(r) BY <1>9, SameCarried
  <2>3. \A r \in Fanouts, c \in Conns : registered' = r /\ c \in members'[r] =>
          r # f /\ registered = r /\ c \in members[r]
    BY <1>9, NoneAssumption
  <2>q. QED BY <1>t, <2>1, <2>2, <2>3, FlowsOn
<1>10. ASSUME NEW f \in Fanouts, PumpEnded(f) PROVE FlowInv'
  <2>1. /\ UNCHANGED <<len, chan, held, at>> /\ members' = [members EXCEPT ![f] = {}]
        /\ stream' = [stream EXCEPT ![f] = "none"] /\ pump[f] = "recv"
        /\ \/ /\ registered = f /\ registered' = NoFanout
              /\ todo' = [todo EXCEPT ![f] = members[f]] /\ pump' = [pump EXCEPT ![f] = "check"]
           \/ /\ registered # f /\ registered' = registered
              /\ todo' = [todo EXCEPT ![f] = {}] /\ pump' = [pump EXCEPT ![f] = "none"]
    BY <1>10 DEF PumpEnded, PumpGone, logVars
  <2>2. /\ pump'[f] \in {"check", "none"}
        /\ \A g \in Fanouts \ {f} : /\ pump'[g] = pump[g] /\ todo'[g] = todo[g] /\ members'[g] = members[g]
                                    /\ stream'[g] = stream[g]
    BY <1>t, <2>1 DEF FanTypes, PumpTypes
  <2>q. QED BY <1>9, <2>1, <2>2, NoneAssumption
<1>11. ASSUME NEW f \in Fanouts, PumpCheck(f) \/ PumpDrop(f) PROVE FlowInv'
  <2>1. /\ UNCHANGED <<len, registered, members, chan, stream, held, at>> /\ pump[f] \in {"check", "drop"}
        /\ \/ pump' = pump \/ \E s \in {"none", "drop"} : pump' = [pump EXCEPT ![f] = s]
    BY <1>11 DEF PumpCheck, PumpDrop, PumpGone, logVars, fanVars
  <2>2. \A g \in Fanouts \ {f} : todo'[g] = todo[g]
    BY <1>t, <1>11 DEF PumpCheck, PumpDrop, PumpGone, PumpTypes
  <2>3. pump'[f] \notin {"snap", "send"} /\ \A g \in Fanouts \ {f} : pump'[g] = pump[g]
    BY <1>t, <2>1 DEF PumpTypes
  <2>4. registered # f BY <2>1 DEF FanInv, FanRow, PumpRow
  <2>5. \A r \in Fanouts \ {f}, c \in Conns : ComesNext(r, c)
    BY <2>1, <2>2, <2>3, SameComes DEF AwaitsSame
  <2>6. \A r \in Fanouts : NothingNew(r) BY <2>1, <2>3, SameCarried
  <2>q. QED BY <1>t, <2>1, <2>4, <2>5, <2>6, FlowsOn
<1>12. ASSUME NEW d \in Conns, TearDown(d) PROVE FlowInv'
  <2>1. DropLocked(d) /\ UNCHANGED <<len, chan, pump, held, todo, at>>
    BY <1>12 DEF TearDown, logVars, pumpVars
  <2>2. IsDropped(d) BY <1>t, <2>1, DropLockedIs
  <2>3. ASSUME NEW f \in Fanouts, NEW c \in Conns, registered' = f, c \in members'[f]
        PROVE  registered = f /\ c \in members[f] /\ ComesNext(f, c) /\ NothingNew(f)
    <3>1. registered = f /\ c \in members[f] /\ stream' = stream
      BY <2>2, <2>3, NoneAssumption DEF IsDropped
    <3>2. ComesNext(f, c) /\ NothingNew(f) BY <2>1, <3>1, SameComes, SameCarried DEF AwaitsSame
    <3>q. QED BY <3>1, <3>2
  <2>q. QED BY <1>t, <2>3, FlowsOn
<1>13. ASSUME NEW d \in Conns, SubscribeJoin(d) PROVE FlowInv' BY <1>13, JoinFlows
<1>14. FanMoves BY StepIs
<1>q. QED BY <1>1, <1>2, <1>3, <1>4, <1>5, <1>6, <1>7, <1>8, <1>10, <1>11, <1>12, <1>13, <1>14
          DEF FanMoves, PumpStep

-----------------------------------------------------------------------------
(* The invariant.  What the clients show rests on what they are told being *)
(* in turn (ClientInv); a pump keeps it so because whom it sends an event  *)
(* knows the one before (SendInv), and that holds of the next event        *)
(* because it holds of what is still to come to every subscriber           *)
(* (FlowInv), however many fan-outs end at once.                           *)
DeliveryInv ==
  /\ Types /\ LinkInv /\ ClientInv /\ FanInv /\ SinceInv /\ NoPumpLeaks /\ StandInv
  /\ SendInv /\ FlowInv

LEMMA DeliveryInit == ASSUME Init PROVE DeliveryInv
<1>1. Types BY TypesInit
<1>2. /\ len = 1 /\ archived = FALSE /\ gen = 0 /\ registered = NoFanout
      /\ \A f \in Fanouts : chan[f] = <<>> /\ stream[f] = "none" /\ pump[f] = "none" /\ at[f] = NoConn
      /\ \A c \in Conns : conn[c] = "none" /\ serving[c] = "none" /\ since[c] = 0
      /\ \A k \in Clients : phase[k] = "down" /\ link[k] = NoConn /\ cursor[k] = 0 /\ shown[k] = {}
                            /\ pending[k] = <<>>
  BY DEF Init
<1>3. LinkInv BY <1>2, ConnsAre DEF LinkInv, Live
<1>4. ClientInv
  <2>1. \A c \in Conns : ~Live(c) BY <1>2 DEF Live
  <2>2. ASSUME NEW k \in Clients PROVE Shows(k)
    <3>1. Len(pending[k]) = 0 BY <1>2, EmptyIs
    <3>2. shown[k] = 1..0 /\ 0 \in 0..len BY <1>2
    <3>q. QED BY <1>2, <3>1, <3>2 DEF Shows
  <2>q. QED BY <2>1, <2>2 DEF ClientInv
<1>5. FanInv
  <2>1. \A f \in Fanouts : Len(chan[f]) = 0 BY <1>2, EmptyIs
  <2>q. QED BY <1>2, <2>1, NoneAssumption DEF FanInv, FanRow, ChanRow, HeldRow, PumpRow
<1>6. SinceInv BY <1>2 DEF SinceInv, SinceRow
<1>7. NoPumpLeaks BY <1>2 DEF NoPumpLeaks
<1>8. StandInv BY <1>2 DEF StandInv
<1>9. SendInv
  <2>1. \A f \in Fanouts, c \in Conns : ~SendsTo(f, c) BY <1>2, ConnsAre DEF SendsTo
  <2>q. QED BY <2>1 DEF SendInv, SendRow
<1>10. FlowInv BY <1>2, NoneAssumption DEF FlowInv, FlowRow, IsSubscribed
<1>q. QED BY <1>1, <1>3, <1>4, <1>5, <1>6, <1>7, <1>8, <1>9, <1>10 DEF DeliveryInv

LEMMA DeliveryStep == ASSUME DeliveryInv, [Next]_vars PROVE DeliveryInv'
<1>0. Types /\ LinkInv /\ ClientInv /\ FanInv /\ SinceInv /\ NoPumpLeaks /\ StandInv /\ SendInv /\ FlowInv
  BY DEF DeliveryInv
<1>1. Types' BY <1>0, TypesStep
<1>2. LinkInv' BY <1>0, LinkStep
<1>3. PutReady BY <1>0, PutIsReady
<1>4. FitsStep BY <1>0, <1>1, <1>3, FitsMove
<1>5. ClientInv' BY <1>4 DEF FitsStep, ClientInv
<1>6. FanInv' BY <1>0, <1>1, FanStep
<1>7. \A c \in Conns : Opens(c) BY <1>0, OpenMove
<1>8. SinceInv' BY <1>0, SinceStep
<1>9. NoPumpLeaks' BY <1>0, LeaksStep
<1>10. StandInv' BY <1>0, <1>1, <1>7, StandStep
<1>11. SendInv' BY <1>0, <1>4, <1>6, <1>7, SendStep
<1>12. FlowInv' BY <1>0, <1>1, <1>4, <1>7, FlowStep
<1>q. QED BY <1>1, <1>2, <1>5, <1>6, <1>8, <1>9, <1>10, <1>11, <1>12 DEF DeliveryInv

LEMMA DeliveryAlways == Spec => []DeliveryInv
<1>1. Init => DeliveryInv BY DeliveryInit
<1>2. DeliveryInv /\ [Next]_vars => DeliveryInv' BY DeliveryStep
<1>q. QED BY <1>1, <1>2, PTL DEF Spec

(* The variables keep their types, and no queue grows past its bound.      *)
THEOREM DeliveryTypeCorrect == Spec => []TypeOK
<1>1. DeliveryInv => TypeOK BY TypesAre DEF DeliveryInv
<1>q. QED BY <1>1, DeliveryAlways, PTL

(* The cursor a client resumes from is never past what it shows.           *)
THEOREM CursorAlwaysShown == Spec => []CursorIsShown
<1>1. DeliveryInv => CursorIsShown BY DEF DeliveryInv, ClientInv, Shows, CursorIsShown
<1>q. QED BY <1>1, DeliveryAlways, PTL

LEMMA FollowersAre == ASSUME DeliveryInv PROVE FollowersHear
<1>0. Types /\ LinkInv /\ ClientInv /\ FanInv /\ StandInv /\ FlowInv BY DEF DeliveryInv
<1>n. FanTypes /\ OutTypes /\ LinkTypes /\ len \in Nat \ {0}
  BY <1>0 DEF Types, LogTypes, ConnTypes, ClientTypes
<1> SUFFICES ASSUME Settled, NEW k \in Clients, Follows(k)
             PROVE  /\ registered # NoFanout /\ link[k] \in members[registered]
                    /\ stream[registered] = "fed" => shown[k] = 1..len
  BY DEF FollowersHear
<1>1. phase[k] = "streaming" /\ since[link[k]] = gen BY DEF Follows
<1>2. PICK c \in Conns : link[k] = c BY <1>0, <1>n, <1>1 DEF LinkInv, LinkTypes
<1>3. Client(c) = k /\ Live(c) BY <1>0, <1>2, ConnsAre DEF LinkInv
<1>4. conn[c] = "open" /\ out[c] = <<>> BY <1>3 DEF Live, Settled
<1>5. StandsIn(c) BY <1>0, <1>1, <1>2, <1>3, <1>4 DEF StandInv, HasJoined
<1>6. registered # NoFanout /\ c \in members[registered] BY <1>5 DEF StandsIn, Settled
<1>7. PICK f \in Fanouts : registered = f BY <1>n, <1>6 DEF FanTypes
<1>8. ASSUME stream[f] = "fed" PROVE shown[k] = 1..len
  <2>1. pump[f] # "none" BY <1>0, <1>7 DEF FanInv, FanRow, PumpRow
  <2>2. pump[f] = "recv" /\ chan[f] = <<>> BY <2>1 DEF Settled
  <2>3. Knows(c, len)
    <3>1. Awaits(f, c, len) BY <1>8, <2>2 DEF Awaits
    <3>2. IsSubscribed(f, c) BY <1>4, <1>6, <1>7 DEF IsSubscribed
    <3>q. QED BY <1>0, <1>n, <3>1, <3>2 DEF FlowInv, FlowRow, NextRow
  <2>4. Len(out[c]) = 0 /\ Len(pending[Client(c)]) = 0
    BY <1>0, <1>1, <1>3, <1>4, EmptyIs DEF ClientInv, Shows
  <2>5. Base(c, len) BY <2>3, <2>4 DEF Knows, Waits, Queued
  <2>6. len \in shown[k] BY <1>1, <1>3, <2>5 DEF Base
  <2>7. PICK n \in 0..len : shown[k] = 1..n BY <1>0 DEF ClientInv, Shows
  <2>q. QED BY <1>n, <2>6, <2>7
<1>q. QED BY <1>2, <1>6, <1>7, <1>8

(* A fan-out is kept for those who live and are subscribed; whoever still  *)
(* is when nothing more moves is in the one that is registered, and has    *)
(* all it carries.                                                         *)
THEOREM FanoutAlwaysSound == Spec => []FanoutIsSound
<1>1. DeliveryInv => FanoutIsSound BY FollowersAre DEF DeliveryInv, FanoutIsSound
<1>q. QED BY <1>1, DeliveryAlways, PTL

-----------------------------------------------------------------------------
(* A step of Delivery is one of Mirror, or none. *)

LEMMA ShowCatches ==
  ASSUME Types, Types', NEW k \in Clients, Shows(k)', NEW q, Show(k, q), len' = len
  PROVE  [M!Next]_<<len, shown>>
<1>1. shown \in [Clients -> SUBSET Nat] /\ len \in Nat BY DEF Types, ClientTypes, LogTypes
<1>2. PICK n \in 0..len : shown'[k] = 1..n BY DEF Shows
<1>3. PICK S : shown' = [shown EXCEPT ![k] = @ \cup S] BY DEF Show
<1>4. shown[k] \subseteq shown'[k] BY <1>1, <1>3
<1>5. shown' = [shown EXCEPT ![k] = 1..n] BY <1>1, <1>2, <1>3
<1>6. CASE n = 0
  <2>1. shown[k] = 1..n BY <1>1, <1>2, <1>4, <1>6
  <2>2. shown' = shown BY <1>1, <1>5, <2>1
  <2>q. QED BY <2>2
<1>7. CASE n # 0
  <2>1. n \in 1..len BY <1>1, <1>7
  <2>2. M!Catch(k) BY <1>2, <1>4, <1>5, <2>1 DEF M!Catch
  <2>q. QED BY <2>2 DEF M!Next
<1>q. QED BY <1>6, <1>7

LEMMA MirrorStep ==
  ASSUME DeliveryInv, DeliveryInv', [Next]_vars PROVE [M!Next]_<<len, shown>>
<1>0. Types /\ Types' /\ \A k \in Clients : Shows(k)' BY DEF DeliveryInv, ClientInv
<1>1. ASSUME LogEvent \/ ArchiveNotice \/ RestoreNotice PROVE [M!Next]_<<len, shown>>
  <2>1. len' = len + 1 /\ shown' = shown
    BY <1>1 DEF LogEvent, ArchiveNotice, RestoreNotice, Record, cliVars
  <2>q. QED BY <2>1 DEF M!Next, M!Grow
<1>2. ASSUME NEW c \in Conns, EventArrives(c) PROVE [M!Next]_<<len, shown>>
  <2>1. len' = len /\ (shown' = shown \/ Show(Client(c), <<Head(out[c]).at>>))
    BY <1>2 DEF EventArrives, logVars
  <2>q. QED BY <1>0, <2>1, ShowCatches, ConnsAre
<1>3. ASSUME NEW c \in Conns, ReplayArrives(c) PROVE [M!Next]_<<len, shown>>
  <2>1. len' = len /\ \E q : Show(Client(c), q)
    BY <1>3 DEF ReplayArrives, logVars
  <2>q. QED BY <1>0, <2>1, ShowCatches, ConnsAre
<1>4. ASSUME ArchiveMove \/ RestoreMove \/ Restart \/ UNCHANGED vars PROVE [M!Next]_<<len, shown>>
  BY <1>4 DEF ArchiveMove, RestoreMove, Restart, vars, cliVars
<1>5. ASSUME NEW f \in Fanouts, PumpStep(f) PROVE [M!Next]_<<len, shown>>
  BY <1>5 DEF PumpStep, PumpReceive, PumpSnapshot, PumpPick, PumpPut, PumpEnded, PumpCheck,
     PumpDrop,
              logVars, cliVars
<1>6. ASSUME NEW c \in Conns, ConnStep(c) \/ Lose(c) \/ JoinedArrives(c) \/ ErrorArrives(c)
      PROVE  [M!Next]_<<len, shown>>
  BY <1>6 DEF ConnStep, CloseNow, Lose, TearDown, SubscribeGet, SubscribeJoin, SubscribeReply,
     ReplayRead,
              ReplayAnswer, JoinedArrives, ErrorArrives, logVars, cliVars, seenVars
<1>7. ASSUME NEW k \in Clients, Dial(k) PROVE [M!Next]_<<len, shown>>
  BY <1>7 DEF Dial, logVars, seenVars
<1>q. QED BY <1>1, <1>2, <1>3, <1>4, <1>5, <1>6, <1>7 DEF Next, ClientStep

(* Each client shows at every moment the log from its beginning, and what  *)
(* it shows only grows: Delivery implements Mirror.                        *)
THEOREM MirrorsAlways == Spec => Mirrors
<1>1. Init => M!Init BY DEF Init, M!Init
<1>2. DeliveryInv /\ DeliveryInv' /\ [Next]_vars => [M!Next]_<<len, shown>> BY MirrorStep
<1>q. QED BY <1>1, <1>2, DeliveryAlways, PTL DEF Spec, Mirrors, M!Spec
=============================================================================
