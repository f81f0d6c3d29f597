--------------------------- MODULE Service_proofs ---------------------------
(***************************************************************************)
(* Proofs about what the daemon owes its clients around the turns: the     *)
(* questions put to clients and the notices of them, for any number of     *)
(* connections, requests and sessions and any queue; the start of daemons  *)
(* on one root, for any number of daemons and commands; the memories of a  *)
(* workspace, for any number of sessions, names, facts and passes; and the *)
(* sessions put away, brought back and prompted, for any family of them,   *)
(* any number of calls at once and any crashes.                            *)
(***************************************************************************)
EXTENDS Requests, Archive, DaemonStart, Memory, FiniteSetTheorems, TLAPS

-----------------------------------------------------------------------------
(* Who was sent what, and who answered. *)

(* A connection that is not subscribed has been sent nothing since, and    *)
(* nobody has been sent what was not asked.                                *)
ShownInv ==
  /\ ShownExactlyOnce
  /\ \A c \in Clients, q \in Questions : c \notin subscribed \/ req[q] = "new" => shown[c][q] = 0

(* An open request has an asker that waits and no winner; whatever is on   *)
(* its way to the asker, or has come, is from the winner.                  *)
AskInv ==
  \A q \in Questions :
    /\ asker[q] \in {"idle", "asked", "waiting", "gave up"} => outcomes[q] = "asked"
    /\ req[q] \in {"new", "open"} => winners[q] = Nobody
    /\ req[q] = "open" => asker[q] \in {"asked", "waiting", "gave up"}
    /\ channel[q] # Nobody => channel[q] = winners[q]
    /\ \A c \in Clients : <<c, q>> \in sending => winners[q] = c

ReqInv == RequestsTypeOK /\ ShownInv /\ AskInv

(* What a connection was sent.  The provers take a row, and the type of    *)
(* everything but the rows, one at a time.                                 *)
Row == [Questions -> Nat]

Plain ==
  /\ req \in [Questions -> {"new", "open", "answered", "timed out", "gone"}]
  /\ asker \in [Questions -> {"idle", "asked", "waiting", "gave up", "closing", "done"}]
  /\ channel \in [Questions -> Clients \cup {Nobody}] /\ winners \in [Questions -> Clients \cup {Nobody}]
  /\ outcomes \in [Questions -> Clients \cup {"asked", "unanswered"}]
  /\ subscribed \subseteq Clients
  /\ sending \subseteq Clients \X Questions
  /\ resumes \in {0, 1}

LEMMA TypeIs == RequestsTypeOK <=> Plain /\ shown \in [Clients -> Row]
BY Zenon DEF RequestsTypeOK, Plain, Row

LEMMA TypeIsNext == RequestsTypeOK' <=> Plain' /\ shown' \in [Clients -> Row]
BY Zenon DEF RequestsTypeOK, Plain, Row

LEMMA RowIs ==
  ASSUME NEW r \in Row
  PROVE  /\ DOMAIN r = Questions /\ \A q \in Questions : r[q] \in Nat
         /\ \A q \in Questions : [r EXCEPT ![q] = @ + 1] \in Row
BY DEF Row

LEMMA RequestsInvInit == RequestsInit => ReqInv
<1> SUFFICES ASSUME RequestsInit PROVE ReqInv OBVIOUS
<1>1. [q \in Questions |-> 0] \in Row BY DEF Row
<1>2. shown = [c \in Clients |-> [q \in Questions |-> 0]] BY DEF RequestsInit
<1>3. shown \in [Clients -> Row] BY <1>1, <1>2
<1>4. Plain BY DEF RequestsInit, Plain
<1>5. \A c \in Clients, q \in Questions : shown[c][q] = 0 BY <1>2
<1>6. ShownInv BY <1>5 DEF RequestsInit, ShownInv, ShownExactlyOnce
<1>7. AskInv BY DEF RequestsInit, AskInv
<1>q. QED BY <1>3, <1>4, <1>6, <1>7, TypeIs DEF ReqInv

LEMMA PlainStep ==
  ASSUME Plain, [RequestsNext]_<<notifierVars, requestVars>>
  PROVE  Plain'
<1> USE DEF Plain
<1>1. ASSUME NEW q \in Questions, Ask(q) PROVE Plain'
  BY <1>1 DEF Ask
<1>2. ASSUME NEW q \in Questions, Opened(q) \/ Closed(q) \/ GiveUp(q) PROVE Plain'
  BY <1>2 DEF Opened, Closed, GiveUp
<1>3. ASSUME NEW q \in Questions, TakeAnswer(q) PROVE Plain'
  BY <1>3 DEF TakeAnswer
<1>4. ASSUME NEW q \in Questions, MarkTimedOut(q) PROVE Plain'
  BY <1>4 DEF MarkTimedOut
<1>5. ASSUME NEW q \in Questions, Forget(q) PROVE Plain'
  BY <1>5 DEF Forget
<1>6. ASSUME NEW c \in Clients, Subscribe(c) \/ Leave(c) PROVE Plain'
  BY <1>6 DEF Subscribe, Leave
<1>8. ASSUME NEW c \in Clients, NEW q \in Questions, Answer(c, q) PROVE Plain'
  <2>1. UNCHANGED <<asker, channel, outcomes, subscribed>> BY <1>8 DEF Answer
  <2>2. CASE req[q] = "open"
    <3>1. req' = [req EXCEPT ![q] = "answered"] /\ winners' = [winners EXCEPT ![q] = c]
      BY <1>8, <2>2 DEF Answer
    <3>2. sending' = sending \cup {<<c, q>>} /\ UNCHANGED resumes
      BY <1>8, <2>2 DEF Answer
    <3>3. <<c, q>> \in Clients \X Questions OBVIOUS
    <3>4. sending' \subseteq Clients \X Questions BY <3>2, <3>3
    <3>q. QED BY <2>1, <3>1, <3>2, <3>4
  <2>3. CASE req[q] # "open" BY <1>8, <2>3 DEF Answer
  <2>q. QED BY <2>2, <2>3
<1>9. ASSUME NEW c \in Clients, NEW q \in Questions, SendAnswer(c, q) PROVE Plain'
  BY <1>9 DEF SendAnswer
<1>10. CASE RequestsRestart
  BY <1>10 DEF RequestsRestart, Known
<1>11. CASE UNCHANGED requestVars
  BY <1>11 DEF requestVars
<1>q. QED
  BY <1>1, <1>2, <1>3, <1>4, <1>5, <1>6, <1>8, <1>9, <1>10, <1>11 DEF RequestsNext

(* What happens to the rows: nothing, a question is put to those           *)
(* subscribed, a connection is caught up or leaves, or everyone goes.      *)
Still == UNCHANGED <<subscribed, shown>> /\ \A q \in Questions : req'[q] \in {"open", "new"} => req'[q] = req[q]
Put(q) ==
  /\ req[q] = "new" /\ req' = [req EXCEPT ![q] = "open"] /\ UNCHANGED subscribed
  /\ shown' = [c \in Clients |-> [shown[c] EXCEPT ![q] = IF c \in subscribed THEN @ + 1 ELSE @]]
CatchUp(c) ==
  /\ c \notin subscribed /\ subscribed' = subscribed \cup {c} /\ UNCHANGED req
  /\ shown' = [shown EXCEPT ![c] = [q \in Questions |-> IF req[q] = "open" THEN @[q] + 1 ELSE @[q]]]
Depart(c) ==
  /\ subscribed' = subscribed \ {c} /\ UNCHANGED req
  /\ shown' = [shown EXCEPT ![c] = [q \in Questions |-> 0]]
AllDepart == subscribed' = {} /\ shown' = [c \in Clients |-> [q \in Questions |-> 0]]

LEMMA RowsMove ==
  ASSUME Plain, [RequestsNext]_<<notifierVars, requestVars>>
  PROVE  Still \/ AllDepart \/ (\E q \in Questions : Put(q)) \/ (\E c \in Clients : CatchUp(c) \/ Depart(c))
<1>1. ASSUME NEW q \in Questions, Ask(q) PROVE Still \/ Put(q)
  BY <1>1 DEF Ask, Still, Put
<1>2. ASSUME NEW q \in Questions, Opened(q) \/ Closed(q) \/ GiveUp(q) \/ TakeAnswer(q) PROVE Still
  BY <1>2 DEF Opened, Closed, GiveUp, TakeAnswer, Still
<1>3. ASSUME NEW q \in Questions, MarkTimedOut(q) \/ Forget(q) PROVE Still
  BY <1>3 DEF MarkTimedOut, Forget, Still, Plain
<1>4. ASSUME NEW c \in Clients, Subscribe(c) PROVE CatchUp(c) BY <1>4 DEF Subscribe, CatchUp
<1>5. ASSUME NEW c \in Clients, Leave(c) PROVE Depart(c) BY <1>5 DEF Leave, Depart
<1>6. ASSUME NEW c \in Clients, NEW q \in Questions, Answer(c, q) \/ SendAnswer(c, q) PROVE Still
  BY <1>6 DEF Answer, SendAnswer, Still, Plain
<1>7. CASE RequestsRestart BY <1>7 DEF RequestsRestart, AllDepart
<1>8. CASE UNCHANGED requestVars BY <1>8 DEF requestVars, Still
<1>q. QED BY <1>1, <1>2, <1>3, <1>4, <1>5, <1>6, <1>7, <1>8 DEF RequestsNext

LEMMA RowsStep ==
  ASSUME Plain, shown \in [Clients -> Row], ShownInv, [RequestsNext]_<<notifierVars, requestVars>>
  PROVE  shown' \in [Clients -> Row] /\ ShownInv'
<1> USE DEF ShownInv, ShownExactlyOnce
<1>z. [q \in Questions |-> 0] \in Row BY DEF Row
<1>n. \A c \in Clients, q \in Questions : shown[c] \in Row /\ shown[c][q] \in Nat /\ DOMAIN shown[c] = Questions
  BY RowIs
<1>r. \A q \in Questions : req[q] \in {"new", "open", "answered", "timed out", "gone"} BY DEF Plain
<1>s. subscribed \subseteq Clients BY DEF Plain
<1>1. CASE Still BY <1>1 DEF Still
<1>2. ASSUME NEW q \in Questions, Put(q) PROVE shown' \in [Clients -> Row] /\ ShownInv'
  <2>1. \A c \in Clients : shown[c][q] = 0 BY <1>2 DEF Put
  <2>2. ASSUME NEW c \in Clients
        PROVE  /\ shown'[c] \in Row /\ shown'[c][q] = (IF c \in subscribed THEN 1 ELSE 0)
               /\ \A p \in Questions \ {q} : shown'[c][p] = shown[c][p]
    <3>1. shown[c] \in Row /\ DOMAIN shown[c] = Questions /\ shown[c][q] = 0 BY <1>n, <2>1
    <3>2. CASE c \in subscribed
      <4>1. shown'[c] = [shown[c] EXCEPT ![q] = @ + 1] BY <1>2, <3>2 DEF Put
      <4>2. [shown[c] EXCEPT ![q] = @ + 1] \in Row BY <3>1, RowIs
      <4>r. shown'[c] \in Row BY <4>1, <4>2
      <4>3. shown'[c][q] = 1 /\ \A p \in Questions \ {q} : shown'[c][p] = shown[c][p] BY <3>1, <4>1
      <4>q. QED BY <3>2, <4>r, <4>3
    <3>3. CASE c \notin subscribed
      <4>1. shown'[c] = [shown[c] EXCEPT ![q] = @] BY <1>2, <3>3 DEF Put
      <4>2. shown'[c] = shown[c] BY <3>1, <4>1 DEF Row
      <4>q. QED BY <3>1, <3>3, <4>2
    <3>q. QED BY <3>2, <3>3
  <2>3. shown' \in [Clients -> Row] BY <1>2, <2>2 DEF Put
  <2>4. req'[q] = "open" /\ \A p \in Questions \ {q} : req'[p] = req[p] BY <1>2 DEF Put, Plain
  <2>5. subscribed' = subscribed BY <1>2 DEF Put
  <2>q. QED BY <1>s, <2>2, <2>3, <2>4, <2>5
<1>3. ASSUME NEW c \in Clients, CatchUp(c) PROVE shown' \in [Clients -> Row] /\ ShownInv'
  <2> DEFINE r == [q \in Questions |-> IF req[q] = "open" THEN shown[c][q] + 1 ELSE shown[c][q]]
  <2>1. shown' = [shown EXCEPT ![c] = r] BY <1>3 DEF CatchUp
  <2>2. \A q \in Questions : shown[c][q] = 0 BY <1>3 DEF CatchUp
  <2>3. r \in Row /\ \A q \in Questions : r[q] = IF req[q] = "open" THEN 1 ELSE 0
    BY <1>n, <2>2 DEF Row
  <2> HIDE DEF r
  <2>4. shown' \in [Clients -> Row] /\ shown'[c] = r /\ \A d \in Clients \ {c} : shown'[d] = shown[d]
    BY <2>1, <2>3
  <2>5. subscribed' = subscribed \cup {c} /\ req' = req BY <1>3 DEF CatchUp
  <2>q. QED BY <1>s, <2>3, <2>4, <2>5
<1>4. ASSUME NEW c \in Clients, Depart(c) PROVE shown' \in [Clients -> Row] /\ ShownInv'
  <2> DEFINE r == [q \in Questions |-> 0]
  <2>1. shown' = [shown EXCEPT ![c] = r] BY <1>4 DEF Depart
  <2>2. r \in Row /\ \A q \in Questions : r[q] = 0 BY <1>z
  <2> HIDE DEF r
  <2>3. shown' \in [Clients -> Row] /\ shown'[c] = r /\ \A d \in Clients \ {c} : shown'[d] = shown[d]
    BY <2>1, <2>2
  <2>4. subscribed' = subscribed \ {c} /\ req' = req BY <1>4 DEF Depart
  <2>q. QED BY <1>s, <2>2, <2>3, <2>4
<1>5. CASE AllDepart
  <2> DEFINE r == [q \in Questions |-> 0]
  <2>1. shown' = [c \in Clients |-> r] BY <1>5 DEF AllDepart
  <2>2. r \in Row /\ \A q \in Questions : r[q] = 0 BY <1>z
  <2> HIDE DEF r
  <2>3. shown' \in [Clients -> Row] /\ \A d \in Clients : shown'[d] = r BY <2>1, <2>2
  <2>q. QED BY <1>5, <2>2, <2>3 DEF AllDepart
<1>q. QED BY <1>1, <1>2, <1>3, <1>4, <1>5, RowsMove

LEMMA AskStep ==
  ASSUME Plain, AskInv, [RequestsNext]_<<notifierVars, requestVars>>
  PROVE  AskInv'
<1> USE RequestsAssumption DEF Plain, AskInv
<1>1. ASSUME NEW q \in Questions, Ask(q) PROVE AskInv'
  BY <1>1 DEF Ask
<1>2. ASSUME NEW q \in Questions, Opened(q) \/ Closed(q) \/ GiveUp(q) PROVE AskInv'
  BY <1>2 DEF Opened, Closed, GiveUp
<1>3. ASSUME NEW q \in Questions, TakeAnswer(q) PROVE AskInv'
  BY <1>3 DEF TakeAnswer
<1>4. ASSUME NEW q \in Questions, MarkTimedOut(q) PROVE AskInv'
  BY <1>4 DEF MarkTimedOut
<1>5. ASSUME NEW q \in Questions, Forget(q) PROVE AskInv'
  BY <1>5 DEF Forget
<1>6. ASSUME NEW c \in Clients, Subscribe(c) \/ Leave(c) PROVE AskInv'
  BY <1>6 DEF Subscribe, Leave
<1>8. ASSUME NEW c \in Clients, NEW q \in Questions, Answer(c, q) PROVE AskInv'
  <2>1. UNCHANGED <<asker, channel, outcomes>> BY <1>8 DEF Answer
  <2>2. CASE req[q] = "open"
    <3>1. /\ req' = [req EXCEPT ![q] = "answered"] /\ winners' = [winners EXCEPT ![q] = c]
          /\ sending' = sending \cup {<<c, q>>}
      BY <1>8, <2>2 DEF Answer
    <3>2. winners[q] = Nobody /\ channel[q] = Nobody BY <2>2
    <3>3. ASSUME NEW d \in Clients, <<d, q>> \in sending PROVE FALSE
      <4>1. winners[q] = d BY <3>3
      <4>q. QED BY <3>2, <4>1
    <3>4. \A p \in Questions : p # q => req'[p] = req[p] /\ winners'[p] = winners[p] BY <3>1
    <3>5. req'[q] = "answered" /\ winners'[q] = c BY <3>1
    <3>6. \A d \in Clients, p \in Questions : <<d, p>> \in sending' => winners'[p] = d
      BY <3>1, <3>3, <3>4, <3>5
    <3>7. \A p \in Questions : channel[p] # Nobody => channel[p] = winners'[p] BY <3>2, <3>4
    <3>q. QED BY <2>1, <3>4, <3>5, <3>6, <3>7
  <2>3. CASE req[q] # "open" BY <1>8, <2>1, <2>3 DEF Answer
  <2>q. QED BY <2>2, <2>3
<1>9. ASSUME NEW c \in Clients, NEW q \in Questions, SendAnswer(c, q) PROVE AskInv'
  BY <1>9 DEF SendAnswer
<1>10. CASE RequestsRestart
  BY <1>10 DEF RequestsRestart, Known
<1>11. CASE UNCHANGED requestVars
  BY <1>11 DEF requestVars
<1>q. QED
  BY <1>1, <1>2, <1>3, <1>4, <1>5, <1>6, <1>8, <1>9, <1>10, <1>11 DEF RequestsNext

LEMMA ReqInvAlways == RequestsSpec => []ReqInv
<1>1. NotifierInit /\ RequestsInit => ReqInv BY RequestsInvInit
<1>2. ReqInv /\ [RequestsNext]_<<notifierVars, requestVars>> => ReqInv'
  BY PlainStep, RowsStep, AskStep, TypeIs, TypeIsNext DEF ReqInv
<1>q. QED BY <1>1, <1>2, PTL DEF RequestsSpec

(* Every part of the state has its type (daemon/api/requests.go).          *)
THEOREM RequestsTypeCorrect == RequestsSpec => []RequestsTypeOK
<1>1. ReqInv => RequestsTypeOK BY DEF ReqInv
<1>q. QED BY <1>1, ReqInvAlways, PTL

(* A request reaches a subscribed connection once, whether it was asked    *)
(* before the connection subscribed or after (requests.go, broadcast and   *)
(* subscribeAndCatchUp, both under reqMu).                                 *)
THEOREM ShownOnce == RequestsSpec => []ShownExactlyOnce
<1>1. ReqInv => ShownExactlyOnce BY DEF ReqInv, ShownInv
<1>q. QED BY <1>1, ReqInvAlways, PTL

-----------------------------------------------------------------------------
(* The asker is served: every step is one of Asker's, or none of them. *)

PromiseVars == <<winners, outcomes>>
PromiseNext ==
  \/ \E q \in Questions, c \in Clients : Promise!Win(q, c)
  \/ \E q \in Questions : Promise!Settle(q)
  \/ Promise!Abandon

LEMMA StepServes ==
  ASSUME Plain, AskInv, [RequestsNext]_<<notifierVars, requestVars>>
  PROVE  [PromiseNext]_PromiseVars
<1> USE DEF PromiseVars, PromiseNext
<1>1. ASSUME NEW q \in Questions, Ask(q) PROVE [PromiseNext]_PromiseVars
  BY <1>1 DEF Ask, AskInv, Promise!Settle
<1>2. ASSUME NEW q \in Questions, TakeAnswer(q) PROVE [PromiseNext]_PromiseVars
  <2>1. outcomes[q] = "asked" /\ winners[q] # Nobody /\ channel[q] = winners[q] BY <1>2 DEF TakeAnswer, AskInv
  <2>2. Promise!Settle(q) BY <1>2, <2>1 DEF TakeAnswer, Promise!Settle
  <2>q. QED BY <2>2
<1>3. ASSUME NEW q \in Questions, MarkTimedOut(q) PROVE [PromiseNext]_PromiseVars
  BY <1>3 DEF MarkTimedOut, AskInv, Promise!Settle
<1>4. ASSUME NEW q \in Questions, Opened(q) \/ Closed(q) \/ GiveUp(q) \/ Forget(q)
      PROVE  UNCHANGED PromiseVars
  BY <1>4 DEF Opened, Closed, GiveUp, Forget
<1>5. ASSUME NEW c \in Clients, Subscribe(c) \/ Leave(c) PROVE UNCHANGED PromiseVars
  BY <1>5 DEF Subscribe, Leave
<1>6. ASSUME NEW c \in Clients, NEW q \in Questions, Answer(c, q) PROVE [PromiseNext]_PromiseVars
  <2>1. CASE req[q] = "open"
    <3>1. outcomes[q] = "asked" /\ winners[q] = Nobody BY <2>1 DEF AskInv
    <3>2. winners' = [winners EXCEPT ![q] = c] /\ UNCHANGED outcomes BY <1>6, <2>1 DEF Answer
    <3>3. Promise!Win(q, c) BY <3>1, <3>2 DEF Promise!Win
    <3>q. QED BY <3>3
  <2>2. CASE req[q] # "open" BY <1>6, <2>2 DEF Answer
  <2>q. QED BY <2>1, <2>2
<1>7. ASSUME NEW c \in Clients, NEW q \in Questions, SendAnswer(c, q) PROVE UNCHANGED PromiseVars
  BY <1>7 DEF SendAnswer
<1>8. CASE RequestsRestart
  <2> DEFINE asking == {q \in Questions : outcomes[q] = "asked" /\ asker[q] # "idle"}
  <2>1. outcomes' = [q \in Questions |-> IF q \in asking THEN "unanswered" ELSE outcomes[q]]
    BY <1>8 DEF RequestsRestart
  <2>2. asking \in SUBSET {q \in Questions : outcomes[q] = "asked"} OBVIOUS
  <2>3. UNCHANGED winners BY <1>8 DEF RequestsRestart
  <2> HIDE DEF asking
  <2>4. Promise!Abandon BY <2>1, <2>2, <2>3 DEF Promise!Abandon
  <2>q. QED BY <2>4
<1>9. CASE UNCHANGED requestVars BY <1>9 DEF requestVars
<1>q. QED BY <1>1, <1>2, <1>3, <1>4, <1>5, <1>6, <1>7, <1>8, <1>9 DEF RequestsNext

(* Whoever asked gets the first answer given while the request was open,   *)
(* or nobody's, and once: routeResponse, the select and markTimedOut       *)
(* (requests.go) do what Asker promises, through a restart too.            *)
THEOREM AskersServed == RequestsSpec => AskersAreServed
<1>1. RequestsInit => Promise!AskerInit BY DEF RequestsInit, Promise!AskerInit
<1>2. ReqInv /\ [RequestsNext]_<<notifierVars, requestVars>> => [PromiseNext]_PromiseVars
  BY StepServes, TypeIs DEF ReqInv
<1>q. QED
  BY <1>1, <1>2, ReqInvAlways, PTL
  DEF RequestsSpec, AskersAreServed, Promise!AskerSpec, PromiseNext, PromiseVars

-----------------------------------------------------------------------------
(* What the phones are told. *)

(* The items of the queue.  Records of three shapes: the provers take one  *)
(* shape at a time.                                                        *)
States == {"idle", "running"} \cup Stops
Reasons == {"prompt", "turn_complete", "interrupted", "finished", "daemon_restart"}
RequestItem == [k : {"request"}, r : Questions, open : BOOLEAN, n : {0}]
StateItem ==
  [k : {"state"}, s : Sessions, from : States, to : States, reason : Reasons, at : Nat, n : Nat]
LabelItem == [k : {"labels"}, s : Sessions, to : BOOLEAN, n : Nat]
Item == RequestItem \cup StateItem \cup LabelItem

LEMMA RequestItemIs ==
  ASSUME NEW x \in RequestItem
  PROVE  x.k = "request" /\ x.r \in Questions /\ x.open \in BOOLEAN /\ x.n = 0
BY DEF RequestItem

LEMMA StateItemIs ==
  ASSUME NEW x \in StateItem
  PROVE  /\ x.k = "state" /\ x.s \in Sessions /\ x.from \in States /\ x.to \in States
         /\ x.reason \in Reasons /\ x.at \in Nat /\ x.n \in Nat
BY DEF StateItem

LEMMA LabelItemIs ==
  ASSUME NEW x \in LabelItem
  PROVE  x.k = "labels" /\ x.s \in Sessions /\ x.to \in BOOLEAN /\ x.n \in Nat
BY DEF LabelItem

LEMMA ItemIs ==
  ASSUME NEW x \in Item
  PROVE  /\ x.k \in {"request", "state", "labels"} /\ x.n \in Nat
         /\ x.k = "request" => x \in RequestItem
         /\ x.k = "state" => x \in StateItem
         /\ x.k = "labels" => x \in LabelItem
<1>1. CASE x \in RequestItem BY <1>1, RequestItemIs
<1>2. CASE x \in StateItem BY <1>2, StateItemIs
<1>3. CASE x \in LabelItem BY <1>3, LabelItemIs
<1>q. QED BY <1>1, <1>2, <1>3 DEF Item

(* A queue grows at its end and shrinks at its head.                       *)
LEMMA QueueGrows ==
  ASSUME NEW S, NEW q \in Seq(S), NEW x \in S, NEW p, p = Append(q, x)
  PROVE  /\ p \in Seq(S) /\ Len(p) = Len(q) + 1 /\ Len(q) \in Nat /\ p[Len(q) + 1] = x
         /\ \A i \in 1 .. Len(q) : p[i] = q[i]
         /\ DOMAIN p = 1 .. Len(q) + 1 /\ DOMAIN q = 1 .. Len(q)
OBVIOUS

LEMMA QueueShrinks ==
  ASSUME NEW S, NEW q \in Seq(S), q # <<>>, NEW p, p = Tail(q)
  PROVE  /\ p \in Seq(S) /\ Len(q) \in Nat \ {0} /\ Len(p) = Len(q) - 1
         /\ \A i \in 1 .. Len(p) : p[i] = q[i + 1]
         /\ DOMAIN p = 1 .. Len(p) /\ DOMAIN q = 1 .. Len(q) /\ Head(q) = q[1] /\ q[1] \in S
OBVIOUS

TellTypes ==
  /\ queue \in Seq(Item)
  /\ turnStart \in [Sessions -> Nat] /\ began \in [Sessions -> Nat] /\ sState \in [Sessions -> States]
  /\ clock \in Nat /\ appends \in Nat
  /\ \A n \in owed : n \in 1 .. appends
  /\ shownAsk \subseteq Questions

(* No start of a turn that the notifier knows of, or will, is later than   *)
(* the start of the turn there is.                                         *)
StartsFit ==
  /\ \A s \in Sessions : turnStart[s] <= began[s] /\ began[s] <= clock
  /\ \A i \in DOMAIN queue :
       /\ queue[i].n <= appends
       /\ queue[i].k = "state" /\ queue[i].to = "running" => queue[i].at <= began[queue[i].s]

(* What is owed and waits in the queue will be worth a notification when   *)
(* it is its turn, whatever is decided before it.                          *)
IsIdle(x) == x.k = "state" /\ x.from = "running" /\ x.to = "idle" /\ x.reason = "turn_complete"
IsDue(x, start) ==
  /\ x.k # "request" /\ x.s \in Roots
  /\ \/ x.k = "labels" /\ x.to = TRUE
     \/ x.k = "state" /\ x.from = "running" /\ x.to \in Stops
     \/ IsIdle(x) /\ start[x.s] + DoneAfter <= x.at
Begins(x, s) == x.k = "state" /\ x.to = "running" /\ x.s = s

DueFits ==
  \A i \in DOMAIN queue : queue[i].k # "request" /\ queue[i].n \in owed =>
    /\ IsDue(queue[i], turnStart)
    /\ IsIdle(queue[i]) =>
         \A j \in DOMAIN queue : j < i /\ Begins(queue[j], queue[i].s) => queue[j].at + DoneAfter <= queue[i].at

EndsFit ==
  \A n \in owed : \/ n \in lost \/ n \in heard
                  \/ \E i \in DOMAIN queue : queue[i].k # "request" /\ queue[i].n = n

(* The end of a request's wait follows its opening, in the queue, or will, *)
(* or a daemon that went took it along.                                    *)
Closes(x, q) == x.k = "request" /\ x.r = q /\ ~x.open
WaitsIn(a, o, q) == a[q] \in {"waiting", "gave up", "closing"} \/ q \in o
ClosesFit ==
  /\ \A q \in shownAsk : WaitsIn(asker, orphans, q) \/ 0 \in lost \/ \E i \in DOMAIN queue : Closes(queue[i], q)
  /\ \A j \in DOMAIN queue : queue[j].k = "request" =>
       \/ WaitsIn(asker, orphans, queue[j].r) \/ 0 \in lost
       \/ \E i \in DOMAIN queue : i >= j /\ Closes(queue[i], queue[j].r)

TellInv == TellTypes /\ StartsFit /\ DueFits /\ EndsFit /\ ClosesFit

LEMMA TellEnough == TellInv => PhonesAreTold
<1> SUFFICES ASSUME TellInv PROVE PhonesAreTold OBVIOUS
<1>1. ASSUME NEW n \in owed, n \notin lost, n \notin Queued PROVE n \in heard
  BY <1>1 DEF TellInv, EndsFit, Queued
<1>2. EndsAreHeard BY <1>1 DEF EndsAreHeard
<1>q. QED BY <1>2 DEF TellInv, ClosesFit, Closes, WaitsIn, PhonesAreTold, Waited, EndQueued

LEMMA TellInit == NotifierInit => TellInv
<1> SUFFICES ASSUME NotifierInit PROVE TellInv OBVIOUS
<1>1. queue = <<>> /\ queue \in Seq(Item) /\ DOMAIN queue = {} BY DEF NotifierInit
<1>2. TellTypes BY <1>1 DEF NotifierInit, TellTypes, States, Unseen
<1>3. StartsFit BY <1>1 DEF NotifierInit, StartsFit, Unseen
<1>q. QED BY <1>1, <1>2, <1>3 DEF NotifierInit, TellInv, DueFits, EndsFit, ClosesFit

(* Steps that neither the notifier nor its queue sees.                     *)
LEMMA TellQuiet ==
  ASSUME TellInv, UNCHANGED <<queue, turnStart, sState, began, clock, appends, owed, lost, heard, shownAsk,
                   orphans>>,
         \A q \in Questions : WaitsIn(asker, orphans, q) => WaitsIn(asker', orphans', q)
  PROVE  TellInv'
<1>1. TellTypes' BY DEF TellInv, TellTypes
<1>2. StartsFit' BY DEF TellInv, StartsFit
<1>3. DueFits' BY DEF TellInv, DueFits, IsDue, IsIdle, Begins
<1>4. EndsFit' BY DEF TellInv, EndsFit
<1>5. \A j \in DOMAIN queue : queue[j].k = "request" => queue[j].r \in Questions
  BY ItemIs, RequestItemIs DEF TellInv, TellTypes
<1>6. ClosesFit' BY <1>5 DEF TellInv, TellTypes, ClosesFit, Closes
<1>q. QED BY <1>1, <1>2, <1>3, <1>4, <1>6 DEF TellInv

LEMMA TellTick ==
  ASSUME TellInv, Tick, UNCHANGED asker
  PROVE  TellInv'
<1> USE DEF Tick, daemonVars
<1>1. TellTypes' BY DEF TellInv, TellTypes
<1>2. StartsFit' BY DEF TellInv, StartsFit, TellTypes
<1>3. DueFits' BY DEF TellInv, DueFits, IsDue, IsIdle, Begins
<1>4. EndsFit' BY DEF TellInv, EndsFit
<1>5. ClosesFit' BY DEF TellInv, ClosesFit, Closes, WaitsIn
<1>q. QED BY <1>1, <1>2, <1>3, <1>4, <1>5 DEF TellInv

(* The opening of a request, or its end.                                   *)
LEMMA TellRequest ==
  ASSUME TellInv, NEW x \in RequestItem, Offer(x, 0),
         UNCHANGED <<turnStart, sState, began, clock, appends, owed, heard, shownAsk, orphans>>,
         \A q \in Questions : WaitsIn(asker, orphans, q) => WaitsIn(asker', orphans', q) \/ Closes(x, q),
         x.open => WaitsIn(asker', orphans', x.r)
  PROVE  TellInv'
<1>x. x \in Item /\ x.k = "request" /\ x.r \in Questions /\ x.open \in BOOLEAN /\ x.n = 0
  BY RequestItemIs DEF Item
<1>t. queue \in Seq(Item) /\ appends \in Nat BY DEF TellInv, TellTypes
<1>1. CASE queue' = Append(queue, x) /\ UNCHANGED lost
  <2>1. /\ queue' \in Seq(Item) /\ Len(queue') = Len(queue) + 1 /\ Len(queue) \in Nat
        /\ queue'[Len(queue) + 1] = x /\ \A i \in 1 .. Len(queue) : queue'[i] = queue[i]
        /\ DOMAIN queue' = 1 .. Len(queue) + 1 /\ DOMAIN queue = 1 .. Len(queue)
    BY <1>1, <1>x, <1>t, QueueGrows
  <2> DEFINE m == Len(queue)
  <2>2. /\ m \in Nat /\ queue'[m + 1] = x /\ \A i \in 1 .. m : queue'[i] = queue[i]
        /\ DOMAIN queue' = 1 .. m + 1 /\ DOMAIN queue = 1 .. m
    BY <2>1
  <2> HIDE DEF m
  <2>3. 1 .. m + 1 = (1 .. m) \cup {m + 1} BY <2>2
  <2>4. TellTypes' BY <2>1 DEF TellInv, TellTypes
  <2>5. StartsFit' BY <1>x, <1>t, <2>2, <2>3 DEF TellInv, StartsFit
  <2>6. DueFits'
    <3>1. ASSUME NEW i \in 1 .. m + 1, queue'[i].k # "request", queue'[i].n \in owed
          PROVE  /\ IsDue(queue'[i], turnStart')
                 /\ IsIdle(queue'[i]) =>
                      \A j \in 1 .. m + 1 :
                        j < i /\ Begins(queue'[j], queue'[i].s) => queue'[j].at + DoneAfter <= queue'[i].at
      <4>1. i \in 1 .. m /\ queue'[i] = queue[i] BY <1>x, <2>2, <2>3, <3>1
      <4>2. IsDue(queue[i], turnStart) BY <2>2, <3>1, <4>1 DEF TellInv, DueFits
      <4>3. IsDue(queue[i], turnStart') BY <4>1, <4>2 DEF IsDue, IsIdle
      <4>4. ASSUME IsIdle(queue[i]), NEW j \in 1 .. m + 1, j < i, Begins(queue'[j], queue[i].s)
            PROVE  queue'[j].at + DoneAfter <= queue[i].at
        <5>1. j \in 1 .. m /\ queue'[j] = queue[j] BY <2>2, <4>1, <4>4
        <5>q. QED BY <2>2, <3>1, <4>1, <4>4, <5>1 DEF TellInv, DueFits
      <4>q. QED BY <4>1, <4>3, <4>4
    <3>q. QED BY <2>2, <3>1 DEF DueFits, IsDue, IsIdle, Begins
  <2>7. EndsFit' BY <1>1, <2>2, <2>3 DEF TellInv, EndsFit
  <2>8. ClosesFit'
    <3>1. ASSUME NEW q PROVE Closes(x, q) => \E i \in DOMAIN queue' : i = m + 1 /\ Closes(queue'[i], q)
      BY <2>2, <2>3
    <3>2. ASSUME NEW q \in shownAsk
          PROVE  WaitsIn(asker', orphans', q) \/ 0 \in lost' \/ \E i \in DOMAIN queue' : Closes(queue'[i], q)
      BY <1>1, <2>2, <2>3, <3>1, <3>2 DEF TellInv, TellTypes, ClosesFit
    <3>3. ASSUME NEW j \in 1 .. m + 1, queue'[j].k = "request"
          PROVE  \/ WaitsIn(asker', orphans', queue'[j].r) \/ 0 \in lost'
                 \/ \E i \in DOMAIN queue' : i >= j /\ Closes(queue'[i], queue'[j].r)
      <4>1. CASE j = m + 1
        <5>1. CASE x.open BY <2>2, <4>1, <5>1
        <5>2. CASE ~x.open
          <6>1. Closes(x, x.r) BY <1>x, <5>2 DEF Closes
          <6>2. m + 1 \in DOMAIN queue' /\ m + 1 >= j BY <2>2, <2>3, <4>1
          <6>q. QED BY <2>2, <4>1, <6>1, <6>2
        <5>q. QED BY <5>1, <5>2
      <4>2. CASE j \in 1 .. m
        <5>1. queue'[j] = queue[j] /\ m + 1 >= j BY <2>2, <4>2
        <5>2. CASE WaitsIn(asker, orphans, queue[j].r)
          <6>1. CASE WaitsIn(asker', orphans', queue[j].r) BY <5>1, <6>1
          <6>2. CASE Closes(x, queue[j].r) BY <3>1, <5>1, <6>2
          <6>3. queue[j].r \in Questions
            BY <1>t, <2>2, <3>3, <4>2, <5>1, ItemIs, RequestItemIs
          <6>q. QED BY <5>2, <6>1, <6>2, <6>3
        <5>3. CASE 0 \in lost BY <1>1, <5>3
        <5>4. CASE \E i \in DOMAIN queue : i >= j /\ Closes(queue[i], queue[j].r)
          BY <2>2, <2>3, <5>1, <5>4
        <5>q. QED BY <2>2, <3>3, <4>2, <5>1, <5>2, <5>3, <5>4 DEF TellInv, ClosesFit
      <4>q. QED BY <2>3, <3>3, <4>1, <4>2
    <3>q. QED BY <2>2, <3>2, <3>3 DEF ClosesFit, Closes
  <2>q. QED BY <2>4, <2>5, <2>6, <2>7, <2>8 DEF TellInv
<1>2. CASE UNCHANGED queue /\ lost' = lost \cup {0}
  <2>1. TellTypes' BY <1>2 DEF TellInv, TellTypes
  <2>2. StartsFit' BY <1>2 DEF TellInv, StartsFit
  <2>3. DueFits' BY <1>2 DEF TellInv, DueFits, IsDue, IsIdle, Begins
  <2>4. EndsFit' BY <1>2 DEF TellInv, EndsFit
  <2>5. ClosesFit' BY <1>2 DEF ClosesFit
  <2>q. QED BY <2>1, <2>2, <2>3, <2>4, <2>5 DEF TellInv
<1>q. QED BY <1>1, <1>2 DEF Offer

(* An item that a session's log gave.  `began` may be moved up to now, and *)
(* what is owed is owed by the true start of the turn.                     *)
OwedBy(x) ==
  /\ x.s \in Roots
  /\ \/ x.k = "labels" /\ x.to = TRUE
     \/ x.k = "state" /\ x.from = "running" /\ x.to \in Stops
     \/ IsIdle(x) /\ began[x.s] + DoneAfter <= x.at

LEMMA TellEvent ==
  ASSUME TellInv, NEW x \in StateItem \cup LabelItem, x.n = appends + 1, appends' = appends + 1,
         Offer(x, appends + 1), UNCHANGED <<turnStart, clock, heard, shownAsk, asker, orphans>>,
         \/ owed' = owed
         \/ owed' = owed \cup {appends + 1} /\ OwedBy(x),
         sState' \in [Sessions -> States], began' \in [Sessions -> Nat],
         \A s \in Sessions : began[s] <= began'[s] /\ began'[s] <= clock,
         x.k = "state" /\ x.to = "running" => x.at <= began'[x.s]
  PROVE  TellInv'
<1>x. x \in Item /\ x.k \in {"state", "labels"} /\ x.s \in Sessions /\ x.n \in Nat /\ x.n = appends + 1
  BY StateItemIs, LabelItemIs DEF Item
<1>a. x.k = "state" => x.at \in Nat BY ItemIs, StateItemIs, <1>x
<1>t. queue \in Seq(Item) /\ appends \in Nat BY DEF TellInv, TellTypes
<1>o. \A n \in owed : n \in 1 .. appends BY DEF TellInv, TellTypes
<1>1. \A n \in owed' : n \in 1 .. appends' BY <1>t, <1>o
<1>2. \A s \in Sessions : turnStart[s] <= began'[s] /\ turnStart[s] \in Nat /\ began'[s] \in Nat /\ began[s] \in Nat
  BY DEF TellInv, TellTypes, StartsFit
<1>d. ASSUME NEW i \in DOMAIN queue
      PROVE  queue[i] \in Item /\ queue[i].n \in Nat /\ queue[i].n <= appends /\ queue[i].n # appends + 1
  <2>1. queue[i] \in Item BY <1>t
  <2>2. queue[i].n \in Nat BY <2>1, ItemIs
  <2>3. queue[i].n <= appends BY DEF TellInv, StartsFit
  <2>q. QED BY <1>t, <2>1, <2>2, <2>3
<1>e. ASSUME NEW i \in DOMAIN queue, queue[i].k = "state"
      PROVE  queue[i].s \in Sessions /\ queue[i].at \in Nat
  BY <1>d, <1>e, ItemIs, StateItemIs
<1>b. \A i \in DOMAIN queue : queue[i].k = "state" /\ queue[i].to = "running" =>
        /\ queue[i].at <= began[queue[i].s] /\ queue[i].at <= began'[queue[i].s]
  BY <1>2, <1>e DEF TellInv, StartsFit
<1>3. ASSUME NEW i \in DOMAIN queue, queue[i].k # "request", queue[i].n \in owed'
      PROVE  /\ IsDue(queue[i], turnStart)
             /\ IsIdle(queue[i]) =>
                  \A j \in DOMAIN queue :
                    j < i /\ Begins(queue[j], queue[i].s) => queue[j].at + DoneAfter <= queue[i].at
  <2>1. queue[i].n \in owed BY <1>d, <1>3
  <2>q. QED BY <1>3, <2>1 DEF TellInv, DueFits
<1>4. CASE queue' = Append(queue, x) /\ UNCHANGED lost
  <2>1. /\ queue' \in Seq(Item) /\ Len(queue') = Len(queue) + 1 /\ Len(queue) \in Nat
        /\ queue'[Len(queue) + 1] = x /\ \A i \in 1 .. Len(queue) : queue'[i] = queue[i]
        /\ DOMAIN queue' = 1 .. Len(queue) + 1 /\ DOMAIN queue = 1 .. Len(queue)
    BY <1>4, <1>x, <1>t, QueueGrows
  <2> DEFINE m == Len(queue)
  <2>2. /\ m \in Nat /\ queue'[m + 1] = x /\ \A i \in 1 .. m : queue'[i] = queue[i]
        /\ DOMAIN queue' = 1 .. m + 1 /\ DOMAIN queue = 1 .. m
    BY <2>1
  <2> HIDE DEF m
  <2>3. 1 .. m + 1 = (1 .. m) \cup {m + 1} BY <2>2
  <2>4. TellTypes' BY <1>1, <1>t, <2>1 DEF TellInv, TellTypes
  <2>5. StartsFit'
    <3>1. ASSUME NEW i \in 1 .. m + 1
          PROVE  /\ queue'[i].n <= appends + 1
                 /\ queue'[i].k = "state" /\ queue'[i].to = "running" => queue'[i].at <= began'[queue'[i].s]
      <4>1. CASE i = m + 1 BY <1>x, <1>t, <2>2, <4>1
      <4>2. CASE i \in 1 .. m
        <5>1. i \in DOMAIN queue /\ queue'[i] = queue[i] BY <2>2, <4>2
        <5>2. queue[i].n <= appends + 1 BY <1>t, <1>d, <5>1
        <5>q. QED BY <1>b, <5>1, <5>2
      <4>q. QED BY <2>3, <4>1, <4>2
    <3>q. QED BY <1>2, <2>2, <3>1 DEF StartsFit
  <2>6. DueFits'
    <3>1. ASSUME NEW i \in 1 .. m + 1, queue'[i].k # "request", queue'[i].n \in owed'
          PROVE  /\ IsDue(queue'[i], turnStart')
                 /\ IsIdle(queue'[i]) =>
                      \A j \in 1 .. m + 1 :
                        j < i /\ Begins(queue'[j], queue'[i].s) => queue'[j].at + DoneAfter <= queue'[i].at
      <4>1. CASE i \in 1 .. m
        <5>1. queue'[i] = queue[i] /\ i \in DOMAIN queue BY <2>2, <4>1
        <5>2. IsDue(queue[i], turnStart') BY <1>3, <3>1, <5>1
        <5>3. ASSUME IsIdle(queue[i]), NEW j \in 1 .. m + 1, j < i, Begins(queue'[j], queue[i].s)
              PROVE  queue'[j].at + DoneAfter <= queue[i].at
          <6>1. j \in 1 .. m /\ queue'[j] = queue[j] BY <2>2, <4>1, <5>3
          <6>q. QED BY <1>3, <2>2, <3>1, <5>1, <5>3, <6>1
        <5>q. QED BY <5>1, <5>2, <5>3
      <4>2. CASE i = m + 1
        <5>1. queue'[i] = x BY <2>2, <4>2
        <5>2. OwedBy(x) BY <1>t, <1>o, <1>x, <3>1, <5>1
        <5>3. IsIdle(x) => turnStart[x.s] + DoneAfter <= x.at /\ began[x.s] + DoneAfter <= x.at
          <6> SUFFICES ASSUME IsIdle(x)
                       PROVE  turnStart[x.s] + DoneAfter <= x.at /\ began[x.s] + DoneAfter <= x.at
            OBVIOUS
          <6>1. began[x.s] + DoneAfter <= x.at BY <5>2 DEF OwedBy, IsIdle, Stops
          <6>2. turnStart[x.s] <= began[x.s] BY <1>x DEF TellInv, StartsFit
          <6>3. x.at \in Nat BY <1>a DEF IsIdle
          <6>q. QED BY <1>2, <1>x, <6>1, <6>2, <6>3, NotifierAssumption
        <5>4. IsDue(x, turnStart') BY <1>x, <5>2, <5>3 DEF OwedBy, IsDue
        <5>5. ASSUME IsIdle(x), NEW j \in 1 .. m + 1, j < i, Begins(queue'[j], x.s)
              PROVE  queue'[j].at + DoneAfter <= x.at
          <6>1. j \in DOMAIN queue /\ queue'[j] = queue[j] BY <2>2, <4>2, <5>5
          <6>2. queue[j].at <= began[x.s] /\ queue[j].at \in Nat BY <1>b, <1>e, <5>5, <6>1 DEF Begins
          <6>3. x.at \in Nat BY <1>a, <5>5 DEF IsIdle
          <6>4. began[x.s] + DoneAfter <= x.at BY <5>3, <5>5
          <6>q. QED BY <1>2, <1>x, <6>1, <6>2, <6>3, <6>4, NotifierAssumption
        <5>q. QED BY <5>1, <5>4, <5>5
      <4>q. QED BY <2>3, <4>1, <4>2
    <3>q. QED BY <2>2, <3>1 DEF DueFits, IsDue, IsIdle, Begins
  <2>7. EndsFit'
    <3>1. \E i \in DOMAIN queue' : queue'[i].k # "request" /\ queue'[i].n = appends + 1
      BY <1>x, <2>2, <2>3
    <3>2. ASSUME NEW n \in owed
          PROVE  n \in lost \/ n \in heard \/ \E i \in DOMAIN queue' : queue'[i].k # "request" /\ queue'[i].n = n
      BY <2>2, <2>3 DEF TellInv, EndsFit
    <3>q. QED BY <1>4, <3>1, <3>2 DEF EndsFit
  <2>8. ClosesFit'
    <3>1. ASSUME NEW j \in 1 .. m + 1, queue'[j].k = "request" PROVE j \in 1 .. m
      BY <1>x, <2>2, <2>3, <3>1
    <3>2. ASSUME NEW q, NEW j, \E i \in DOMAIN queue : i >= j /\ Closes(queue[i], q)
          PROVE  \E i \in DOMAIN queue' : i >= j /\ Closes(queue'[i], q)
      BY <2>2, <2>3, <3>2
    <3>3. ASSUME NEW q, \E i \in DOMAIN queue : Closes(queue[i], q)
          PROVE  \E i \in DOMAIN queue' : Closes(queue'[i], q)
      BY <2>2, <2>3, <3>3
    <3>4. \A q \in shownAsk : WaitsIn(asker, orphans, q) \/ 0 \in lost \/ \E i \in DOMAIN queue' : Closes(queue'[i], q)
      BY <3>3 DEF TellInv, ClosesFit
    <3>5. ASSUME NEW j \in 1 .. m + 1, queue'[j].k = "request"
          PROVE  \/ WaitsIn(asker, orphans, queue'[j].r) \/ 0 \in lost
                 \/ \E i \in DOMAIN queue' : i >= j /\ Closes(queue'[i], queue'[j].r)
      <4>1. j \in DOMAIN queue /\ queue'[j] = queue[j] BY <2>2, <3>1, <3>5
      <4>q. QED BY <3>2, <3>5, <4>1 DEF TellInv, ClosesFit
    <3>q. QED BY <1>4, <2>2, <3>4, <3>5 DEF ClosesFit, Closes, WaitsIn
  <2>q. QED BY <2>4, <2>5, <2>6, <2>7, <2>8 DEF TellInv
<1>5. CASE UNCHANGED queue /\ lost' = lost \cup {appends + 1}
  <2>1. TellTypes' BY <1>1, <1>t, <1>5 DEF TellInv, TellTypes
  <2>2. StartsFit'
    <3>1. \A i \in DOMAIN queue : queue[i].n <= appends + 1 BY <1>t, <1>d
    <3>q. QED BY <1>2, <1>b, <1>5, <3>1 DEF StartsFit
  <2>3. DueFits' BY <1>3, <1>5 DEF DueFits, IsDue, IsIdle, Begins
  <2>4. EndsFit' BY <1>5 DEF TellInv, EndsFit
  <2>5. ClosesFit' BY <1>5 DEF TellInv, ClosesFit, Closes, WaitsIn
  <2>q. QED BY <2>1, <2>2, <2>3, <2>4, <2>5 DEF TellInv
<1>q. QED BY <1>4, <1>5 DEF Offer

LEMMA BeginOrFinish ==
  ASSUME NEW s \in Sessions, TellInv, Begin(s) \/ Finish(s) \/ RecoverInterrupted(s)
  PROVE  \E to \in States, reason \in Reasons : StateChange(s, to, reason)
BY DEF Begin, Finish, RecoverInterrupted, States, Reasons, Stops

LEMMA TellStateChange ==
  ASSUME TellInv, NEW s \in Sessions, NEW to \in States, NEW reason \in Reasons,
         StateChange(s, to, reason), UNCHANGED asker
  PROVE  TellInv'
<1> DEFINE x == [k |-> "state", s |-> s, from |-> sState[s], to |-> to, reason |-> reason, at |-> clock,
                 n |-> appends + 1]
<1>t. /\ appends \in Nat /\ clock \in Nat /\ sState \in [Sessions -> States] /\ began \in [Sessions -> Nat]
      /\ \A z \in Sessions : began[z] \in Nat /\ began[z] <= clock
  BY DEF TellInv, TellTypes, StartsFit
<1>1. /\ x \in StateItem /\ x.k = "state" /\ x.s = s /\ x.from = sState[s] /\ x.to = to
      /\ x.reason = reason /\ x.at = clock /\ x.n = appends + 1
  BY <1>t DEF StateItem
<1>2. Offer(x, appends + 1) BY DEF StateChange
<1> HIDE DEF x
<1>3. /\ appends' = appends + 1 /\ UNCHANGED <<turnStart, clock, heard, shownAsk, orphans>>
      /\ sState' = [sState EXCEPT ![s] = to]
      /\ began' = IF to = "running" THEN [began EXCEPT ![s] = clock] ELSE began
  BY DEF StateChange, daemonVars
<1>4. began' \in [Sessions -> Nat] /\ \A z \in Sessions : began[z] <= began'[z] /\ began'[z] <= clock
  BY <1>t, <1>3
<1>5. sState' \in [Sessions -> States] BY <1>t, <1>3
<1>6. owed' = owed \/ (owed' = owed \cup {appends + 1} /\ OwedBy(x))
  <2>1. CASE /\ s \in Roots /\ sState[s] = "running"
             /\ \/ to \in Stops
                \/ to = "idle" /\ reason = "turn_complete" /\ clock - began[s] >= DoneAfter
    <3>1. owed' = owed \cup {appends + 1} BY <2>1 DEF StateChange
    <3>2. CASE to \in Stops BY <1>1, <2>1, <3>1, <3>2 DEF OwedBy
    <3>3. CASE to = "idle" /\ reason = "turn_complete" /\ clock - began[s] >= DoneAfter
      <4>1. began[s] + DoneAfter <= clock BY <1>t, <3>3, NotifierAssumption
      <4>q. QED BY <1>1, <2>1, <3>1, <3>3, <4>1 DEF OwedBy, IsIdle
    <3>q. QED BY <2>1, <3>2, <3>3
  <2>2. CASE ~(/\ s \in Roots /\ sState[s] = "running"
               /\ \/ to \in Stops
                  \/ to = "idle" /\ reason = "turn_complete" /\ clock - began[s] >= DoneAfter)
    BY <2>2 DEF StateChange
  <2>q. QED BY <2>1, <2>2
<1>7. x.k = "state" /\ x.to = "running" => x.at <= began'[x.s] BY <1>t, <1>1, <1>3
<1>q. QED BY <1>1, <1>2, <1>3, <1>4, <1>5, <1>6, <1>7, TellEvent

LEMMA TellRelabel ==
  ASSUME TellInv, NEW s \in Sessions, Relabel(s), UNCHANGED asker
  PROVE  TellInv'
<1> DEFINE x == [k |-> "labels", s |-> s, to |-> s \notin labelled, n |-> appends + 1]
<1>t. /\ appends \in Nat /\ clock \in Nat /\ sState \in [Sessions -> States] /\ began \in [Sessions -> Nat]
      /\ \A z \in Sessions : began[z] \in Nat /\ began[z] <= clock
  BY DEF TellInv, TellTypes, StartsFit
<1>1. x.k = "labels" /\ x.s = s /\ x.n = appends + 1 /\ (s \notin labelled => x.to = TRUE) OBVIOUS
<1>r. x \in LabelItem
  <2> DEFINE b == s \notin labelled
  <2>1. b \in BOOLEAN OBVIOUS
  <2>2. x = [k |-> "labels", s |-> s, to |-> b, n |-> appends + 1] OBVIOUS
  <2> HIDE DEF b, x
  <2>q. QED BY <1>t, <2>1, <2>2 DEF LabelItem
<1>2. Offer(x, appends + 1) BY DEF Relabel
<1> HIDE DEF x
<1>3. /\ appends' = appends + 1 /\ UNCHANGED <<turnStart, clock, heard, shownAsk, sState, began, orphans>>
  BY DEF Relabel, daemonVars
<1>4. owed' = owed \/ (owed' = owed \cup {appends + 1} /\ OwedBy(x))
  BY <1>1 DEF Relabel, OwedBy
<1>5. x.k = "state" /\ x.to = "running" => x.at <= began'[x.s] BY <1>1
<1>6. \A z \in Sessions : began[z] <= began'[z] /\ began'[z] <= clock BY <1>t, <1>3
<1>q. QED BY <1>t, <1>1, <1>r, <1>2, <1>3, <1>4, <1>5, <1>6, TellEvent

(* What is due is worth it.                                                *)
LEMMA DueIsWorth ==
  ASSUME TellTypes, NEW x \in Item, x.k # "request", IsDue(x, turnStart)
  PROVE  Worth(x)
<1>1. CASE x.k = "labels" BY <1>1 DEF Worth, IsDue, IsIdle
<1>2. CASE x.k = "state" /\ x.to \in Stops BY <1>2 DEF Worth, IsDue, IsIdle
<1>3. CASE IsIdle(x) /\ turnStart[x.s] + DoneAfter <= x.at
  <2>1. x.k = "state" BY <1>3 DEF IsIdle
  <2>2. x.s \in Sessions /\ x.at \in Nat BY <2>1, ItemIs, StateItemIs
  <2>3. turnStart[x.s] \in Nat BY <2>2 DEF TellTypes
  <2>4. x.at - turnStart[x.s] >= DoneAfter BY <1>3, <2>2, <2>3, NotifierAssumption
  <2>q. QED BY <1>3, <2>4 DEF Worth, IsDue, IsIdle, LongEnough
<1>q. QED BY <1>1, <1>2, <1>3 DEF IsDue

LEMMA TellDecide ==
  ASSUME TellInv, Decide, UNCHANGED asker
  PROVE  TellInv'
<1> DEFINE x == Head(queue)
<1>t. queue \in Seq(Item) /\ queue # <<>> /\ queue' = Tail(queue) /\ appends \in Nat
  BY DEF TellInv, TellTypes, Decide
<1>1. /\ queue' \in Seq(Item) /\ Len(queue) \in Nat \ {0} /\ Len(queue') = Len(queue) - 1
      /\ \A i \in 1 .. Len(queue') : queue'[i] = queue[i + 1]
      /\ DOMAIN queue' = 1 .. Len(queue') /\ DOMAIN queue = 1 .. Len(queue)
      /\ x = queue[1] /\ x \in Item
  BY <1>t, QueueShrinks
<1> DEFINE m == Len(queue')
<1>2. /\ m \in Nat /\ DOMAIN queue' = 1 .. m /\ DOMAIN queue = 1 .. m + 1
      /\ \A i \in 1 .. m : queue'[i] = queue[i + 1] /\ i + 1 \in DOMAIN queue
      /\ 1 \in DOMAIN queue
  BY <1>1
<1> HIDE DEF m, x
<1>3. \A i \in DOMAIN queue : i = 1 \/ (i - 1 \in DOMAIN queue' /\ queue'[i - 1] = queue[i])
  <2> TAKE i \in DOMAIN queue
  <2>1. i \in 1 .. m + 1 BY <1>2
  <2>2. i = 1 \/ (i - 1 \in 1 .. m /\ (i - 1) + 1 = i) BY <1>2, <2>1
  <2>q. QED BY <1>2, <2>2
<1>4. UNCHANGED <<sState, began, clock, appends, owed, lost, orphans>> BY DEF Decide, daemonVars
<1>5. /\ x.k = "request" => turnStart' = turnStart /\ heard' = heard
                             /\ shownAsk' = IF x.open THEN shownAsk \cup {x.r} ELSE shownAsk \ {x.r}
      /\ x.k = "labels" => turnStart' = turnStart
      /\ x.k = "state" => turnStart' = [turnStart EXCEPT ![x.s] = IF x.to = "running" THEN x.at ELSE Unseen]
      /\ x.k # "request" => shownAsk' = shownAsk /\ heard' = IF Worth(x) THEN heard \cup {x.n} ELSE heard
  BY DEF Decide, x
<1>6. x.k \in {"request", "state", "labels"} /\ (x.k = "state" => x.s \in Sessions /\ x.at \in Nat)
  BY <1>1, ItemIs, StateItemIs
<1>7. /\ turnStart \in [Sessions -> Nat] /\ began \in [Sessions -> Nat]
      /\ \A s \in Sessions : turnStart[s] \in Nat /\ began[s] \in Nat /\ turnStart[s] <= began[s]
  BY DEF TellInv, TellTypes, StartsFit
<1>8. x.k = "state" /\ x.to = "running" => x.at <= began[x.s]
  BY <1>1, <1>2 DEF TellInv, StartsFit
<1>9. /\ turnStart' \in [Sessions -> Nat]
      /\ \A s \in Sessions : turnStart'[s] <= began[s]
      /\ \A s \in Sessions : \/ turnStart'[s] = turnStart[s] \/ turnStart'[s] = Unseen
                             \/ Begins(x, s) /\ turnStart'[s] = x.at
  <2>1. CASE x.k # "state" BY <1>5, <1>6, <1>7, <2>1
  <2>2. CASE x.k = "state" /\ x.to = "running"
    BY <1>5, <1>6, <1>7, <1>8, <2>2 DEF Begins
  <2>3. CASE x.k = "state" /\ x.to # "running"
    BY <1>5, <1>6, <1>7, <2>3 DEF Unseen
  <2>q. QED BY <2>1, <2>2, <2>3
<1>s. shownAsk' \subseteq Questions
  <2>1. x.k = "request" => x.r \in Questions BY <1>1, ItemIs, RequestItemIs
  <2>q. QED BY <1>5, <1>6, <2>1 DEF TellInv, TellTypes
<1>10. TellTypes' BY <1>1, <1>4, <1>9, <1>s DEF TellInv, TellTypes
<1>11. StartsFit' BY <1>2, <1>4, <1>9 DEF TellInv, StartsFit
<1>12. DueFits'
  <2>1. ASSUME NEW i \in 1 .. m, queue'[i].k # "request", queue'[i].n \in owed
        PROVE  /\ IsDue(queue'[i], turnStart')
               /\ IsIdle(queue'[i]) =>
                    \A j \in 1 .. m :
                      j < i /\ Begins(queue'[j], queue'[i].s) => queue'[j].at + DoneAfter <= queue'[i].at
    <3> DEFINE y == queue[i + 1]
    <3>1. queue'[i] = y /\ i + 1 \in DOMAIN queue /\ y \in Item BY <1>t, <1>2
    <3>2. /\ IsDue(y, turnStart)
          /\ IsIdle(y) => \A j \in DOMAIN queue : j < i + 1 /\ Begins(queue[j], y.s) => queue[j].at + DoneAfter <= y.at
      BY <2>1, <3>1 DEF TellInv, DueFits
    <3> HIDE DEF y
    <3>3. ASSUME IsIdle(y) PROVE turnStart'[y.s] + DoneAfter <= y.at
      <4>1. y.k = "state" BY <3>3 DEF IsIdle
      <4>2. y.s \in Sessions /\ y.at \in Nat BY <3>1, <4>1, ItemIs, StateItemIs
      <4>3. turnStart[y.s] + DoneAfter <= y.at BY <3>2, <3>3 DEF IsDue, IsIdle, Stops
      <4>4. CASE turnStart'[y.s] = turnStart[y.s] BY <4>3, <4>4
      <4>5. CASE turnStart'[y.s] = Unseen BY <1>7, <4>2, <4>3, <4>5, NotifierAssumption DEF Unseen
      <4>6. CASE Begins(x, y.s) /\ turnStart'[y.s] = x.at
        <5>1. 1 < i + 1 BY <1>2
        <5>2. x.at + DoneAfter <= y.at BY <1>1, <1>2, <3>2, <3>3, <4>6, <5>1
        <5>q. QED BY <4>6, <5>2
      <4>q. QED BY <1>9, <4>2, <4>4, <4>5, <4>6
    <3>4. IsDue(y, turnStart') BY <3>2, <3>3 DEF IsDue
    <3>5. ASSUME IsIdle(y), NEW j \in 1 .. m, j < i, Begins(queue'[j], y.s)
          PROVE  queue'[j].at + DoneAfter <= y.at
      <4>1. queue'[j] = queue[j + 1] /\ j + 1 \in DOMAIN queue BY <1>2
      <4>2. j + 1 < i + 1 BY <1>2, <3>5
      <4>q. QED BY <3>2, <3>5, <4>1, <4>2
    <3>q. QED BY <3>1, <3>4, <3>5
  <2>q. QED BY <1>2, <1>4, <2>1 DEF DueFits, IsDue, IsIdle, Begins
<1>13. EndsFit'
  <2>1. ASSUME NEW n \in owed, n \notin lost, n \notin heard
        PROVE  n \in heard' \/ \E i \in DOMAIN queue' : queue'[i].k # "request" /\ queue'[i].n = n
    <3>1. PICK i \in DOMAIN queue : queue[i].k # "request" /\ queue[i].n = n
      BY <2>1 DEF TellInv, EndsFit
    <3>2. CASE i = 1
      <4>1. x.k # "request" /\ x.n = n BY <1>1, <3>1, <3>2
      <4>2. IsDue(x, turnStart) BY <1>1, <1>2, <3>1, <3>2 DEF TellInv, DueFits
      <4>3. Worth(x) BY <1>1, <4>1, <4>2, DueIsWorth DEF TellInv
      <4>q. QED BY <1>5, <4>1, <4>3
    <3>3. CASE i # 1 BY <1>3, <3>1, <3>3
    <3>q. QED BY <3>2, <3>3
  <2>2. heard \subseteq heard' BY <1>5, <1>6
  <2>q. QED BY <1>4, <2>1, <2>2 DEF EndsFit
<1>14. ClosesFit'
  <2>1. ASSUME NEW q, \E i \in DOMAIN queue : i > 1 /\ Closes(queue[i], q)
        PROVE  \E i \in DOMAIN queue' : Closes(queue'[i], q)
    BY <1>3, <2>1
  <2>2. ASSUME NEW q \in shownAsk'
        PROVE  WaitsIn(asker, orphans, q) \/ 0 \in lost \/ \E i \in DOMAIN queue' : Closes(queue'[i], q)
    <3>1. CASE q \in shownAsk /\ ~Closes(x, q)
      <4>1. \A i \in DOMAIN queue : Closes(queue[i], q) => i > 1
        <5> TAKE i \in DOMAIN queue
        <5>1. i \in 1 .. m + 1 BY <1>2
        <5>2. i = 1 \/ i > 1 BY <1>2, <5>1
        <5>q. QED BY <1>1, <3>1, <5>2
      <4>q. QED BY <2>1, <3>1, <4>1 DEF TellInv, ClosesFit
    <3>2. CASE x.k = "request" /\ x.r = q /\ x.open
      <4>1. \/ WaitsIn(asker, orphans, q) \/ 0 \in lost
            \/ \E i \in DOMAIN queue : i >= 1 /\ Closes(queue[i], q)
        BY <1>1, <1>2, <3>2 DEF TellInv, ClosesFit
      <4>2. \A i \in DOMAIN queue : Closes(queue[i], q) => i > 1
        <5> TAKE i \in DOMAIN queue
        <5>1. i \in 1 .. m + 1 BY <1>2
        <5>2. i = 1 \/ i > 1 BY <1>2, <5>1
        <5>q. QED BY <1>1, <3>2, <5>2 DEF Closes
      <4>q. QED BY <2>1, <4>1, <4>2
    <3>3. (q \in shownAsk /\ ~Closes(x, q)) \/ (x.k = "request" /\ x.r = q /\ x.open)
      BY <1>5, <1>6, <2>2 DEF Closes
    <3>q. QED BY <3>1, <3>2, <3>3
  <2>3. ASSUME NEW j \in 1 .. m, queue'[j].k = "request"
        PROVE  \/ WaitsIn(asker, orphans, queue'[j].r) \/ 0 \in lost
               \/ \E i \in DOMAIN queue' : i >= j /\ Closes(queue'[i], queue'[j].r)
    <3>1. queue'[j] = queue[j + 1] /\ j + 1 \in DOMAIN queue BY <1>2
    <3>2. CASE \E i \in DOMAIN queue : i >= j + 1 /\ Closes(queue[i], queue[j + 1].r)
      <4>1. PICK i \in DOMAIN queue : i >= j + 1 /\ Closes(queue[i], queue[j + 1].r) BY <3>2
      <4>2. i \in 1 .. m + 1 BY <1>2
      <4>3. i # 1 /\ i - 1 >= j BY <1>2, <4>1, <4>2
      <4>4. i - 1 \in DOMAIN queue' /\ queue'[i - 1] = queue[i] BY <1>3, <4>3
      <4>q. QED BY <3>1, <4>1, <4>3, <4>4
    <3>q. QED BY <2>3, <3>1, <3>2 DEF TellInv, ClosesFit
  <2>q. QED BY <1>2, <1>4, <2>2, <2>3 DEF ClosesFit, Closes, WaitsIn
<1>q. QED BY <1>10, <1>11, <1>12, <1>13, <1>14 DEF TellInv

(* An item taken when nothing can be sent any more: what it would have     *)
(* told is lost, or orphaned.                                              *)
LEMMA TellTooLate ==
  ASSUME TellInv, DecideTooLate, UNCHANGED asker
  PROVE  TellInv'
<1> DEFINE x == Head(queue)
<1>t. queue \in Seq(Item) /\ queue # <<>> /\ queue' = Tail(queue) /\ appends \in Nat
  BY DEF TellInv, TellTypes, DecideTooLate
<1>1. /\ queue' \in Seq(Item) /\ Len(queue) \in Nat \ {0} /\ Len(queue') = Len(queue) - 1
      /\ \A i \in 1 .. Len(queue') : queue'[i] = queue[i + 1]
      /\ DOMAIN queue' = 1 .. Len(queue') /\ DOMAIN queue = 1 .. Len(queue)
      /\ x = queue[1] /\ x \in Item
  BY <1>t, QueueShrinks
<1> DEFINE m == Len(queue')
<1>2. /\ m \in Nat /\ DOMAIN queue' = 1 .. m /\ DOMAIN queue = 1 .. m + 1
      /\ \A i \in 1 .. m : queue'[i] = queue[i + 1] /\ i + 1 \in DOMAIN queue
      /\ 1 \in DOMAIN queue
  BY <1>1
<1> HIDE DEF m, x
<1>3. \A i \in DOMAIN queue : i = 1 \/ (i - 1 \in DOMAIN queue' /\ queue'[i - 1] = queue[i])
  <2> TAKE i \in DOMAIN queue
  <2>1. i \in 1 .. m + 1 BY <1>2
  <2>2. i = 1 \/ (i - 1 \in 1 .. m /\ (i - 1) + 1 = i) BY <1>2, <2>1
  <2>q. QED BY <1>2, <2>2
<1>4. UNCHANGED <<turnStart, sState, began, clock, appends, owed, heard, shownAsk>> BY DEF DecideTooLate
<1>5. /\ lost' = IF x.k = "request" THEN lost ELSE lost \cup {x.n}
      /\ orphans' = IF x.k = "request" THEN orphans \cup {x.r} ELSE orphans
  BY DEF DecideTooLate, x
<1>6. TellTypes' BY <1>1, <1>4 DEF TellInv, TellTypes
<1>7. StartsFit' BY <1>2, <1>4 DEF TellInv, StartsFit
<1>8. DueFits'
  <2>1. ASSUME NEW i \in 1 .. m, queue'[i].k # "request", queue'[i].n \in owed
        PROVE  /\ IsDue(queue'[i], turnStart')
               /\ IsIdle(queue'[i]) =>
                    \A j \in 1 .. m :
                      j < i /\ Begins(queue'[j], queue'[i].s) => queue'[j].at + DoneAfter <= queue'[i].at
    <3> DEFINE y == queue[i + 1]
    <3>1. queue'[i] = y /\ i + 1 \in DOMAIN queue BY <1>2
    <3>2. /\ IsDue(y, turnStart)
          /\ IsIdle(y) => \A j \in DOMAIN queue : j < i + 1 /\ Begins(queue[j], y.s) => queue[j].at + DoneAfter <= y.at
      BY <2>1, <3>1 DEF TellInv, DueFits
    <3> HIDE DEF y
    <3>3. IsDue(y, turnStart') BY <1>4, <3>2 DEF IsDue
    <3>4. ASSUME IsIdle(y), NEW j \in 1 .. m, j < i, Begins(queue'[j], y.s)
          PROVE  queue'[j].at + DoneAfter <= y.at
      <4>1. queue'[j] = queue[j + 1] /\ j + 1 \in DOMAIN queue BY <1>2
      <4>2. j + 1 < i + 1 BY <1>2, <3>4
      <4>q. QED BY <3>2, <3>4, <4>1, <4>2
    <3>q. QED BY <3>1, <3>3, <3>4
  <2>q. QED BY <1>2, <1>4, <2>1 DEF DueFits, IsDue, IsIdle, Begins
<1>9. EndsFit'
  <2>1. ASSUME NEW n \in owed, n \notin lost, n \notin heard
        PROVE  n \in lost' \/ \E i \in DOMAIN queue' : queue'[i].k # "request" /\ queue'[i].n = n
    <3>1. PICK i \in DOMAIN queue : queue[i].k # "request" /\ queue[i].n = n
      BY <2>1 DEF TellInv, EndsFit
    <3>2. CASE i = 1 BY <1>1, <1>5, <3>1, <3>2
    <3>3. CASE i # 1 BY <1>3, <3>1, <3>3
    <3>q. QED BY <3>2, <3>3
  <2>2. lost \subseteq lost' BY <1>5
  <2>q. QED BY <1>4, <2>1, <2>2 DEF EndsFit
<1>10. ClosesFit'
  <2>1. orphans \subseteq orphans' /\ (0 \in lost => 0 \in lost') BY <1>5
  <2>2. ASSUME NEW q, q \notin orphans', NEW i \in DOMAIN queue, Closes(queue[i], q) PROVE i # 1
    <3> SUFFICES ASSUME i = 1 PROVE FALSE OBVIOUS
    <3>1. x.k = "request" /\ x.r = q BY <1>1, <2>2 DEF Closes
    <3>q. QED BY <1>5, <2>2, <3>1
  <2>3. ASSUME NEW q \in shownAsk
        PROVE  WaitsIn(asker, orphans', q) \/ 0 \in lost' \/ \E i \in DOMAIN queue' : Closes(queue'[i], q)
    <3>1. CASE q \in orphans' BY <3>1 DEF WaitsIn
    <3>2. CASE q \notin orphans' /\ \E i \in DOMAIN queue : Closes(queue[i], q)
      BY <1>3, <2>2, <3>2
    <3>q. QED BY <2>1, <2>3, <3>1, <3>2 DEF TellInv, ClosesFit, WaitsIn
  <2>4. ASSUME NEW j \in 1 .. m, queue'[j].k = "request"
        PROVE  \/ WaitsIn(asker, orphans', queue'[j].r) \/ 0 \in lost'
               \/ \E i \in DOMAIN queue' : i >= j /\ Closes(queue'[i], queue'[j].r)
    <3>1. queue'[j] = queue[j + 1] /\ j + 1 \in DOMAIN queue BY <1>2
    <3>2. CASE \E i \in DOMAIN queue : i >= j + 1 /\ Closes(queue[i], queue[j + 1].r)
      <4>1. PICK i \in DOMAIN queue : i >= j + 1 /\ Closes(queue[i], queue[j + 1].r) BY <3>2
      <4>2. i \in 1 .. m + 1 BY <1>2
      <4>3. i # 1 /\ i - 1 >= j BY <1>2, <4>1, <4>2
      <4>4. i - 1 \in DOMAIN queue' /\ queue'[i - 1] = queue[i] BY <1>3, <4>3
      <4>q. QED BY <3>1, <4>1, <4>3, <4>4
    <3>q. QED BY <2>1, <2>4, <3>1, <3>2 DEF TellInv, ClosesFit, WaitsIn
  <2>q. QED BY <1>2, <1>4, <2>3, <2>4 DEF ClosesFit, Closes, WaitsIn
<1>q. QED BY <1>6, <1>7, <1>8, <1>9, <1>10 DEF TellInv

LEMMA TellRestart ==
  ASSUME TellInv, NotifierRestart
  PROVE  TellInv'
<1>1. queue' = <<>> /\ queue' \in Seq(Item) /\ DOMAIN queue' = {} BY DEF NotifierRestart
<1>2. UNCHANGED <<sState, began, clock, appends, owed, heard, shownAsk>> BY DEF NotifierRestart
<1>3. turnStart' = [s \in Sessions |-> 0] BY DEF NotifierRestart, Unseen
<1>5. TellTypes' BY <1>1, <1>2, <1>3 DEF TellInv, TellTypes
<1>6. StartsFit'
  <2>1. \A s \in Sessions : began[s] \in Nat /\ began[s] <= clock BY DEF TellInv, TellTypes, StartsFit
  <2>q. QED BY <1>1, <1>2, <1>3, <2>1 DEF StartsFit
<1>7. EndsFit'
  <2>1. ASSUME NEW i \in DOMAIN queue, queue[i].k # "request" PROVE queue[i].n \in lost'
    BY <2>1 DEF NotifierRestart
  <2>2. lost \subseteq lost' BY DEF NotifierRestart
  <2>q. QED BY <1>2, <2>1, <2>2 DEF TellInv, EndsFit
<1>8. ClosesFit'
  <2>1. shownAsk' \subseteq orphans' BY DEF NotifierRestart
  <2>q. QED BY <1>1, <2>1 DEF ClosesFit, WaitsIn
<1>q. QED BY <1>1, <1>5, <1>6, <1>7, <1>8 DEF TellInv, DueFits

LEMMA TellStep ==
  ASSUME TellInv, Plain, [RequestsNext]_<<notifierVars, requestVars>>
  PROVE  TellInv'
<1> DEFINE quiet == UNCHANGED <<queue, turnStart, sState, began, clock, appends, owed, lost, heard, shownAsk,
                   orphans>>
<1>1. ASSUME NEW q \in Questions,
             \/ Ask(q) \/ TakeAnswer(q) \/ GiveUp(q) \/ MarkTimedOut(q) \/ Forget(q)
      PROVE  TellInv'
  <2>1. quiet BY <1>1 DEF Ask, TakeAnswer, GiveUp, MarkTimedOut, Forget, notifierVars, daemonVars
  <2>o. orphans' = orphans BY <2>1
  <2>2. ASSUME NEW p \in Questions, WaitsIn(asker, orphans, p) PROVE WaitsIn(asker', orphans', p)
    <3>1. CASE Ask(q) BY <2>o, <2>2, <3>1 DEF Ask, Plain, WaitsIn
    <3>2. CASE TakeAnswer(q) BY <2>o, <2>2, <3>2 DEF TakeAnswer, Plain, WaitsIn
    <3>3. CASE GiveUp(q) BY <2>o, <2>2, <3>3 DEF GiveUp, Plain, WaitsIn
    <3>4. CASE MarkTimedOut(q) BY <2>o, <2>2, <3>4 DEF MarkTimedOut, Plain, WaitsIn
    <3>5. CASE Forget(q) BY <2>o, <2>2, <3>5 DEF Forget, Plain, WaitsIn
    <3>q. QED BY <1>1, <3>1, <3>2, <3>3, <3>4, <3>5
  <2>q. QED BY <2>1, <2>2, TellQuiet
<1>2. ASSUME NEW q \in Questions, Opened(q) PROVE TellInv'
  <2> DEFINE x == [k |-> "request", r |-> q, open |-> TRUE, n |-> 0]
  <2>1. x \in RequestItem /\ x.r = q BY DEF RequestItem
  <2>2. Offer(x, 0) BY <1>2 DEF Opened
  <2> HIDE DEF x
  <2>3. UNCHANGED <<turnStart, sState, began, clock, appends, owed, heard, shownAsk, orphans>>
    BY <1>2 DEF Opened, daemonVars
  <2>4. WaitsIn(asker', orphans', q) /\ \A p \in Questions : WaitsIn(asker, orphans, p) => WaitsIn(asker', orphans', p)
    BY <1>2, <2>3 DEF Opened, Plain, WaitsIn
  <2>q. QED BY <2>1, <2>2, <2>3, <2>4, TellRequest
<1>3. ASSUME NEW q \in Questions, Closed(q) PROVE TellInv'
  <2> DEFINE x == [k |-> "request", r |-> q, open |-> FALSE, n |-> 0]
  <2>1. x \in RequestItem /\ x.r = q /\ x.k = "request" /\ ~x.open BY DEF RequestItem
  <2>2. Offer(x, 0) BY <1>3 DEF Closed
  <2> HIDE DEF x
  <2>3. UNCHANGED <<turnStart, sState, began, clock, appends, owed, heard, shownAsk, orphans>>
    BY <1>3 DEF Closed, daemonVars
  <2>4. \A p \in Questions : WaitsIn(asker, orphans, p) => WaitsIn(asker', orphans', p) \/ p = q
    BY <1>3, <2>3 DEF Closed, Plain, WaitsIn
  <2>q. QED BY <2>1, <2>2, <2>3, <2>4, TellRequest DEF Closes
<1>4. ASSUME NEW c \in Clients, Subscribe(c) \/ Leave(c) PROVE TellInv'
  <2>1. quiet /\ asker' = asker BY <1>4 DEF Subscribe, Leave, notifierVars, daemonVars
  <2>q. QED BY <2>1, TellQuiet DEF WaitsIn
<1>5. ASSUME NEW c \in Clients, NEW q \in Questions, Answer(c, q) \/ SendAnswer(c, q) PROVE TellInv'
  <2>1. quiet /\ asker' = asker BY <1>5 DEF Answer, SendAnswer, notifierVars, daemonVars
  <2>q. QED BY <2>1, TellQuiet DEF WaitsIn
<1>6. CASE RequestsRestart BY <1>6, TellRestart DEF RequestsRestart
<1>7. CASE SessionEvents /\ UNCHANGED requestVars
  <2>1. asker' = asker BY <1>7 DEF requestVars
  <2>2. CASE Tick BY <2>1, <2>2, TellTick
  <2>3. ASSUME NEW s \in Sessions, Begin(s) \/ Finish(s) \/ RecoverInterrupted(s) PROVE TellInv'
    BY <2>1, <2>3, BeginOrFinish, TellStateChange
  <2>4. ASSUME NEW s \in Sessions, Relabel(s) PROVE TellInv' BY <2>1, <2>4, TellRelabel
  <2>5. ASSUME NEW t \in Tokens, Register(t) \/ Unregister(t) PROVE TellInv'
    <3>1. quiet BY <2>5 DEF Register, Unregister, daemonVars
    <3>q. QED BY <2>1, <3>1, TellQuiet DEF WaitsIn
  <2>6. CASE Decide BY <2>1, <2>6, TellDecide
  <2>7. CASE DecideTooLate BY <2>1, <2>7, TellTooLate
  <2>8. CASE StopNotify \/ Serve
    <3>1. quiet BY <2>8 DEF StopNotify, Serve
    <3>q. QED BY <2>1, <3>1, TellQuiet DEF WaitsIn
  <2>q. QED BY <1>7, <2>2, <2>3, <2>4, <2>5, <2>6, <2>7, <2>8 DEF SessionEvents
<1>8. CASE UNCHANGED <<notifierVars, requestVars>>
  <2>1. quiet /\ asker' = asker BY <1>8 DEF notifierVars, daemonVars, requestVars
  <2>q. QED BY <2>1, TellQuiet DEF WaitsIn
<1>q. QED BY <1>1, <1>2, <1>3, <1>4, <1>5, <1>6, <1>7, <1>8 DEF RequestsNext

(* The phones are told of every end that is worth it, and of the end of    *)
(* every request they show, but for what a full queue dropped or a daemon  *)
(* that went took along: the notifier (daemon/notify) loses nothing by     *)
(* deciding late, out of a queue, about turns whose start it may have      *)
(* missed, and hears the pauses with which a restart begins.               *)
THEOREM PhonesTold == RequestsSpec => []PhonesAreTold
<1>1. NotifierInit => TellInv BY TellInit
<1>2. ReqInv => Plain BY TypeIs DEF ReqInv
<1>3. TellInv /\ Plain /\ [RequestsNext]_<<notifierVars, requestVars>> => TellInv' BY TellStep
<1>4. RequestsSpec => []TellInv BY <1>1, <1>2, <1>3, ReqInvAlways, PTL DEF RequestsSpec
<1>q. QED BY <1>4, TellEnough, PTL

-----------------------------------------------------------------------------
(* The start of the daemon.  The pid file is the lock: a daemon is named   *)
(* in it from its claim until it removes it, if no other has written over  *)
(* it or removed it meanwhile.  So one at most is between the two, and the *)
(* port file is the writer's.                                              *)
Claimed == {"bind", "port", "recover", "serve", "drain", "close", "unpid"}
Ported == {"recover", "serve", "drain", "close", "unpid", "unport"}

(* A daemon that a file names has not left by itself.                      *)
NamedIsHere(named, where) ==
  named # 0 => proc[named] \in where \/ (kills # 0 /\ proc[named] = "gone")

StartInv ==
  /\ StartTypeOK
  /\ NamedIsHere(pidFile, Claimed)
  /\ NamedIsHere(portFile, Ported)
  /\ ~robbed => \A d \in Daemons : /\ proc[d] \in Claimed => pidFile = d
                                   /\ proc[d] \in {"recover", "serve"} => portFile = d

LEMMA StartInvInit == StartInit => StartInv
<1> SUFFICES ASSUME StartInit PROVE StartInv OBVIOUS
<1>1. {pidFile, portFile, port} \subseteq 0 .. MaxDaemons BY StartAssumption DEF StartInit
<1>2. kills \in 0 .. MaxKills /\ stops \in 0 .. MaxStops BY StartAssumption DEF StartInit
<1>3. StartTypeOK BY <1>1, <1>2 DEF StartInit, StartTypeOK
<1>q. QED BY <1>3 DEF StartInit, StartInv, NamedIsHere, Claimed

LEMMA StartTypeStep == StartTypeOK /\ [StartNext]_startVars => StartTypeOK'
<1> SUFFICES ASSUME StartTypeOK, [StartNext]_startVars PROVE StartTypeOK' OBVIOUS
<1> USE StartAssumption DEF StartTypeOK, Files, Goes, Command, Daemons, Starting, Stopping
<1>1. ASSUME NEW c \in Commands, EnsureRunning(c) PROVE StartTypeOK' BY <1>1 DEF EnsureRunning
<1>2. ASSUME NEW c \in Commands, WaitForDaemon(c) PROVE StartTypeOK' BY <1>2 DEF WaitForDaemon
<1>3. ASSUME NEW c \in Commands, Dial(c) PROVE StartTypeOK' BY <1>3 DEF Dial
<1>4. ASSUME NEW c \in Commands, DaemonStop(c) PROVE StartTypeOK' BY <1>4 DEF DaemonStop
<1>5. ASSUME NEW d \in Daemons, ReadPID(d) PROVE StartTypeOK' BY <1>5 DEF ReadPID
<1>6. ASSUME NEW d \in Daemons, ClaimPID(d) PROVE StartTypeOK' BY <1>6 DEF ClaimPID, DaemonAlive
<1>7. ASSUME NEW d \in Daemons, Bind(d) PROVE StartTypeOK' BY <1>7 DEF Bind
<1>8. ASSUME NEW d \in Daemons, WritePort(d) PROVE StartTypeOK' BY <1>8 DEF WritePort
<1>9. ASSUME NEW d \in Daemons, Recover(d) \/ Drain(d) \/ CloseStore(d) PROVE StartTypeOK'
  BY <1>9 DEF Recover, Drain, CloseStore
<1>10. ASSUME NEW d \in Daemons, ReleasePID(d) PROVE StartTypeOK' BY <1>10 DEF ReleasePID, DaemonAlive
<1>11. ASSUME NEW d \in Daemons, ReleasePort(d) PROVE StartTypeOK' BY <1>11 DEF ReleasePort, DaemonAlive
<1>12. ASSUME NEW d \in Daemons, Killed(d) PROVE StartTypeOK' BY <1>12 DEF Killed
<1>13. CASE UNCHANGED startVars BY <1>13 DEF startVars
<1>q. QED
  BY <1>1, <1>2, <1>3, <1>4, <1>5, <1>6, <1>7, <1>8, <1>9, <1>10, <1>11, <1>12, <1>13 DEF StartNext

LEMMA StartInvStep == StartInv /\ [StartNext]_startVars => StartInv'
<1> SUFFICES ASSUME StartInv, [StartNext]_startVars PROVE StartInv' OBVIOUS
<1>t. StartTypeOK' BY StartTypeStep DEF StartInv
<1> USE <1>t, StartAssumption
<1> USE DEF StartInv, StartTypeOK, NamedIsHere, Claimed, Ported, Files, Goes, Command, Daemons, DaemonAlive
<1>1. ASSUME NEW c \in Commands, EnsureRunning(c) PROVE StartInv' BY <1>1, SMTT(30) DEF EnsureRunning
<1>2. ASSUME NEW c \in Commands, WaitForDaemon(c) \/ Dial(c) PROVE StartInv' BY <1>2, SMTT(30) DEF WaitForDaemon, Dial
<1>4. ASSUME NEW c \in Commands, DaemonStop(c) PROVE StartInv' BY <1>4, SMTT(30) DEF DaemonStop
<1>5. ASSUME NEW d \in Daemons, ReadPID(d) PROVE StartInv' BY <1>5, SMTT(30) DEF ReadPID
<1>6. ASSUME NEW d \in Daemons, ClaimPID(d) PROVE StartInv'
  <2>1. NamedIsHere(pidFile, Claimed)' /\ NamedIsHere(portFile, Ported)' BY <1>6 DEF ClaimPID
  <2>2. ASSUME ~robbed', NEW e \in Daemons
        PROVE  /\ proc'[e] \in Claimed => pidFile' = e
               /\ proc'[e] \in {"recover", "serve"} => portFile' = e
    <3>1. ~robbed /\ ~DaemonAlive(pidFile) /\ proc' = [proc EXCEPT ![d] = "bind"] /\ pidFile' = d
      BY <1>6, <2>2 DEF ClaimPID
    <3>2. CASE e = d BY <3>1, <3>2
    <3>3. CASE e # d
      <4>1. proc'[e] = proc[e] BY <3>1, <3>3
      <4>2. proc[e] \notin Claimed BY <3>1
      <4>q. QED BY <4>1, <4>2
    <3>q. QED BY <3>2, <3>3
  <2>q. QED BY <2>1, <2>2
<1>7. ASSUME NEW d \in Daemons, Bind(d) PROVE StartInv' BY <1>7, SMTT(30) DEF Bind
<1>8. ASSUME NEW d \in Daemons, WritePort(d) PROVE StartInv' BY <1>8, SMTT(30) DEF WritePort
<1>9. ASSUME NEW d \in Daemons, Recover(d) \/ Drain(d) \/ CloseStore(d) PROVE StartInv'
  <2>1. CASE Recover(d) BY <2>1, SMTT(30) DEF Recover
  <2>2. CASE Drain(d) BY <2>2, SMTT(30) DEF Drain
  <2>3. CASE CloseStore(d) BY <2>3, SMTT(30) DEF CloseStore
  <2>q. QED BY <1>9, <2>1, <2>2, <2>3
<1>10. ASSUME NEW d \in Daemons, ReleasePID(d) PROVE StartInv' BY <1>10, SMTT(30) DEF ReleasePID
<1>11. ASSUME NEW d \in Daemons, ReleasePort(d) PROVE StartInv'
  <2>1. NamedIsHere(pidFile, Claimed)' /\ NamedIsHere(portFile, Ported)' BY <1>11 DEF ReleasePort
  <2>2. ASSUME ~robbed', NEW e \in Daemons
        PROVE  /\ proc'[e] \in Claimed => pidFile' = e
               /\ proc'[e] \in {"recover", "serve"} => portFile' = e
    BY <1>11, <2>2 DEF ReleasePort
  <2>q. QED BY <2>1, <2>2
<1>12. ASSUME NEW d \in Daemons, Killed(d) PROVE StartInv' BY <1>12, SMTT(30) DEF Killed
<1>13. CASE UNCHANGED startVars BY <1>13 DEF startVars
<1>q. QED
  BY <1>1, <1>2, <1>4, <1>5, <1>6, <1>7, <1>8, <1>9, <1>10, <1>11, <1>12, <1>13 DEF StartNext

LEMMA StartInvAlways == StartSpec => []StartInv
BY StartInvInit, StartInvStep, PTL DEF StartSpec

LEMMA OneHolds == StartInv => OneDaemonWrites
<1> SUFFICES ASSUME StartInv, ~robbed PROVE OneDaemonWrites BY DEF OneDaemonWrites
<1>1. Writing \subseteq {pidFile} BY DEF StartInv, Writing, Claimed
<1>2. IsFiniteSet({pidFile}) /\ Cardinality({pidFile}) = 1 BY FS_Singleton
<1>3. /\ Cardinality(Writing) \in Nat /\ Cardinality(Writing) <= Cardinality({pidFile})
  BY <1>1, <1>2, FS_Subset, FS_CardinalityType
<1>4. Cardinality(Writing) <= 1 BY <1>2, <1>3
<1>5. ASSUME NEW d \in Daemons, proc[d] = "serve" PROVE pidFile = d /\ portFile = d
  BY <1>5 DEF StartInv, Claimed
<1>6. ASSUME kills = 0, NEW d \in Daemons, proc[d] = "gone" PROVE d # pidFile /\ d # portFile
  BY <1>6 DEF StartInv, NamedIsHere, Claimed, Ported, Daemons
<1>q. QED BY <1>4, <1>5, <1>6 DEF OneDaemonWrites

(* Every part of the state has its type (daemon.go, commands.go).          *)
THEOREM StartTypeCorrect == StartSpec => []StartTypeOK
BY StartInvAlways, PTL DEF StartInv

(* One daemon writes the root's sessions, and the files go back to how     *)
(* they were: the claim of the pid file (daemon.go, Start) is enough of a  *)
(* lock, as long as no two daemons read it before either writes it.        *)
THEOREM OneDaemonWritesAlways == StartSpec => []OneDaemonWrites
BY StartInvAlways, OneHolds, PTL

-----------------------------------------------------------------------------
(* The memories. *)
Facts == 1..MaxFacts
Stores == {"global", "ws"}
Bodies == [Names -> SUBSET Facts]
MergeLists == {<<>>} \cup {<<m>> : m \in MergePlans}
PassType ==
  [at : {"off", "asking", "looking", "planning", "merging", "progress"}, ends : BOOLEAN, last : Nat, own : Bodies,
   merges : MergeLists, absorbing : SUBSET Names, forgets : SUBSET Names, room : Int]
ToldType == [log : Nat, cursor : Nat]
FactsType == [learned : 0..MaxFacts, retired : SUBSET Facts]
FaultsType == [overlap : BOOLEAN, wrongStore : BOOLEAN, emptied : BOOLEAN, deaths : Nat, passes : Nat]

MemoryTypes ==
  /\ memories \in [Stores -> Bodies] /\ curator \in [Users -> PassType] /\ told \in [Users -> ToldType]
  /\ facts \in FactsType /\ faults \in FaultsType /\ progress \in {"none", "open", "stray"}

(* Nothing the module leaves unguarded has happened.                       *)
Undisturbed == ~faults.overlap /\ ~faults.wrongStore

(* Nothing learned is missing but what was given up, nor is all of it.     *)
AllThere == 1..facts.learned \subseteq Held \cup facts.retired /\ ~faults.emptied

(* A pass knows the owner's directory as it is; what it has yet to absorb  *)
(* is in the survivor; and some memory stays out of all it gives up.       *)
Absorbed(c) ==
  /\ c.at # "merging" => c.absorbing = {}
  /\ c.merges # <<>> => c.absorbing = {}
  /\ c.absorbing # {} => \E i \in Names \ c.absorbing : \A n \in c.absorbing : c.own[n] \subseteq c.own[i]
Survivor(c) ==
  c.at = "merging" =>
    \E x \in Existing(c.own) :
      x \notin c.forgets /\ x \notin c.absorbing /\ \A i \in DOMAIN c.merges : x \notin c.merges[i].absorb
PassFits(c) == Absorbed(c) /\ Survivor(c)
Knows(s) == Planning(s) => curator[s].own = memories.global

MemoryInv ==
  /\ MemoryTypes
  /\ Undisturbed => AllThere /\ \A s \in Users : Knows(s)
  /\ \A s \in Users : PassFits(curator[s])
  /\ progress # "stray"

-----------------------------------------------------------------------------
LEMMA NumbersAre ==
  /\ Named \in Nat /\ MaxMerges \in Nat /\ MaxFacts \in Nat /\ IndexCap \in Nat
  /\ IndexCap <= Named /\ IndexCap <= MaxFacts
BY MemoryAssumption

LEMMA HeldIs == ASSUME NEW x PROVE x \in Held <=> \E sc \in Stores, n \in Names : x \in memories[sc][n]
BY DEF Held, Stores

LEMMA StoreIs ==
  ASSUME memories \in [Stores -> Bodies], NEW n \in Names, NEW body \in SUBSET Facts, NEW sc \in Stores
  PROVE  Store(n, body, sc) = [memories EXCEPT ![sc] = [memories[sc] EXCEPT ![n] = body]]
         /\ [memories[sc] EXCEPT ![n] = body] \in Bodies
BY DEF Bodies, Store

(* What the directories say after a write.                                 *)
Written(st, n, body, sc) ==
  /\ st \in [Stores -> Bodies]
  /\ st[sc][n] = body
  /\ \A s \in Stores, m \in Names : s # sc \/ m # n => st[s][m] = memories[s][m]
  /\ sc = "global" => st.global = [memories.global EXCEPT ![n] = body]
  /\ sc = "ws" => st.global = memories.global

LEMMA StoreHas ==
  ASSUME memories \in [Stores -> Bodies], NEW n \in Names, NEW body \in SUBSET Facts, NEW sc \in Stores,
         NEW st, st = Store(n, body, sc)
  PROVE  Written(st, n, body, sc)
<1> DEFINE b == [memories[sc] EXCEPT ![n] = body]
<1>1. memories[sc] \in Bodies OBVIOUS
<1>2. b \in Bodies /\ b[n] = body /\ \A m \in Names : m # n => b[m] = memories[sc][m] BY <1>1 DEF Bodies
<1>3. st = [memories EXCEPT ![sc] = b] BY StoreIs
<1>4. sc = "global" => b = [memories.global EXCEPT ![n] = body] OBVIOUS
<1>5. "global" \in Stores BY DEF Stores
<1> HIDE DEF b
<1>q. QED BY <1>2, <1>3, <1>4, <1>5 DEF Written

LEMMA ForgottenIs ==
  ASSUME MemoryTypes, NEW n \in Names, NEW st, st = Forgotten(n)
  PROVE  /\ ForgottenIn(n) \in Stores /\ memories[ForgottenIn(n)][n] \in SUBSET Facts
         /\ Written(st, n, {}, ForgottenIn(n))
<1>1. ForgottenIn(n) \in Stores BY DEF ForgottenIn, Stores
<1>2. memories \in [Stores -> Bodies] /\ {} \in SUBSET Facts BY DEF MemoryTypes
<1>3. st = Store(n, {}, ForgottenIn(n)) BY DEF Forgotten
<1>4. memories[ForgottenIn(n)][n] \in SUBSET Facts BY <1>1, <1>2 DEF Bodies
<1> DEFINE f == ForgottenIn(n)
<1>5. f \in Stores /\ st = Store(n, {}, f) BY <1>1, <1>3
<1> HIDE DEF f
<1>6. Written(st, n, {}, f) BY <1>2, <1>5, StoreHas
<1>q. QED BY <1>1, <1>4, <1>6 DEF f

LEMMA NoPassIs == NoPass \in PassType /\ NoPass.absorbing = {} /\ NoPass.at = "off" /\ NoPass.merges = <<>>
BY DEF NoPass, PassType, NoMemories, Bodies, MergeLists

LEMMA AfterIs ==
  ASSUME NEW c \in PassType
  PROVE  After(c) \in PassType /\ After(c).at \in {"off", "progress"} /\ PassFits(After(c))
<1>1. After(c) \in PassType BY NoPassIs DEF After, PassType, NoPass
<1>2. After(c).at \in {"off", "progress"} /\ After(c).absorbing = {} /\ After(c).merges = <<>> BY DEF After, NoPass
<1>q. QED BY <1>1, <1>2 DEF PassFits, Absorbed, Survivor

(* A fact is learned. *)
LEMMA LearnIs ==
  ASSUME MemoryTypes, NEW s \in Users, NEW n \in Names, NEW sc \in Stores, Learn(s, n, sc)
  PROVE  /\ memories' \in [Stores -> Bodies] /\ facts' \in FactsType /\ faults' \in FaultsType
         /\ Undisturbed' => Undisturbed /\ ~Stale(s)
         /\ Undisturbed' /\ AllThere => AllThere'
<1>1. facts.learned \in 0..MaxFacts /\ facts.retired \subseteq Facts /\ facts.learned < MaxFacts
  BY DEF MemoryTypes, FactsType, Learn
<1>2. {facts.learned + 1} \in SUBSET Facts BY <1>1, NumbersAre DEF Facts
<1>3. memories' = Store(n, {facts.learned + 1}, sc) BY DEF Learn
<1>4. memories \in [Stores -> Bodies] BY DEF MemoryTypes
<1>5. /\ memories' \in [Stores -> Bodies]
      /\ memories'[sc][n] = {facts.learned + 1}
      /\ \A s2 \in Stores, m \in Names : s2 # sc \/ m # n => memories'[s2][m] = memories[s2][m]
  <2> DEFINE body == {facts.learned + 1}
  <2> HIDE DEF body
  <2>1. body \in SUBSET Facts /\ memories' = Store(n, body, sc) BY <1>2, <1>3 DEF body
  <2>2. Written(memories', n, body, sc) BY <2>1, <1>4, StoreHas
  <2>q. QED BY <2>2 DEF body, Written
<1>6. facts' = [learned |-> facts.learned + 1, retired |-> facts.retired \cup memories[sc][n]] BY DEF Learn
<1>7. memories[sc][n] \subseteq Facts BY <1>4 DEF Bodies
<1>8. facts' \in FactsType BY <1>1, <1>6, <1>7, NumbersAre DEF FactsType
<1>9. faults \in FaultsType /\ faults' = [faults EXCEPT !.overlap = @ \/ Stale(s)] BY DEF Learn, MemoryTypes
<1>10. /\ faults' \in FaultsType /\ faults'.overlap = (faults.overlap \/ Stale(s))
       /\ faults'.wrongStore = faults.wrongStore /\ faults'.emptied = faults.emptied
  BY <1>9 DEF FaultsType
<1>11. ASSUME AllThere PROVE AllThere'
  <2>1. ASSUME NEW x \in 1..facts'.learned PROVE x \in Held' \cup facts'.retired
    <3>1. CASE x = facts.learned + 1
      <4>1. x \in memories'[sc][n] BY <3>1, <1>5
      <4>q. QED BY <4>1 DEF Held, Stores
    <3>2. CASE x # facts.learned + 1
      <4>1. x \in 1..facts.learned BY <2>1, <3>2, <1>1, <1>6
      <4>2. x \in Held \cup facts.retired BY <4>1, <1>11 DEF AllThere
      <4>3. CASE x \in facts.retired BY <4>3, <1>6
      <4>4. CASE x \in Held
        <5>1. PICK s2 \in Stores, m \in Names : x \in memories[s2][m] BY <4>4, HeldIs
        <5>2. CASE s2 = sc /\ m = n BY <5>1, <5>2, <1>6
        <5>3. CASE ~(s2 = sc /\ m = n)
          <6>1. x \in memories'[s2][m] BY <5>1, <5>3, <1>5
          <6>q. QED BY <6>1 DEF Held, Stores
        <5>q. QED BY <5>2, <5>3
      <4>q. QED BY <4>2, <4>3, <4>4
    <3>q. QED BY <3>1, <3>2
  <2>q. QED BY <2>1, <1>10, <1>11 DEF AllThere
<1>q. QED BY <1>5, <1>8, <1>10, <1>11 DEF Undisturbed

(* The call of a forget in a pass. *)
LEMMA ForgetIs ==
  ASSUME MemoryTypes, NEW s \in Users, NEW n \in Names, ForgetIfPresent(s, n)
  PROVE  /\ memories' \in [Stores -> Bodies] /\ faults' \in FaultsType
         /\ Undisturbed' => Undisturbed
         /\ memories' # memories => memories' = Forgotten(n)
         /\ memories' # memories /\ Undisturbed' => ~Stale(s) /\ ForgottenIn(n) = "global"
         /\ faults'.emptied => faults.emptied \/ (memories' # memories /\ Existing(memories.global) # {}
                                                 /\ Existing(memories'.global) = {})
<1>1. faults \in FaultsType /\ memories \in [Stores -> Bodies] BY DEF MemoryTypes
<1>2. CASE UNCHANGED <<memories, faults>> BY <1>1, <1>2 DEF Undisturbed
<1>3. CASE /\ memories' = Forgotten(n)
           /\ faults' = [faults EXCEPT
                !.overlap = @ \/ Stale(s), !.wrongStore = @ \/ ForgottenIn(n) = "ws",
                !.emptied = @ \/ (Existing(memories.global) # {} /\ Existing(memories'.global) = {})]
  <2>1. /\ faults' \in FaultsType /\ faults'.overlap = (faults.overlap \/ Stale(s))
        /\ faults'.wrongStore = (faults.wrongStore \/ ForgottenIn(n) = "ws")
        /\ faults'.emptied = (faults.emptied \/ (Existing(memories.global) # {} /\ Existing(memories'.global) = {}))
    BY <1>1, <1>3 DEF FaultsType
  <2>2. ForgottenIn(n) \in {"global", "ws"} /\ memories' \in [Stores -> Bodies] BY <1>3, ForgottenIs DEF Stores, Written
  <2>3. Existing(memories.global) # {} /\ Existing(memories'.global) = {} => memories' # memories OBVIOUS
  <2>q. QED BY <2>1, <2>2, <2>3, <1>3 DEF Undisturbed
<1>q. QED BY <1>2, <1>3 DEF ForgetIfPresent

(* What goes is still elsewhere, or was given up: nothing is missing.      *)
LEMMA ForgetKeeps ==
  ASSUME MemoryTypes, AllThere, NEW n \in Names, memories' = Forgotten(n),
         facts'.learned = facts.learned, facts.retired \subseteq facts'.retired, ~faults'.emptied,
         memories[ForgottenIn(n)][n] \subseteq Held' \cup facts'.retired
  PROVE  AllThere'
<1>1. /\ \A s \in Stores, m \in Names : s # ForgottenIn(n) \/ m # n => memories'[s][m] = memories[s][m]
      /\ ForgottenIn(n) \in Stores
  <2>1. Written(memories', n, {}, ForgottenIn(n)) /\ ForgottenIn(n) \in Stores BY ForgottenIs
  <2>q. QED BY <2>1 DEF Written
<1>2. ASSUME NEW x \in 1..facts'.learned PROVE x \in Held' \cup facts'.retired
  <2>1. x \in Held \cup facts.retired BY <1>2 DEF AllThere
  <2>2. CASE x \in facts.retired BY <2>2
  <2>3. CASE x \in Held
    <3>1. PICK sc \in Stores, m \in Names : x \in memories[sc][m] BY <2>3, HeldIs
    <3>2. CASE sc = ForgottenIn(n) /\ m = n BY <3>1, <3>2
    <3>3. CASE sc # ForgottenIn(n) \/ m # n
      <4>1. x \in memories'[sc][m] BY <1>1, <3>1, <3>3
      <4>q. QED BY <4>1 DEF Held, Stores
    <3>q. QED BY <3>2, <3>3
  <2>q. QED BY <2>1, <2>2, <2>3
<1>q. QED BY <1>2 DEF AllThere

(* Nothing is written.                                                     *)
LEMMA NothingWritten ==
  ASSUME memories' = memories, facts' = facts,
         faults'.overlap = faults.overlap, faults'.wrongStore = faults.wrongStore, faults'.emptied = faults.emptied
  PROVE  Undisturbed' = Undisturbed /\ AllThere' = AllThere
BY DEF Undisturbed, AllThere, Held

(* One session's pass changes.                                             *)
LEMMA PassMoves ==
  ASSUME curator \in [Users -> PassType], \A t \in Users : PassFits(curator[t]), NEW s \in Users, NEW c \in PassType,
         PassFits(c), curator' = [curator EXCEPT ![s] = c]
  PROVE  /\ curator' \in [Users -> PassType] /\ curator'[s] = c
         /\ \A t \in Users : PassFits(curator'[t])
         /\ \A t \in Users : t # s => curator'[t] = curator[t]
OBVIOUS

(* Whoever does not write keeps what each pass knows.                      *)
LEMMA StillKnows ==
  ASSUME MemoryInv, NEW s \in Users, curator' \in [Users -> PassType], memories' = memories, facts' = facts,
         faults'.overlap = faults.overlap, faults'.wrongStore = faults.wrongStore, faults'.emptied = faults.emptied,
         \A t \in Users : t # s => curator'[t] = curator[t],
         curator'[s].at \in {"planning", "merging"} =>
           curator'[s].own = memories.global \/ (curator'[s].own = curator[s].own /\ Planning(s))
  PROVE  Undisturbed' => AllThere' /\ \A t \in Users : Knows(t)'
<1> SUFFICES ASSUME Undisturbed' PROVE AllThere' /\ \A t \in Users : Knows(t)' OBVIOUS
<1>1. Undisturbed /\ AllThere' /\ \A t \in Users : Knows(t) BY NothingWritten DEF MemoryInv
<1>2. ASSUME NEW t \in Users PROVE Knows(t)'
  <2>1. CASE t = s BY <1>1, <2>1 DEF Knows, Planning
  <2>2. CASE t # s BY <1>1, <2>2 DEF Knows, Planning
  <2>q. QED BY <2>1, <2>2
<1>q. QED BY <1>1, <1>2

(* Whoever writes disturbs a pass under way, so none other is.             *)
LEMMA WriterKnows ==
  ASSUME MemoryInv, NEW s \in Users, ~Stale(s), \A t \in Users : t # s => curator'[t] = curator[t],
         curator'[s].at \in {"planning", "merging"} => curator'[s].own = memories'.global
  PROVE  \A t \in Users : Knows(t)'
<1> TAKE t \in Users
<1>1. CASE t = s BY <1>1 DEF Knows, Planning
<1>2. CASE t # s
  <2>1. ~Planning(t) BY <1>2 DEF Stale
  <2>q. QED BY <2>1, <1>2 DEF Knows, Planning
<1>q. QED BY <1>1, <1>2

-----------------------------------------------------------------------------
LEMMA InvAtInit == MemoryInit => MemoryInv
<1> SUFFICES ASSUME MemoryInit PROVE MemoryInv OBVIOUS
<1> USE DEF MemoryInit
<1>1. memories \in [Stores -> Bodies]
  <2>1. [n \in Names |-> IF n <= IndexCap THEN {n} ELSE {}] \in Bodies
    <3>1. ASSUME NEW n \in Names PROVE (IF n <= IndexCap THEN {n} ELSE {}) \in SUBSET Facts
      BY <3>1, NumbersAre DEF Names, Facts
    <3>q. QED BY <3>1 DEF Bodies
  <2>2. NoMemories \in Bodies BY DEF NoMemories, Bodies
  <2>3. ASSUME NEW g \in Bodies, NEW w \in Bodies PROVE [global |-> g, ws |-> w] \in [Stores -> Bodies]
    BY DEF Stores
  <2>q. QED BY <2>1, <2>2, <2>3
<1>2. curator \in [Users -> PassType] /\ \A s \in Users : PassFits(curator[s]) /\ ~Planning(s)
  BY NoPassIs DEF PassFits, Absorbed, Survivor, Planning
<1>3. told \in [Users -> ToldType] /\ facts \in FactsType /\ faults \in FaultsType
  BY NumbersAre DEF ToldType, FactsType, FaultsType
<1>4. AllThere
  <2>1. ASSUME NEW x \in 1..IndexCap PROVE x \in Held
    <3>1. x \in Names BY <2>1, NumbersAre DEF Names
    <3>2. memories["global"][x] = {x} BY <2>1, <3>1, NumbersAre
    <3>3. "global" \in Stores /\ x \in memories["global"][x] BY <3>2 DEF Stores
    <3>q. QED BY <3>1, <3>3, HeldIs
  <2>q. QED BY <2>1 DEF AllThere
<1>q. QED BY <1>1, <1>2, <1>3, <1>4 DEF MemoryInv, MemoryTypes, Knows

LEMMA InvGivesTypes ==
  ASSUME MemoryInv
  PROVE  /\ MemoryTypes /\ memories \in [Stores -> Bodies] /\ curator \in [Users -> PassType]
         /\ told \in [Users -> ToldType] /\ facts \in FactsType /\ faults \in FaultsType
         /\ progress \in {"none", "open", "stray"} /\ progress # "stray"
         /\ \A s \in Users : PassFits(curator[s])
         /\ Undisturbed => AllThere /\ \A s \in Users : Knows(s)
BY DEF MemoryInv, MemoryTypes

(* What the next state is made of.                                         *)
LEMMA InvFrom ==
  ASSUME memories' \in [Stores -> Bodies], curator' \in [Users -> PassType], told' \in [Users -> ToldType],
         facts' \in FactsType, faults' \in FaultsType, progress' \in {"none", "open"},
         \A s \in Users : PassFits(curator'[s]),
         Undisturbed' => AllThere' /\ \A s \in Users : Knows(s)'
  PROVE  MemoryInv'
<1>1. \A s \in Users : PassFits(curator[s])' OBVIOUS
<1>q. QED BY <1>1 DEF MemoryInv, MemoryTypes

-----------------------------------------------------------------------------
LEMMA HearsKeeps == ASSUME MemoryInv, NEW s \in Users, Hears(s) PROVE MemoryInv'
<1>1. told' \in [Users -> ToldType]
  <2>1. told \in [Users -> ToldType] BY InvGivesTypes
  <2>2. told' = [told EXCEPT ![s].log = told[s].log + 1] BY DEF Hears
  <2>q. QED BY <2>1, <2>2 DEF ToldType
<1>2. UNCHANGED <<memories, progress, curator, facts, faults>> BY DEF Hears
<1>3. Undisturbed' => AllThere' /\ \A t \in Users : Knows(t)'
  BY <1>2, InvGivesTypes DEF Undisturbed, AllThere, Held, Knows, Planning
<1>q. QED BY <1>1, <1>2, <1>3, InvGivesTypes, InvFrom

LEMMA RunSaveKeeps == ASSUME MemoryInv, NEW s \in Users, RunSave(s) PROVE MemoryInv'
<1>1. PICK n \in Names, sc \in Stores : Learn(s, n, sc) BY DEF RunSave, Stores
<1>2. UNCHANGED <<progress, curator, told>> /\ curator[s].at = "off" BY DEF RunSave
<1>3. /\ memories' \in [Stores -> Bodies] /\ facts' \in FactsType /\ faults' \in FaultsType
      /\ Undisturbed' => Undisturbed /\ ~Stale(s)
      /\ Undisturbed' /\ AllThere => AllThere'
  BY <1>1, LearnIs, InvGivesTypes
<1>4. Undisturbed' => \A t \in Users : Knows(t)' BY <1>2, <1>3, WriterKnows
<1>q. QED BY <1>2, <1>3, <1>4, InvGivesTypes, InvFrom

LEMMA RunForgetKeeps == ASSUME MemoryInv, NEW s \in Users, RunForget(s) PROVE MemoryInv'
<1>1. PICK n \in Names :
        /\ facts' = [facts EXCEPT !.retired = @ \cup memories[ForgottenIn(n)][n]]
        /\ memories' = Forgotten(n)
  BY DEF RunForget
<1>2. /\ UNCHANGED <<progress, curator, told>> /\ curator[s].at = "off"
      /\ faults' = [faults EXCEPT !.overlap = @ \/ Stale(s)]
  BY DEF RunForget
<1>3. /\ faults' \in FaultsType /\ faults'.overlap = (faults.overlap \/ Stale(s))
      /\ faults'.wrongStore = faults.wrongStore /\ faults'.emptied = faults.emptied
  BY <1>2, InvGivesTypes DEF FaultsType
<1>4. memories[ForgottenIn(n)][n] \in SUBSET Facts /\ memories' \in [Stores -> Bodies]
  BY <1>1, ForgottenIs, InvGivesTypes DEF Written
<1>5. /\ facts' \in FactsType /\ facts'.learned = facts.learned
      /\ facts'.retired = facts.retired \cup memories[ForgottenIn(n)][n]
  BY <1>1, <1>4, InvGivesTypes DEF FactsType
<1>6. ASSUME Undisturbed' PROVE AllThere' /\ \A t \in Users : Knows(t)'
  <2>1. Undisturbed /\ ~Stale(s) BY <1>3, <1>6 DEF Undisturbed
  <2>2. AllThere BY <2>1, InvGivesTypes
  <2>3. ~faults'.emptied BY <2>2, <1>3 DEF AllThere
  <2>4. AllThere' BY <1>1, <1>5, <2>2, <2>3, ForgetKeeps, InvGivesTypes
  <2>q. QED BY <2>1, <2>4, <1>2, WriterKnows
<1>q. QED BY <1>2, <1>3, <1>4, <1>5, <1>6, InvGivesTypes, InvFrom

LEMMA CurateKeeps == ASSUME MemoryInv, NEW s \in Users, Curate(s) PROVE MemoryInv'
<1>1. /\ faults' = [faults EXCEPT !.passes = @ + 1] /\ UNCHANGED <<memories, progress, told, facts>>
  BY DEF Curate
<1>2. /\ faults' \in FaultsType /\ faults'.overlap = faults.overlap
      /\ faults'.wrongStore = faults.wrongStore /\ faults'.emptied = faults.emptied
  BY <1>1, InvGivesTypes DEF FaultsType
<1>3. PICK ends \in BOOLEAN :
        LET c == [NoPass EXCEPT !.at = "asking", !.ends = ends, !.last = told[s].log]
        IN  curator' = [curator EXCEPT ![s] = IF told[s].log > told[s].cursor THEN c ELSE After(c)]
  BY DEF Curate
<1> DEFINE c == [NoPass EXCEPT !.at = "asking", !.ends = ends, !.last = told[s].log]
           d == IF told[s].log > told[s].cursor THEN c ELSE After(c)
<1>4. told[s].log \in Nat BY InvGivesTypes DEF ToldType
<1>5. c \in PassType /\ c.absorbing = {} /\ c.merges = <<>> /\ c.at = "asking"
  BY <1>4, NoPassIs DEF PassType, NoPass
<1>6. curator' = [curator EXCEPT ![s] = d] BY <1>3
<1> HIDE DEF c
<1>7. PassFits(c) BY <1>5 DEF PassFits, Absorbed, Survivor
<1>8. d \in PassType /\ PassFits(d) /\ d.at \notin {"planning", "merging"} BY <1>5, <1>7, AfterIs
<1> HIDE DEF d
<1>9. /\ curator' \in [Users -> PassType] /\ curator'[s] = d
      /\ \A t \in Users : PassFits(curator'[t])
      /\ \A t \in Users : t # s => curator'[t] = curator[t]
  BY <1>6, <1>8, PassMoves, InvGivesTypes
<1>10. Undisturbed' => AllThere' /\ \A t \in Users : Knows(t)' BY <1>1, <1>2, <1>8, <1>9, StillKnows
<1>q. QED BY <1>1, <1>2, <1>9, <1>10, InvGivesTypes, InvFrom

(* A pass that only moves on, and plans from nothing new.                  *)
LEMMA OnlyMoves ==
  ASSUME MemoryInv, NEW s \in Users, NEW c \in PassType, PassFits(c), curator' = [curator EXCEPT ![s] = c],
         UNCHANGED <<memories, facts, faults>>, progress' \in {"none", "open"}, told' \in [Users -> ToldType],
         c.at \in {"planning", "merging"} => c.own = memories.global \/ (c.own = curator[s].own /\ Planning(s))
  PROVE  MemoryInv'
<1>1. /\ curator' \in [Users -> PassType] /\ curator'[s] = c
      /\ \A t \in Users : PassFits(curator'[t])
      /\ \A t \in Users : t # s => curator'[t] = curator[t]
  BY PassMoves, InvGivesTypes
<1>2. Undisturbed' => AllThere' /\ \A t \in Users : Knows(t)' BY <1>1, StillKnows
<1>q. QED BY <1>1, <1>2, InvGivesTypes, InvFrom

LEMMA AnsweredKeeps == ASSUME MemoryInv, NEW s \in Users, PassAnswered(s) PROVE MemoryInv'
<1> DEFINE c == [curator[s] EXCEPT !.at = "looking"]
           ToldMoves == told' = [told EXCEPT ![s].cursor = curator[s].last]
<1>1. curator[s] \in PassType /\ curator[s].at = "asking" /\ ToldMoves /\ PassFits(curator[s])
  BY InvGivesTypes DEF PassAnswered
<1>2. told' \in [Users -> ToldType]
  <2>1. curator[s].last \in Nat /\ told \in [Users -> ToldType] BY <1>1, InvGivesTypes DEF PassType
  <2>q. QED BY <1>1, <2>1 DEF ToldType
<1>3. c \in PassType /\ PassFits(c) /\ c.at = "looking"
  <2>1. c \in PassType /\ c.at = "looking" /\ c.absorbing = curator[s].absorbing BY <1>1 DEF PassType
  <2>q. QED BY <2>1, <1>1 DEF PassFits, Absorbed, Survivor
<1>4. progress \in {"none", "open"} BY InvGivesTypes
<1>5. CASE /\ curator' = [curator EXCEPT ![s] = After(curator[s])]
           /\ UNCHANGED <<memories, progress, facts, faults>>
  <2>1. After(curator[s]) \in PassType /\ PassFits(After(curator[s]))
        /\ After(curator[s]).at \notin {"planning", "merging"}
    BY <1>1, AfterIs
  <2> DEFINE d == After(curator[s])
  <2>2. curator' = [curator EXCEPT ![s] = d] BY <1>5
  <2> HIDE DEF d
  <2>q. QED BY <2>1, <2>2, <1>2, <1>4, <1>5, OnlyMoves DEF d
<1>6. CASE /\ curator' = [curator EXCEPT ![s] = c] /\ UNCHANGED <<memories, progress, facts, faults>>
  <2> HIDE DEF c
  <2>q. QED BY <1>2, <1>3, <1>4, <1>6, OnlyMoves
<1>7. CASE /\ \E n \in Names, sc \in {"global", "ws"} : Learn(s, n, sc)
           /\ curator' = [curator EXCEPT ![s] = c] /\ UNCHANGED progress
  <2> HIDE DEF c
  <2>1. PICK n \in Names, sc \in Stores : Learn(s, n, sc) BY <1>7 DEF Stores
  <2>2. /\ memories' \in [Stores -> Bodies] /\ facts' \in FactsType /\ faults' \in FaultsType
        /\ Undisturbed' => Undisturbed /\ ~Stale(s)
        /\ Undisturbed' /\ AllThere => AllThere'
    BY <2>1, LearnIs, InvGivesTypes
  <2>3. /\ curator' \in [Users -> PassType] /\ curator'[s] = c
        /\ \A t \in Users : PassFits(curator'[t])
        /\ \A t \in Users : t # s => curator'[t] = curator[t]
    BY <1>3, <1>7, PassMoves, InvGivesTypes
  <2>4. Undisturbed' => \A t \in Users : Knows(t)' BY <1>3, <2>2, <2>3, WriterKnows
  <2>q. QED BY <1>2, <1>4, <1>7, <2>2, <2>3, <2>4, InvGivesTypes, InvFrom
<1>8. CASE /\ progress' = IF SkipsProgress("progress") THEN progress ELSE "stray"
           /\ curator' = [curator EXCEPT ![s] = c] /\ UNCHANGED <<memories, facts, faults>>
  <2>1. progress' = progress BY <1>8 DEF SkipsProgress
  <2> HIDE DEF c
  <2>q. QED BY <1>2, <1>3, <1>4, <1>8, <2>1, OnlyMoves
<1>9. \/ /\ curator' = [curator EXCEPT ![s] = After(curator[s])]
         /\ UNCHANGED <<memories, progress, facts, faults>>
      \/ /\ curator' = [curator EXCEPT ![s] = c]
         /\ UNCHANGED <<memories, progress, facts, faults>>
      \/ /\ \E n \in Names, sc \in {"global", "ws"} : Learn(s, n, sc)
         /\ curator' = [curator EXCEPT ![s] = c]
         /\ UNCHANGED progress
      \/ /\ progress' = IF SkipsProgress("progress") THEN progress ELSE "stray"
         /\ curator' = [curator EXCEPT ![s] = c]
         /\ UNCHANGED <<memories, facts, faults>>
  BY DEF PassAnswered
<1> HIDE DEF c
<1>q. QED BY <1>5, <1>6, <1>7, <1>8, <1>9

LEMMA ConsolidateKeeps == ASSUME MemoryInv, NEW s \in Users, Consolidate(s) PROVE MemoryInv'
<1> DEFINE c == [curator[s] EXCEPT !.at = "planning", !.own = memories.global]
           d == IF Cardinality(Existing(memories.global)) > IndexCap THEN c ELSE After(curator[s])
<1>1. curator[s] \in PassType /\ curator[s].at = "looking" /\ PassFits(curator[s])
  BY InvGivesTypes DEF Consolidate
<1>2. memories.global \in Bodies BY InvGivesTypes DEF Stores
<1>3. /\ c \in PassType /\ c.at = "planning" /\ c.own = memories.global
      /\ c.absorbing = curator[s].absorbing
  BY <1>1, <1>2 DEF PassType
<1>4. curator' = [curator EXCEPT ![s] = d] /\ UNCHANGED <<memories, progress, told, facts, faults>>
  BY DEF Consolidate
<1> HIDE DEF c
<1>5. PassFits(c) BY <1>1, <1>3 DEF PassFits, Absorbed, Survivor
<1>6. d \in PassType /\ PassFits(d) /\ (d.at \in {"planning", "merging"} => d.own = memories.global)
  BY <1>1, <1>3, <1>5, AfterIs
<1> HIDE DEF d
<1>q. QED BY <1>4, <1>6, InvGivesTypes, OnlyMoves

(* A plan that is not refused leaves a memory out.                         *)
LEMMA PlanLeaves ==
  ASSUME NEW p, NEW own \in Bodies, ~WouldEmpty(p, own), Gone(p) \subseteq Names
  PROVE  \E x \in Existing(own) : x \notin Gone(p)
<1>1. SUFFICES ASSUME Existing(own) \subseteq Gone(p) PROVE FALSE OBVIOUS
<1>2. IsFiniteSet(Names) /\ Cardinality(Names) = Named BY NumbersAre, FS_Interval DEF Names
<1>3. IsFiniteSet(Gone(p)) BY <1>2, FS_Subset
<1>4. Cardinality(Existing(own)) <= Cardinality(Gone(p)) /\ IsFiniteSet(Existing(own)) BY <1>1, <1>3, FS_Subset
<1>5. Cardinality(Existing(own)) \in Nat /\ Cardinality(Gone(p)) \in Nat BY <1>3, <1>4, FS_CardinalityType
<1>q. QED BY <1>4, <1>5 DEF WouldEmpty

LEMMA ParsePlanKeeps == ASSUME MemoryInv, NEW s \in Users, ParsePlan(s) PROVE MemoryInv'
<1>1. curator[s] \in PassType /\ curator[s].at = "planning" /\ PassFits(curator[s]) /\ curator[s].own \in Bodies
  BY InvGivesTypes DEF ParsePlan, PassType
<1>2. UNCHANGED <<memories, progress, told, facts, faults>> BY DEF ParsePlan
<1>3. CASE curator' = [curator EXCEPT ![s] = After(curator[s])]
  <2> DEFINE d == After(curator[s])
  <2>1. d \in PassType /\ PassFits(d) /\ d.at \notin {"planning", "merging"} BY <1>1, AfterIs
  <2>2. curator' = [curator EXCEPT ![s] = d] BY <1>3
  <2> HIDE DEF d
  <2>q. QED BY <2>1, <2>2, <1>2, InvGivesTypes, OnlyMoves
<1>4. ASSUME NEW p \in Plans, ~WouldEmpty(p, curator[s].own),
             curator' = [curator EXCEPT ![s] =
               [@ EXCEPT !.at = "merging", !.merges = p.merges, !.forgets = p.forgets, !.room = MaxMerges]]
      PROVE  MemoryInv'
  <2> DEFINE c == [curator[s] EXCEPT !.at = "merging", !.merges = p.merges, !.forgets = p.forgets, !.room = MaxMerges]
  <2>1. p.merges \in MergeLists /\ p.forgets \in SUBSET Names BY <1>4 DEF Plans, MergeLists
  <2>2. \A i \in DOMAIN p.merges : p.merges[i].absorb \subseteq Names BY <2>1 DEF MergePlans, MergeLists
  <2>3. Gone(p) \subseteq Names BY <2>1, <2>2 DEF Gone
  <2>4. PICK x \in Existing(curator[s].own) : x \notin Gone(p) BY <1>1, <1>4, <2>3, PlanLeaves
  <2>5. x \notin p.forgets /\ \A i \in DOMAIN p.merges : x \notin p.merges[i].absorb BY <2>4 DEF Gone
  <2>6. /\ c \in PassType /\ c.at = "merging" /\ c.own = curator[s].own /\ c.merges = p.merges
        /\ c.forgets = p.forgets /\ c.absorbing = curator[s].absorbing
    <3>1. MaxMerges \in Int BY NumbersAre
    <3> DEFINE a == [curator[s] EXCEPT !.at = "merging"]
               b == [a EXCEPT !.merges = p.merges]
               e == [b EXCEPT !.forgets = p.forgets]
    <3>2. c = [e EXCEPT !.room = MaxMerges] OBVIOUS
    <3>3. a \in PassType /\ a.at = "merging" /\ a.own = curator[s].own /\ a.absorbing = curator[s].absorbing
      BY <1>1 DEF PassType
    <3> HIDE DEF a
    <3>4. b \in PassType /\ b.at = "merging" /\ b.own = curator[s].own /\ b.absorbing = curator[s].absorbing
          /\ b.merges = p.merges
      BY <3>3, <2>1 DEF PassType
    <3> HIDE DEF b
    <3>5. e \in PassType /\ e.at = "merging" /\ e.own = curator[s].own /\ e.absorbing = curator[s].absorbing
          /\ e.merges = p.merges /\ e.forgets = p.forgets
      BY <3>4, <2>1 DEF PassType
    <3> HIDE DEF e, c
    <3>q. QED BY <3>1, <3>2, <3>5 DEF PassType
  <2>7. c.absorbing = {} BY <1>1, <2>6 DEF PassFits, Absorbed
  <2>8. curator' = [curator EXCEPT ![s] = c] BY <1>4
  <2> HIDE DEF c
  <2>9. PassFits(c) BY <2>4, <2>5, <2>6, <2>7 DEF PassFits, Absorbed, Survivor
  <2>10. Planning(s) BY <1>1 DEF Planning
  <2>q. QED BY <2>6, <2>8, <2>9, <2>10, <1>2, InvGivesTypes, OnlyMoves
<1>q. QED BY <1>3, <1>4 DEF ParsePlan

LEMMA RecordKeeps == ASSUME MemoryInv, NEW s \in Users, RecordProgress(s) PROVE MemoryInv'
<1>1. /\ curator' = [curator EXCEPT ![s] = NoPass] /\ progress' \in {"none", "open"}
      /\ UNCHANGED <<memories, told, facts, faults>>
  BY InvGivesTypes DEF RecordProgress
<1>2. NoPass \in PassType /\ PassFits(NoPass) /\ NoPass.at = "off" BY NoPassIs DEF PassFits, Absorbed, Survivor
<1>q. QED BY <1>1, <1>2, InvGivesTypes, OnlyMoves

LEMMA CrashKeeps == ASSUME MemoryInv, MemoryCrash PROVE MemoryInv'
<1>1. /\ faults' = [faults EXCEPT !.deaths = @ + 1] /\ curator' = [s \in Users |-> NoPass]
      /\ told' = [s \in Users |-> [told[s] EXCEPT !.cursor = 0]]
      /\ UNCHANGED <<memories, progress, facts>>
  BY DEF MemoryCrash
<1>2. /\ faults' \in FaultsType /\ faults'.overlap = faults.overlap
      /\ faults'.wrongStore = faults.wrongStore /\ faults'.emptied = faults.emptied
  BY <1>1, InvGivesTypes DEF FaultsType
<1>3. told' \in [Users -> ToldType] BY <1>1, InvGivesTypes DEF ToldType
<1>4. \A s \in Users : curator'[s] = NoPass BY <1>1
<1>5. curator' \in [Users -> PassType] /\ \A s \in Users : PassFits(curator'[s]) /\ Knows(s)'
  BY <1>1, <1>4, NoPassIs DEF PassFits, Absorbed, Survivor, Knows, Planning
<1>6. Undisturbed' = Undisturbed /\ AllThere' = AllThere BY <1>1, <1>2, NothingWritten
<1>7. Undisturbed => AllThere BY InvGivesTypes
<1>q. QED BY <1>1, <1>2, <1>3, <1>5, <1>6, <1>7, InvGivesTypes, InvFrom

(* A merge gathers what the pass read into the survivor.                   *)
LEMMA WriteMergedKeeps == ASSUME MemoryInv, NEW s \in Users, WriteMerged(s) PROVE MemoryInv'
<1> DEFINE into == Target(s).into
           absorb == Target(s).absorb
           own == curator[s].own
           new == [own EXCEPT ![into] = Body(s)]
           done == [curator[s] EXCEPT !.merges = <<>>]
           c == [done EXCEPT !.absorbing = Absorbs(Target(s)), !.own = new]
<1>1. /\ curator[s] \in PassType /\ curator[s].at = "merging" /\ PassFits(curator[s]) /\ curator[s].merges # <<>>
      /\ own \in Bodies /\ curator[s].merges \in MergeLists /\ Planning(s)
  BY InvGivesTypes DEF WriteMerged, PassType, Planning
<1>2. PICK m \in MergePlans : curator[s].merges = <<m>> BY <1>1 DEF MergeLists
<1>3. Target(s) = m BY <1>2 DEF Target
<1>4. into \in Names /\ absorb \subseteq Names BY <1>3 DEF MergePlans
<1>5. UNCHANGED <<progress, told, facts>> BY DEF WriteMerged
<1>6. /\ done \in PassType /\ done.merges = <<>> /\ done.at = "merging" /\ done.own = own
      /\ done.absorbing = curator[s].absorbing /\ done.forgets = curator[s].forgets
  BY <1>1 DEF PassType, MergeLists
<1>7. PICK x \in Existing(own) :
        x \notin curator[s].forgets /\ x \notin curator[s].absorbing
        /\ \A i \in DOMAIN curator[s].merges : x \notin curator[s].merges[i].absorb
  BY <1>1 DEF PassFits, Survivor
<1>8. x \notin absorb /\ x \in Names /\ own[x] # {}
  <2>1. 1 \in DOMAIN <<m>> /\ <<m>>[1] = m OBVIOUS
  <2>q. QED BY <2>1, <1>7, <1>2, <1>3 DEF Existing
<1>9. curator[s].absorbing = {} BY <1>1 DEF PassFits, Absorbed
<1>10. Body(s) \in SUBSET Facts /\ own[into] \subseteq Body(s) /\ \A n \in absorb : own[n] \subseteq Body(s)
  <2>1. \A n \in absorb \cup {into} : own[n] \in SUBSET Facts BY <1>1, <1>4 DEF Bodies
  <2>2. Body(s) = UNION {own[n] : n \in absorb \cup {into}} BY DEF Body
  <2>3. Body(s) \subseteq Facts BY <2>1, <2>2
  <2>4. \A n \in absorb \cup {into} : own[n] \subseteq Body(s) BY <2>2
  <2>q. QED BY <2>3, <2>4
<1>11. CASE curator' = [curator EXCEPT ![s] = done] /\ UNCHANGED <<memories, faults>>
  <2>1. PassFits(done) BY <1>6, <1>7, <1>9 DEF PassFits, Absorbed, Survivor
  <2> HIDE DEF done
  <2>q. QED BY <1>1, <1>5, <1>6, <1>11, <2>1, InvGivesTypes, OnlyMoves
<1>12. ASSUME /\ memories' = Store(into, Body(s), "global")
              /\ curator' = [curator EXCEPT ![s] =
                   [@ EXCEPT !.merges = <<>>, !.absorbing = Absorbs(Target(s)), !.own[into] = Body(s)]]
              /\ faults' = [faults EXCEPT !.overlap = @ \/ Stale(s)]
       PROVE  MemoryInv'
  <2>1. new \in Bodies /\ new[into] = Body(s) /\ \A n \in Names : n # into => new[n] = own[n]
    BY <1>1, <1>4, <1>10 DEF Bodies
  <2>2. Absorbs(Target(s)) = absorb \ {into} BY DEF Absorbs
  <2>3. [curator[s] EXCEPT !.merges = <<>>, !.absorbing = Absorbs(Target(s)), !.own[into] = Body(s)] = c
    BY <1>1 DEF PassType
  <2>4. curator' = [curator EXCEPT ![s] = c] BY <1>12, <2>3
  <2> HIDE DEF done, new
  <2>5. /\ c \in PassType /\ c.at = "merging" /\ c.merges = <<>> /\ c.own = new
        /\ c.absorbing = absorb \ {into} /\ c.forgets = curator[s].forgets
    BY <1>4, <1>6, <2>1, <2>2 DEF PassType
  <2> HIDE DEF c
  <2>6. PassFits(c)
    <3>1. Absorbed(c)
      <4>1. into \in Names \ c.absorbing /\ \A n \in c.absorbing : c.own[n] \subseteq c.own[into]
        BY <1>4, <1>10, <2>1, <2>5
      <4>q. QED BY <4>1, <2>5 DEF Absorbed
    <3>2. Survivor(c)
      <4>1. x \in Existing(c.own)
        <5>1. CASE x = into BY <5>1, <1>8, <1>10, <2>1, <2>5 DEF Existing
        <5>2. CASE x # into BY <5>2, <1>8, <2>1, <2>5 DEF Existing
        <5>q. QED BY <5>1, <5>2
      <4>q. QED BY <4>1, <1>7, <1>8, <2>5 DEF Survivor
    <3>q. QED BY <3>1, <3>2 DEF PassFits
  <2>7. /\ curator' \in [Users -> PassType] /\ curator'[s] = c
        /\ \A t \in Users : PassFits(curator'[t])
        /\ \A t \in Users : t # s => curator'[t] = curator[t]
    BY <2>4, <2>5, <2>6, PassMoves, InvGivesTypes
  <2>8. Written(memories', into, Body(s), "global")
    <3>1. "global" \in Stores /\ memories \in [Stores -> Bodies] BY InvGivesTypes DEF Stores
    <3>q. QED BY <3>1, <1>4, <1>10, <1>12, StoreHas
  <2>9. /\ faults' \in FaultsType /\ faults'.overlap = (faults.overlap \/ Stale(s))
        /\ faults'.wrongStore = faults.wrongStore /\ faults'.emptied = faults.emptied
    BY <1>12, InvGivesTypes DEF FaultsType
  <2>10. ASSUME Undisturbed' PROVE AllThere' /\ \A t \in Users : Knows(t)'
    <3>1. Undisturbed /\ ~Stale(s) BY <2>9, <2>10 DEF Undisturbed
    <3>2. AllThere /\ own = memories.global BY <1>1, <3>1, InvGivesTypes DEF Knows
    <3>3. memories'.global = new BY <2>8, <3>2 DEF Written, new
    <3>4. AllThere'
      <4>1. ASSUME NEW y \in 1..facts'.learned PROVE y \in Held' \cup facts'.retired
        <5>1. y \in Held \cup facts.retired BY <4>1, <1>5, <3>2 DEF AllThere
        <5>2. CASE y \in facts.retired BY <5>2, <1>5
        <5>3. CASE y \in Held
          <6>1. PICK sc \in Stores, n \in Names : y \in memories[sc][n] BY <5>3, HeldIs
          <6>2. CASE sc = "global" /\ n = into
            <7>1. y \in memories'["global"][into] /\ "global" \in Stores
              BY <6>1, <6>2, <1>10, <2>8, <3>2 DEF Written, Stores
            <7>q. QED BY <7>1, <1>4 DEF Held, Stores
          <6>3. CASE sc # "global" \/ n # into
            <7>1. y \in memories'[sc][n] BY <6>1, <6>3, <2>8 DEF Written
            <7>q. QED BY <7>1 DEF Held, Stores
          <6>q. QED BY <6>2, <6>3
        <5>q. QED BY <5>1, <5>2, <5>3
      <4>q. QED BY <4>1, <2>9, <3>2 DEF AllThere
    <3>5. \A t \in Users : Knows(t)' BY <2>5, <2>7, <3>1, <3>3, WriterKnows
    <3>q. QED BY <3>4, <3>5
  <2>11. memories' \in [Stores -> Bodies] BY <2>8 DEF Written
  <2>q. QED BY <1>5, <2>7, <2>9, <2>10, <2>11, InvGivesTypes, InvFrom
<1> HIDE DEF done, c, new
<1>13. \/ /\ memories' = Store(into, Body(s), "global")
          /\ curator' = [curator EXCEPT ![s] =
               [@ EXCEPT !.merges = <<>>, !.absorbing = Absorbs(Target(s)), !.own[into] = Body(s)]]
          /\ faults' = [faults EXCEPT !.overlap = @ \/ Stale(s)]
       \/ curator' = [curator EXCEPT ![s].merges = <<>>] /\ UNCHANGED <<memories, faults>>
  BY DEF WriteMerged
<1>q. QED BY <1>11, <1>12, <1>13 DEF done

(* What a pass takes a name for, once it asked for it to go.               *)
Remains(s, n) == IF memories' = memories THEN curator[s].own ELSE [curator[s].own EXCEPT ![n] = {}]

(* A pass that asks for a name to go, and what it is after that.           *)
PassAsks(s, n, c) ==
  /\ curator[s].at = "merging" /\ ForgetIfPresent(s, n)
  /\ curator' = [curator EXCEPT ![s] = c]
  /\ c.at = "merging" /\ c.merges = <<>> /\ c.own = Remains(s, n)
  /\ c.forgets \subseteq curator[s].forgets /\ c.absorbing = curator[s].absorbing \ {n}
  /\ n \in curator[s].absorbing \/ (n \in curator[s].forgets /\ curator[s].absorbing = {})
  /\ UNCHANGED <<progress, told>> /\ facts' \in FactsType /\ facts'.learned = facts.learned
  /\ facts.retired \subseteq facts'.retired
  /\ memories' # memories => n \in curator[s].absorbing \/ memories[ForgottenIn(n)][n] \subseteq facts'.retired

(* A forget of a pass: of what a merge absorbed, which the survivor holds, *)
(* or of what no longer holds, which is given up.                          *)
LEMMA PassForgets ==
  ASSUME MemoryInv, NEW s \in Users, NEW n \in Names, NEW c \in PassType, PassAsks(s, n, c)
  PROVE  MemoryInv'
<1> DEFINE own == curator[s].own
<1> USE DEF PassAsks
<1>1. /\ curator[s] \in PassType /\ PassFits(curator[s]) /\ own \in Bodies /\ Planning(s) /\ MemoryTypes
      /\ memories \in [Stores -> Bodies] /\ "global" \in Stores
  BY InvGivesTypes DEF PassType, Planning, Stores
<1>2. /\ memories' \in [Stores -> Bodies] /\ faults' \in FaultsType
      /\ Undisturbed' => Undisturbed
      /\ memories' # memories => memories' = Forgotten(n)
      /\ memories' # memories /\ Undisturbed' => ~Stale(s) /\ ForgottenIn(n) = "global"
      /\ faults'.emptied => faults.emptied \/ (memories' # memories /\ Existing(memories.global) # {}
                                              /\ Existing(memories'.global) = {})
  BY <1>1, ForgetIs
<1>3. PICK x \in Existing(own) : x \notin curator[s].forgets /\ x \notin curator[s].absorbing
  BY <1>1 DEF PassFits, Survivor
<1>4. x # n /\ x \in Names /\ own[x] # {} BY <1>3 DEF Existing
<1>5. c.own \in Bodies /\ \A m \in Names : m # n => c.own[m] = own[m] /\ c.own[n] \subseteq own[n]
  <2>1. [own EXCEPT ![n] = {}] \in Bodies BY <1>1 DEF Bodies
  <2>q. QED BY <2>1, <1>1 DEF Bodies, Remains
<1>6. PassFits(c)
  <2>1. Absorbed(c)
    <3>1. CASE curator[s].absorbing = {} BY <3>1 DEF Absorbed
    <3>2. CASE curator[s].absorbing # {}
      <4>1. PICK i \in Names \ curator[s].absorbing : \A m \in curator[s].absorbing : own[m] \subseteq own[i]
        BY <1>1, <3>2 DEF PassFits, Absorbed
      <4>2. n \in curator[s].absorbing /\ i # n BY <3>2, <4>1
      <4>3. curator[s].absorbing \in SUBSET Names BY <1>1 DEF PassType
      <4>4. i \in Names \ c.absorbing /\ \A m \in c.absorbing : c.own[m] \subseteq c.own[i]
        BY <4>1, <4>2, <4>3, <1>5
      <4>q. QED BY <4>4 DEF Absorbed
    <3>q. QED BY <3>1, <3>2
  <2>2. Survivor(c)
    <3>1. x \in Existing(c.own) BY <1>4, <1>5 DEF Existing
    <3>q. QED BY <3>1, <1>3 DEF Survivor
  <2>q. QED BY <2>1, <2>2 DEF PassFits
<1>7. /\ curator' \in [Users -> PassType] /\ curator'[s] = c
      /\ \A t \in Users : PassFits(curator'[t])
      /\ \A t \in Users : t # s => curator'[t] = curator[t]
  BY <1>6, PassMoves, InvGivesTypes
<1>8. ASSUME Undisturbed' PROVE AllThere' /\ \A t \in Users : Knows(t)'
  <2>1. Undisturbed /\ AllThere /\ (\A t \in Users : Knows(t)) BY <1>2, <1>8, InvGivesTypes
  <2>2. own = memories.global BY <1>1, <2>1 DEF Knows
  <2>3. CASE memories' = memories
    <3>1. ~faults'.emptied BY <1>2, <2>1, <2>3 DEF AllThere
    <3>2. Held' = Held BY <2>3 DEF Held
    <3>3. AllThere' BY <3>1, <3>2, <2>1 DEF AllThere
    <3>4. ASSUME NEW t \in Users PROVE Knows(t)'
      <4>1. CASE t = s BY <4>1, <1>7, <2>2, <2>3 DEF Knows, Planning, Remains
      <4>2. CASE t # s BY <4>2, <1>7, <2>1, <2>3 DEF Knows, Planning
      <4>q. QED BY <4>1, <4>2
    <3>q. QED BY <3>3, <3>4
  <2>4. CASE memories' # memories
    <3>1. /\ memories' = Forgotten(n) /\ ~Stale(s) /\ ForgottenIn(n) = "global"
          /\ Written(memories', n, {}, ForgottenIn(n))
      BY <1>1, <1>2, <1>8, <2>4, ForgottenIs
    <3>2. memories'.global = [memories.global EXCEPT ![n] = {}] BY <3>1 DEF Written
    <3>3. c.own = memories'.global BY <2>2, <2>4, <3>2 DEF Remains
    <3>4. x \in Existing(memories'.global) BY <3>3, <1>4, <1>5 DEF Existing
    <3>5. ~faults'.emptied BY <3>4, <1>2, <2>1 DEF AllThere
    <3>6. memories[ForgottenIn(n)][n] \subseteq Held' \cup facts'.retired
      <4>1. CASE n \in curator[s].absorbing
        <5>1. PICK i \in Names \ curator[s].absorbing : \A m \in curator[s].absorbing : own[m] \subseteq own[i]
          BY <1>1, <4>1 DEF PassFits, Absorbed
        <5>2. i \in Names /\ memories'["global"][i] = own[i] BY <5>1, <4>1, <1>5, <3>3
        <5>3. own[n] \subseteq memories'["global"][i] BY <5>1, <5>2, <4>1
        <5>4. memories[ForgottenIn(n)][n] = own[n] BY <3>1, <2>2
        <5>q. QED BY <5>2, <5>3, <5>4, <1>1 DEF Held, Stores
      <4>2. CASE memories[ForgottenIn(n)][n] \subseteq facts'.retired BY <4>2
      <4>q. QED BY <4>1, <4>2, <2>4
    <3>7. AllThere' BY <1>1, <2>1, <3>1, <3>5, <3>6, ForgetKeeps
    <3>8. \A t \in Users : Knows(t)' BY <1>7, <3>1, <3>3, WriterKnows
    <3>q. QED BY <3>7, <3>8
  <2>q. QED BY <2>3, <2>4
<1>q. QED BY <1>2, <1>7, <1>8, InvGivesTypes, InvFrom

LEMMA ForgetAbsorbedKeeps == ASSUME MemoryInv, NEW s \in Users, ForgetAbsorbed(s) PROVE MemoryInv'
<1> DEFINE n == CHOOSE x \in curator[s].absorbing : TRUE
           own == curator[s].own
           new == IF memories' = memories THEN own ELSE [own EXCEPT ![n] = {}]
           c == [curator[s] EXCEPT !.absorbing = curator[s].absorbing \ {n}, !.own = new]
<1>1. /\ curator[s] \in PassType /\ curator \in [Users -> PassType] /\ curator[s].at = "merging"
      /\ curator[s].merges = <<>> /\ curator[s].absorbing \in SUBSET Names /\ curator[s].absorbing # {} /\ own \in Bodies
  BY InvGivesTypes DEF ForgetAbsorbed, PassType
<1>2. n \in curator[s].absorbing /\ n \in Names BY <1>1
<1>3. /\ ForgetIfPresent(s, n) /\ UNCHANGED <<progress, told, facts>>
      /\ curator' = [curator EXCEPT ![s].absorbing = @ \ {n}, ![s].own[n] = IF memories' = memories THEN @ ELSE {}]
  BY DEF ForgetAbsorbed
<1> HIDE DEF n
<1>4. new \in Bodies /\ new = [own EXCEPT ![n] = IF memories' = memories THEN own[n] ELSE {}]
  BY <1>1, <1>2 DEF Bodies
<1>5. curator' = [curator EXCEPT ![s] = c]
  <2>1. curator' = [curator EXCEPT ![s] =
           [curator[s] EXCEPT !.absorbing = @ \ {n}, !.own[n] = IF memories' = memories THEN @ ELSE {}]]
    BY <1>1, <1>3 DEF PassType
  <2>2. [curator[s] EXCEPT !.absorbing = @ \ {n}, !.own[n] = IF memories' = memories THEN @ ELSE {}] = c
    BY <1>1, <1>4 DEF PassType
  <2>q. QED BY <2>1, <2>2
<1> HIDE DEF new
<1>6. /\ c \in PassType /\ c.at = "merging" /\ c.merges = <<>> /\ c.own = new
      /\ c.forgets = curator[s].forgets /\ c.absorbing = curator[s].absorbing \ {n}
  BY <1>1, <1>4 DEF PassType
<1>7. c.own = Remains(s, n) BY <1>6 DEF new, Remains
<1>8. facts' \in FactsType /\ facts'.learned = facts.learned /\ facts.retired \subseteq facts'.retired
  BY <1>3, InvGivesTypes
<1> HIDE DEF c
<1>9. PassAsks(s, n, c) BY <1>1, <1>2, <1>3, <1>5, <1>6, <1>7, <1>8 DEF PassAsks
<1>q. QED BY <1>2, <1>6, <1>9, PassForgets

LEMMA ForgetNextKeeps == ASSUME MemoryInv, NEW s \in Users, ForgetNext(s) PROVE MemoryInv'
<1> DEFINE n == CHOOSE x \in curator[s].forgets : TRUE
           own == curator[s].own
           room == curator[s].room
           new == IF memories' = memories THEN own ELSE [own EXCEPT ![n] = {}]
           left == IF memories' = memories THEN room ELSE room - 1
           c == [curator[s] EXCEPT !.forgets = curator[s].forgets \ {n}, !.own = new, !.room = left]
<1>1. /\ curator[s] \in PassType /\ curator \in [Users -> PassType] /\ curator[s].at = "merging" /\ room \in Int
      /\ curator[s].merges = <<>> /\ curator[s].absorbing = {} /\ curator[s].forgets \in SUBSET Names /\ own \in Bodies
      /\ UNCHANGED <<progress, told>>
  BY InvGivesTypes DEF ForgetNext, PassType
<1>2. CASE curator[s].forgets = {} \/ curator[s].room = 0
  <2> DEFINE d == After(curator[s])
  <2>1. d \in PassType /\ PassFits(d) /\ d.at \notin {"planning", "merging"} BY <1>1, AfterIs
  <2>2. curator' = [curator EXCEPT ![s] = d] /\ UNCHANGED <<memories, facts, faults>> BY <1>2 DEF ForgetNext
  <2> HIDE DEF d
  <2>q. QED BY <2>1, <2>2, <1>1, InvGivesTypes, OnlyMoves
<1>3. CASE ~(curator[s].forgets = {} \/ curator[s].room = 0)
  <2>1. n \in curator[s].forgets /\ n \in Names BY <1>1, <1>3
  <2>2. /\ ForgetIfPresent(s, n)
        /\ facts' = IF memories' = memories THEN facts
                    ELSE [facts EXCEPT !.retired = @ \cup memories[ForgottenIn(n)][n]]
        /\ curator' = [curator EXCEPT ![s].forgets = @ \ {n},
                                      ![s].own[n] = IF memories' = memories THEN @ ELSE {},
                                      ![s].room = IF memories' = memories THEN @ ELSE @ - 1]
    BY <1>3 DEF ForgetNext
  <2> HIDE DEF n
  <2>3. new \in Bodies /\ new = [own EXCEPT ![n] = IF memories' = memories THEN own[n] ELSE {}]
    BY <1>1, <2>1 DEF Bodies
  <2>9. left \in Int
    <3>1. \A r \in Int : r - 1 \in Int OBVIOUS
    <3>q. QED BY <3>1, <1>1
  <2>4. curator' = [curator EXCEPT ![s] = c]
    <3>1. curator' = [curator EXCEPT ![s] =
             [curator[s] EXCEPT !.forgets = @ \ {n}, !.own[n] = IF memories' = memories THEN @ ELSE {},
                                !.room = IF memories' = memories THEN @ ELSE @ - 1]]
      BY <1>1, <2>2 DEF PassType
    <3>2. [curator[s] EXCEPT !.forgets = @ \ {n}, !.own[n] = IF memories' = memories THEN @ ELSE {},
                             !.room = IF memories' = memories THEN @ ELSE @ - 1] = c
      BY <1>1, <2>3, <2>9 DEF PassType
    <3>q. QED BY <3>1, <3>2
  <2> HIDE DEF new, left
  <2>5. /\ c \in PassType /\ c.at = "merging" /\ c.merges = <<>> /\ c.own = new
        /\ c.forgets \subseteq curator[s].forgets /\ c.absorbing = curator[s].absorbing \ {n}
    BY <1>1, <2>3, <2>9 DEF PassType
  <2>6. c.own = Remains(s, n) BY <2>5 DEF new, Remains
  <2> HIDE DEF c
  <2>7. facts \in FactsType /\ memories[ForgottenIn(n)][n] \in SUBSET Facts BY <2>1, InvGivesTypes, ForgottenIs
  <2>8. /\ facts' \in FactsType /\ facts'.learned = facts.learned /\ facts.retired \subseteq facts'.retired
        /\ memories' # memories => memories[ForgottenIn(n)][n] \subseteq facts'.retired
    <3>1. CASE memories' = memories BY <3>1, <2>2, <2>7
    <3>2. CASE memories' # memories
      <4>1. facts' = [facts EXCEPT !.retired = @ \cup memories[ForgottenIn(n)][n]] BY <3>2, <2>2
      <4>q. QED BY <4>1, <2>7 DEF FactsType
    <3>q. QED BY <3>1, <3>2
  <2>10. PassAsks(s, n, c) BY <1>1, <2>1, <2>2, <2>4, <2>5, <2>6, <2>8 DEF PassAsks
  <2>q. QED BY <2>1, <2>5, <2>10, PassForgets
<1>q. QED BY <1>2, <1>3

-----------------------------------------------------------------------------
LEMMA MemoryStep == MemoryInv /\ [MemoryNext]_memoryVars => MemoryInv'
<1> SUFFICES ASSUME MemoryInv, [MemoryNext]_memoryVars PROVE MemoryInv' OBVIOUS
<1>1. CASE UNCHANGED memoryVars
  BY <1>1 DEF memoryVars, MemoryInv, MemoryTypes, Undisturbed, AllThere, Held, Knows, Planning
<1>2. ASSUME NEW s \in Users, Hears(s) PROVE MemoryInv' BY <1>2, HearsKeeps
<1>3. ASSUME NEW s \in Users, RunSave(s) PROVE MemoryInv' BY <1>3, RunSaveKeeps
<1>4. ASSUME NEW s \in Users, RunForget(s) PROVE MemoryInv' BY <1>4, RunForgetKeeps
<1>5. ASSUME NEW s \in Users, Curate(s) PROVE MemoryInv' BY <1>5, CurateKeeps
<1>6. ASSUME NEW s \in Users, PassAnswered(s) PROVE MemoryInv' BY <1>6, AnsweredKeeps
<1>7. ASSUME NEW s \in Users, Consolidate(s) PROVE MemoryInv' BY <1>7, ConsolidateKeeps
<1>8. ASSUME NEW s \in Users, ParsePlan(s) PROVE MemoryInv' BY <1>8, ParsePlanKeeps
<1>9. ASSUME NEW s \in Users, WriteMerged(s) PROVE MemoryInv' BY <1>9, WriteMergedKeeps
<1>10. ASSUME NEW s \in Users, ForgetAbsorbed(s) PROVE MemoryInv' BY <1>10, ForgetAbsorbedKeeps
<1>11. ASSUME NEW s \in Users, ForgetNext(s) PROVE MemoryInv' BY <1>11, ForgetNextKeeps
<1>12. ASSUME NEW s \in Users, RecordProgress(s) PROVE MemoryInv' BY <1>12, RecordKeeps
<1>13. CASE MemoryCrash BY <1>13, CrashKeeps
<1>q. QED BY <1>1, <1>2, <1>3, <1>4, <1>5, <1>6, <1>7, <1>8, <1>9, <1>10, <1>11, <1>12, <1>13 DEF MemoryNext

(* What the store, the passes and the history may hold.  A name the code   *)
(* has no file for says nothing.                                           *)
THEOREM MemoryTypeCorrect == MemorySpec => []MemoryTypeOK
<1>1. MemoryInv => MemoryTypeOK
  <2>1. ASSUME MemoryInv PROVE MemoryTypeOK
    <3>1. memories \in [{"global", "ws"} -> Bodies] BY <2>1, InvGivesTypes DEF Stores
    <3>2. \A n \in Names : memories.global[n] \subseteq Facts /\ memories.ws[n] \subseteq Facts BY <3>1 DEF Bodies
    <3>3. \A s \in Users : curator[s].at \in {"off", "asking", "looking", "planning", "merging", "progress"}
      BY <2>1, InvGivesTypes DEF PassType
    <3>4. facts.learned \in 0..MaxFacts BY <2>1, InvGivesTypes DEF FactsType
    <3>q. QED BY <3>2, <3>3, <3>4, <2>1, InvGivesTypes DEF MemoryTypeOK, Facts
  <2>q. QED BY <2>1
<1>q. QED BY <1>1, InvAtInit, MemoryStep, PTL DEF MemorySpec

(* Consolidating loses no fact: unless another session writes while a pass *)
(* plans, or the workspace has a memory of the same name, what was learned *)
(* and not given up is in some memory, the store is never emptied by a     *)
(* pass, and the in-progress memory says what a task list says.            *)
THEOREM MemoryIsKeptAlways == MemorySpec => []MemoryIsKept
<1>1. MemoryInv => MemoryIsKept BY DEF MemoryInv, MemoryIsKept, Undisturbed, AllThere
<1>q. QED BY <1>1, InvAtInit, MemoryStep, PTL DEF MemorySpec

-----------------------------------------------------------------------------
(* Sessions put away, brought back and prompted. *)

CallPlaces == {"ready", "look", "get", "attach", "lock", "family", "check", "move", "restore",
               "restored", "listing", "append", "start", "returned"}
CallRec ==
  [at : CallPlaces, op : {"none", "archive", "restore", "prompt"},
   of : Family \cup {None}, on : Family \cup {None}, then : {"none", "family", "lock", "restored"},
   h : Nat, object : Nat, todo : Seq(Family), alone : BOOLEAN, end : {"none", "ok", "failed", "refused"}]

(* The tables, and the handles that are in use.                            *)
Tables ==
  /\ file \in [Family -> {"none", "active", "archive"}]
  /\ log \in [Family -> [state : {"idle", "running", "paused"}, with : Family \cup {None}]]
  /\ torn \in SUBSET Family /\ loads \in [Family -> Nat] /\ open \in [Family -> BOOLEAN]
  /\ made \in [Family -> Seq(Nat)] /\ rt \in [Family -> [h : Nat, running : BOOLEAN]]
  /\ ops \in 0 .. MaxOps /\ crashes \in 0 .. MaxCrashes
Handles ==
  /\ \A s \in Family : rt[s].h <= Len(made[s]) /\ (file[s] = "none" => made[s] = <<>>)
  /\ \A l \in holds : l[1] \in Family /\ l[2] \in DOMAIN made[l[1]] /\ l[3] \in Calls
  /\ \A l \in loops : l[1] \in Family /\ l[2] \in DOMAIN made[l[1]]

(* Where each kind of call can be, and what it has there.                  *)
Places(op) ==
  CASE op = "archive" -> {"look", "get", "attach", "family", "lock", "check", "move", "returned"}
    [] op = "restore" -> {"restore", "look", "get", "attach", "restored", "listing", "returned"}
    [] op = "prompt" -> {"look", "get", "attach", "lock", "append", "start", "returned"}
    [] OTHER -> {"ready"}
Nexts(op) ==
  CASE op = "archive" -> {"family", "lock"} [] op = "restore" -> {"restored"}
    [] op = "prompt" -> {"lock"} [] OTHER -> {"none"}
CallFits(r, f, m) ==
  /\ r.at \in Places(r.op) /\ r.then \in Nexts(r.op)
  /\ r.op # "none" => r.of \in Family /\ r.on \in Family /\ f[r.of] # "none" /\ f[r.on] # "none"
  /\ r.at \in {"family", "lock", "check", "move", "restored", "append", "start"} => r.h \in DOMAIN m[r.on]
  /\ \A i \in DOMAIN r.todo : f[r.todo[i]] # "none"
CallsFit == \A c \in Calls : CallFits(calls[c], file, made)

(* No session has two loops, and one that has a loop is running.           *)
LoopFits ==
  /\ \A l \in loops : rt[l[1]].running
  /\ \A l, m \in loops : l[1] = m[1] => l = m
  /\ \A s \in Family : rt[s].h = 0 => ~rt[s].running

(* A restore counts as alone only while no other call archives.            *)
AloneFits ==
  \A c, d \in Calls :
    c # d /\ calls[c].op = "restore" /\ calls[c].alone => calls[d].op # "archive"

(* What is still away of what went with the session a restore was asked    *)
(* for is what the call has left to bring back.                            *)
Away(s, f, l, t) == {d \in Family \ t : f[d] = "archive" /\ l[d].with = s}
BringsBack(r, f, W) ==
  /\ \/ r.at \in {"look", "get", "attach", "restored", "listing"}
     \/ r.at = "restore" /\ r.on # r.of
     \/ r.at = "returned" /\ r.end = "ok"
     => f[r.of] = "active"
  /\ r.at \in {"look", "get", "attach", "restored"} /\ r.on # r.of => W \subseteq Range(r.todo)
  /\ r.at = "restore" /\ r.on # r.of => W \subseteq Range(r.todo) \cup {r.on}
  /\ r.at = "returned" /\ r.end = "ok" => W = {}
RestoreFits == \A c \in Calls : calls[c].op = "restore" /\ calls[c].alone
    => BringsBack(calls[c], file, Away(calls[c].of, file, log, torn))

ArcTypes == Tables /\ Handles /\ calls \in [Calls -> CallRec] /\ CallsFit
ArcInv == ArcTypes /\ LoopFits /\ AloneFits /\ RestoreFits

(* What a step on one call leaves as it was for the others.                *)
Others(c) == \A d \in Calls : d # c => calls'[d] = calls[d]
SameCall(r, q) == q.op = r.op /\ q.of = r.of /\ q.alone = r.alone
Grows ==
  \A s \in Family : (file[s] # "none" => file'[s] # "none") /\ DOMAIN made[s] \subseteq DOMAIN made'[s]
Milder ==
  \A s \in Family : /\ file[s] = "active" => file'[s] = "active"
                    /\ Away(s, file', log', torn') \subseteq Away(s, file, log, torn)

(* A call that goes to another place.                                      *)
LEMMA CallChanges ==
  ASSUME calls \in [Calls -> CallRec], NEW c \in Calls, NEW r \in CallRec,
         calls' = [calls EXCEPT ![c] = r], SameCall(calls[c], r)
  PROVE  /\ calls' \in [Calls -> CallRec] /\ Others(c) /\ SameCall(calls[c], calls'[c])
         /\ calls'[c] = r
BY DEF Others

LEMMA GoesToIs ==
  ASSUME calls \in [Calls -> CallRec], NEW c \in Calls, NEW place \in CallPlaces, GoesTo(c, place)
  PROVE  /\ calls' \in [Calls -> CallRec] /\ Others(c) /\ SameCall(calls[c], calls'[c])
         /\ calls'[c].at = place /\ calls'[c].on = calls[c].on /\ calls'[c].then = calls[c].then
         /\ calls'[c].h = calls[c].h /\ calls'[c].todo = calls[c].todo /\ calls'[c].end = calls[c].end
BY DEF GoesTo, CallRec, Others, SameCall

LEMMA ReturnIs ==
  ASSUME calls \in [Calls -> CallRec], NEW c \in Calls, NEW how \in {"ok", "failed", "refused"}, Return(c, how)
  PROVE  /\ calls' \in [Calls -> CallRec] /\ Others(c) /\ SameCall(calls[c], calls'[c])
         /\ calls'[c].at = "returned" /\ calls'[c].on = calls[c].on /\ calls'[c].then = calls[c].then
         /\ calls'[c].h = calls[c].h /\ calls'[c].todo = calls[c].todo /\ calls'[c].end = how
<1> DEFINE r == [calls[c] EXCEPT !.at = "returned", !.end = how]
<1>1. calls[c] \in CallRec OBVIOUS
<1>2. r \in CallRec /\ SameCall(calls[c], r) BY <1>1 DEF CallRec, CallPlaces, SameCall
<1>3. r.at = "returned" /\ r.on = calls[c].on /\ r.then = calls[c].then /\ r.h = calls[c].h /\ r.todo = calls[c].todo /\ r.end = how BY <1>1 DEF CallRec
<1>4. calls' = [calls EXCEPT ![c] = r] BY DEF Return
<1> HIDE DEF r
<1>q. QED BY <1>2, <1>3, <1>4, CallChanges

LEMMA GoesWithIs ==
  ASSUME calls \in [Calls -> CallRec], NEW c \in Calls, NEW h \in Nat, GoesWith(c, h),
         calls[c].then \in CallPlaces
  PROVE  /\ calls' \in [Calls -> CallRec] /\ Others(c) /\ SameCall(calls[c], calls'[c])
         /\ calls'[c].at = calls[c].then /\ calls'[c].on = calls[c].on /\ calls'[c].then = calls[c].then
         /\ calls'[c].h = h /\ calls'[c].todo = calls[c].todo /\ calls'[c].end = calls[c].end
<1> DEFINE r == [calls[c] EXCEPT !.at = calls[c].then, !.h = h]
<1>1. calls[c] \in CallRec OBVIOUS
<1>2. r \in CallRec /\ SameCall(calls[c], r) BY <1>1 DEF CallRec, CallPlaces, SameCall
<1>3. r.at = calls[c].then /\ r.on = calls[c].on /\ r.then = calls[c].then /\ r.h = h /\ r.todo = calls[c].todo /\ r.end = calls[c].end BY <1>1 DEF CallRec
<1>4. calls' = [calls EXCEPT ![c] = r] BY DEF GoesWith
<1> HIDE DEF r
<1>q. QED BY <1>2, <1>3, <1>4, CallChanges

LEMMA AttachesIs ==
  ASSUME calls \in [Calls -> CallRec], NEW c \in Calls, NEW o \in Nat, Attaches(c, o)
  PROVE  /\ calls' \in [Calls -> CallRec] /\ Others(c) /\ SameCall(calls[c], calls'[c])
         /\ calls'[c].at = "attach" /\ calls'[c].on = calls[c].on /\ calls'[c].then = calls[c].then
         /\ calls'[c].h = calls[c].h /\ calls'[c].todo = calls[c].todo /\ calls'[c].end = calls[c].end
<1> DEFINE r == [calls[c] EXCEPT !.at = "attach", !.object = o]
<1>1. calls[c] \in CallRec OBVIOUS
<1>2. r \in CallRec /\ SameCall(calls[c], r) BY <1>1 DEF CallRec, CallPlaces, SameCall
<1>3. r.at = "attach" /\ r.on = calls[c].on /\ r.then = calls[c].then /\ r.h = calls[c].h /\ r.todo = calls[c].todo /\ r.end = calls[c].end BY <1>1 DEF CallRec
<1>4. calls' = [calls EXCEPT ![c] = r] BY DEF Attaches
<1> HIDE DEF r
<1>q. QED BY <1>2, <1>3, <1>4, CallChanges

(* What a list has, and what is left of it.                                *)
LEMMA HeadAndTail ==
  ASSUME NEW S, NEW q \in Seq(S), q # <<>>
  PROVE  /\ Head(q) \in S /\ Tail(q) \in Seq(S)
         /\ \A e \in Range(q) : e = Head(q) \/ e \in Range(Tail(q))
         /\ Head(q) = q[1] /\ 1 \in DOMAIN q
         /\ \A i \in DOMAIN Tail(q) : i + 1 \in DOMAIN q /\ Tail(q)[i] = q[i + 1]
<1>1. /\ Head(q) \in S /\ Tail(q) \in Seq(S) /\ Head(q) = q[1] /\ 1 \in DOMAIN q OBVIOUS
<1>2. \A i \in DOMAIN Tail(q) : i + 1 \in DOMAIN q /\ Tail(q)[i] = q[i + 1] OBVIOUS
<1>3. ASSUME NEW e \in Range(q) PROVE e = Head(q) \/ e \in Range(Tail(q))
  <2>1. PICK i \in 1 .. Len(q) : q[i] = e BY DEF Range
  <2>2. CASE i = 1 BY <2>1, <2>2, <1>1
  <2>3. CASE i # 1
    <3>1. i - 1 \in 1 .. Len(Tail(q)) /\ DOMAIN Tail(q) = 1 .. Len(Tail(q)) BY <2>3
    <3>2. Tail(q)[i - 1] = e BY <3>1, <2>1
    <3>3. QED BY <3>1, <3>2 DEF Range
  <2>q. QED BY <2>2, <2>3
<1>q. QED BY <1>1, <1>2, <1>3

(* A call goes on to the first that is left, or ends.                      *)
LEMMA OnwardIs ==
  ASSUME calls \in [Calls -> CallRec], NEW c \in Calls, NEW todo \in Seq(Family), Onward(c, todo),
         calls[c].op \in {"archive", "restore"}
  PROVE  /\ calls' \in [Calls -> CallRec] /\ Others(c) /\ SameCall(calls[c], calls'[c])
         /\ todo = <<>> => /\ calls'[c].at = "returned" /\ calls'[c].end = "ok"
                          /\ calls'[c].on = calls[c].on /\ calls'[c].todo = calls[c].todo
                          /\ calls'[c].then = calls[c].then
         /\ todo # <<>> => /\ calls'[c].at = (IF calls[c].op = "archive" THEN "look" ELSE "restore")
                          /\ calls'[c].then = (IF calls[c].op = "archive" THEN "lock" ELSE "restored")
                          /\ calls'[c].on = Head(todo) /\ calls'[c].todo = Tail(todo)
<1>1. CASE todo = <<>>
  <2>1. Return(c, "ok") BY <1>1 DEF Onward
  <2>2. QED BY <1>1, <2>1, ReturnIs
<1>2. CASE todo # <<>>
  <2>1. Head(todo) \in Family /\ Tail(todo) \in Seq(Family) BY <1>2, HeadAndTail
  <2> DEFINE a == IF calls[c].op = "archive" THEN "look" ELSE "restore"
             t == IF calls[c].op = "archive" THEN "lock" ELSE "restored"
             o == Head(todo)
             u == Tail(todo)
             r == [calls[c] EXCEPT !.at = a, !.on = o, !.todo = u, !.then = t]
  <2>2. calls' = [calls EXCEPT ![c] = r]
    BY <1>2 DEF Onward
  <2>3. a \in CallPlaces /\ t \in {"none", "family", "lock", "restored"} /\ o \in Family /\ u \in Seq(Family)
    BY <2>1 DEF CallPlaces
  <2> HIDE DEF a, t, o, u
  <2>6. calls[c] \in CallRec OBVIOUS
  <2>7. r \in CallRec /\ SameCall(calls[c], r) BY <2>3, <2>6 DEF CallRec, SameCall
  <2>8. r.at = a /\ r.then = t /\ r.on = o /\ r.todo = u BY <2>6 DEF CallRec
  <2> HIDE DEF r
  <2>4. /\ calls' \in [Calls -> CallRec] /\ Others(c) /\ SameCall(calls[c], calls'[c])
        /\ calls'[c].at = a /\ calls'[c].then = t /\ calls'[c].on = o /\ calls'[c].todo = u
    BY <2>2, <2>7, <2>8, CallChanges
  <2>5. QED BY <1>2, <2>4 DEF a, t, o, u
<1>q. QED BY <1>1, <1>2

(* What a call has stays in order as the tables grow.                      *)
LEMMA CallStillFits ==
  ASSUME NEW r \in CallRec, NEW f, NEW m, NEW f2, NEW m2, CallFits(r, f, m),
         \A s \in Family : (f[s] # "none" => f2[s] # "none") /\ DOMAIN m[s] \subseteq DOMAIN m2[s]
  PROVE  CallFits(r, f2, m2)
<1>1. /\ r.at \in Places(r.op) /\ r.then \in Nexts(r.op)
      /\ r.op # "none" => r.of \in Family /\ r.on \in Family /\ f[r.of] # "none" /\ f[r.on] # "none"
      /\ r.at \in {"family", "lock", "check", "move", "restored", "append", "start"} => r.h \in DOMAIN m[r.on]
      /\ \A i \in DOMAIN r.todo : f[r.todo[i]] # "none"
  BY DEF CallFits
<1>2. r.op # "none" => f2[r.of] # "none" /\ f2[r.on] # "none" BY <1>1
<1>3. \A i \in DOMAIN r.todo : r.todo[i] \in Family BY DEF CallRec
<1>4. \A i \in DOMAIN r.todo : f2[r.todo[i]] # "none" BY <1>1, <1>3
<1>5. r.at \in {"family", "lock", "check", "move", "restored", "append", "start"} => r.op # "none"
  BY <1>1 DEF Places
<1>6. r.at \in {"family", "lock", "check", "move", "restored", "append", "start"} => r.h \in DOMAIN m2[r.on]
  BY <1>1, <1>5
<1>q. QED BY <1>1, <1>2, <1>4, <1>6 DEF CallFits

LEMMA StillBringsBack ==
  ASSUME NEW r, NEW f, NEW W, NEW f2, NEW W2, BringsBack(r, f, W),
         f[r.of] = "active" => f2[r.of] = "active", W2 \subseteq W
  PROVE  BringsBack(r, f2, W2)
BY DEF BringsBack

(* A step of one call keeps what the others rely on.                       *)
LEMMA CallStep ==
  ASSUME ArcInv, NEW c \in Calls, calls' \in [Calls -> CallRec], Others(c), SameCall(calls[c], calls'[c]),
         Grows, Milder \/ calls[c].op = "archive", CallFits(calls'[c], file', made'),
         calls'[c].op = "restore" /\ calls'[c].alone
           => BringsBack(calls'[c], file', Away(calls'[c].of, file', log', torn'))
  PROVE  CallsFit' /\ AloneFits' /\ RestoreFits'
<1>0. /\ calls \in [Calls -> CallRec] /\ CallsFit /\ AloneFits /\ RestoreFits BY DEF ArcInv, ArcTypes
<1>1. ASSUME NEW d \in Calls PROVE CallFits(calls'[d], file', made')
  <2>1. CASE d = c BY <2>1
  <2>2. CASE d # c
    <3>1. calls'[d] = calls[d] /\ calls[d] \in CallRec /\ CallFits(calls[d], file, made)
      BY <2>2, <1>0 DEF Others, CallsFit
    <3>2. \A s \in Family : (file[s] # "none" => file'[s] # "none") /\ DOMAIN made[s] \subseteq DOMAIN made'[s]
      BY DEF Grows
    <3>3. QED BY <3>1, <3>2, CallStillFits
  <2>q. QED BY <2>1, <2>2
<1>2. \A d \in Calls : calls'[d].op = calls[d].op /\ calls'[d].of = calls[d].of /\ calls'[d].alone = calls[d].alone
  BY DEF Others, SameCall
<1>3. AloneFits' BY <1>0, <1>2 DEF AloneFits
<1>4. ASSUME NEW d \in Calls, calls'[d].op = "restore", calls'[d].alone
      PROVE  BringsBack(calls'[d], file', Away(calls'[d].of, file', log', torn'))
  <2>1. CASE d = c BY <2>1, <1>4
  <2>2. CASE d # c
    <3>1. calls[d].op = "restore" /\ calls[d].alone BY <1>2, <1>4
    <3>2. calls[c].op # "archive" BY <3>1, <2>2, <1>0 DEF AloneFits
    <3>3. Milder BY <3>2
    <3>4. calls'[d] = calls[d] /\ calls[d].of \in Family BY <2>2, <3>1, <1>0 DEF Others, CallsFit, CallFits
    <3>5. BringsBack(calls[d], file, Away(calls[d].of, file, log, torn)) BY <3>1, <1>0 DEF RestoreFits
    <3>6. /\ file[calls[d].of] = "active" => file'[calls[d].of] = "active"
          /\ Away(calls[d].of, file', log', torn') \subseteq Away(calls[d].of, file, log, torn)
      BY <3>3, <3>4 DEF Milder
    <3>7. QED BY <3>4, <3>5, <3>6, StillBringsBack
  <2>q. QED BY <2>1, <2>2
<1>q. QED BY <1>1, <1>3, <1>4 DEF CallsFit, RestoreFits

LEMMA ArcStep ==
  ASSUME ArcInv, NEW c \in Calls, calls' \in [Calls -> CallRec], Others(c), SameCall(calls[c], calls'[c]),
         Grows, Milder \/ calls[c].op = "archive", CallFits(calls'[c], file', made'),
         calls'[c].op = "restore" /\ calls'[c].alone
           => BringsBack(calls'[c], file', Away(calls'[c].of, file', log', torn')),
         Tables', Handles', LoopFits'
  PROVE  ArcInv'
BY CallStep DEF ArcInv, ArcTypes

(* What is known of a call by the place it is at.                          *)
LEMMA CallIs ==
  ASSUME ArcInv, NEW c \in Calls, calls[c].at # "ready"
  PROVE  /\ calls[c] \in CallRec /\ CallFits(calls[c], file, made)
         /\ calls[c].of \in Family /\ calls[c].on \in Family
         /\ file[calls[c].of] # "none" /\ file[calls[c].on] # "none"
         /\ calls[c].op \in {"archive", "restore", "prompt"}
         /\ calls[c].then \in CallPlaces /\ calls[c].then \in Nexts(calls[c].op) /\ calls[c].then \in Places(calls[c].op)
         /\ calls[c].at \in {"restore", "restored", "listing"} => calls[c].op = "restore"
         /\ calls[c].at \in {"family", "check", "move"} => calls[c].op = "archive"
         /\ calls[c].at \in {"append", "start"} => calls[c].op = "prompt"
         /\ calls[c].at = "lock" => calls[c].op # "restore"
         /\ calls[c].at \in {"family", "lock", "check", "move", "restored", "append", "start"}
              => calls[c].h \in DOMAIN made[calls[c].on]
<1>1. calls[c] \in CallRec /\ CallFits(calls[c], file, made) BY DEF ArcInv, ArcTypes, CallsFit
<1>2. calls[c].at \in Places(calls[c].op) /\ calls[c].then \in Nexts(calls[c].op) BY <1>1 DEF CallFits
<1>3. calls[c].op \in {"none", "archive", "restore", "prompt"} BY <1>1 DEF CallRec
<1>4. calls[c].op # "none" BY <1>2 DEF Places
<1>5. calls[c].then \in CallPlaces /\ calls[c].then \in Places(calls[c].op)
  BY <1>2, <1>3, <1>4 DEF Nexts, Places, CallPlaces
<1>6. /\ calls[c].at \in {"restore", "restored", "listing"} => calls[c].op = "restore"
      /\ calls[c].at \in {"family", "check", "move"} => calls[c].op = "archive"
      /\ calls[c].at \in {"append", "start"} => calls[c].op = "prompt"
      /\ calls[c].at = "lock" => calls[c].op # "restore"
  BY <1>2, <1>3, <1>4 DEF Places
<1>q. QED BY <1>1, <1>2, <1>3, <1>4, <1>5, <1>6 DEF CallFits

LEMMA TablesAre ==
  ASSUME ArcInv
  PROVE  /\ Tables /\ Handles /\ LoopFits /\ calls \in [Calls -> CallRec]
         /\ \A s \in Family : /\ rt[s].h \in Nat /\ Len(made[s]) \in Nat /\ DOMAIN made[s] = 1 .. Len(made[s])
                              /\ made[s] \in Seq(Nat) /\ loads[s] \in Nat
                              /\ rt[s].h # 0 => rt[s].h \in DOMAIN made[s]
                              /\ file[s] = "none" => made[s] = <<>>
<1>1. Tables /\ Handles /\ LoopFits /\ calls \in [Calls -> CallRec] BY DEF ArcInv, ArcTypes
<1>2. ASSUME NEW s \in Family
      PROVE  /\ rt[s].h \in Nat /\ Len(made[s]) \in Nat /\ DOMAIN made[s] = 1 .. Len(made[s])
             /\ made[s] \in Seq(Nat) /\ loads[s] \in Nat /\ rt[s].h <= Len(made[s])
             /\ file[s] = "none" => made[s] = <<>>
  BY <1>1 DEF Tables, Handles
<1>q. QED BY <1>1, <1>2

(* A call that has a handle goes on with it.                               *)
LEMMA TakesHandle ==
  ASSUME NEW r \in CallRec, NEW q \in CallRec, NEW f, NEW m, CallFits(r, f, m), r.at \in {"look", "get", "attach"},
         SameCall(r, q), q.at = r.then, q.on = r.on, q.then = r.then, q.todo = r.todo, q.h \in DOMAIN m[r.on]
  PROVE  /\ CallFits(q, f, m)
         /\ \A W : r.op = "restore" /\ BringsBack(r, f, W) => BringsBack(q, f, W)
<1>1. r.op # "none" /\ r.op \in {"archive", "restore", "prompt"} BY DEF CallFits, Places, CallRec
<1>2. q.at \in Places(q.op) /\ q.then \in Nexts(q.op) BY <1>1 DEF CallFits, Nexts, Places, SameCall
<1>3. CallFits(q, f, m) BY <1>1, <1>2 DEF CallFits, SameCall
<1>4. ASSUME NEW W, r.op = "restore", BringsBack(r, f, W) PROVE BringsBack(q, f, W)
  <2>1. q.at = "restored" BY <1>4 DEF CallFits, Nexts
  <2>2. QED BY <1>4, <2>1 DEF BringsBack, SameCall
<1>q. QED BY <1>3, <1>4

(* A call goes to another place, with what it has.                         *)
LEMMA ToPlace ==
  ASSUME NEW r \in CallRec, NEW q \in CallRec, NEW f, NEW m, CallFits(r, f, m), r.op # "none",
         SameCall(r, q), q.at \in Places(r.op), q.on = r.on, q.then = r.then, q.todo = r.todo, q.h = r.h,
         q.at \in {"family", "lock", "check", "move", "restored", "append", "start"} => r.h \in DOMAIN m[r.on]
  PROVE  CallFits(q, f, m)
BY DEF CallFits, SameCall

LEMMA NothingElse ==
  ASSUME NEW r, NEW q, NEW f, NEW W, SameCall(r, q), BringsBack(r, f, W),
         \/ q.at = "returned" /\ q.end # "ok"
         \/ q.at \in {"look", "get", "attach", "restored"} /\ r.at \in {"look", "get", "attach", "restored"}
            /\ q.on = r.on /\ q.todo = r.todo
  PROVE  BringsBack(q, f, W)
BY DEF BringsBack, SameCall

LEMMA LookStep == ASSUME ArcInv, NEW c \in Calls, Look(c) PROVE ArcInv'
<1> DEFINE r == calls[c]
           q == calls'[c]
<1>1. /\ At(c, "look") /\ UNCHANGED <<file, log, torn, loads, open, made, rt, holds, loops, ops, crashes>>
      /\ rt[calls[c].on].h # 0 => GoesWith(c, rt[calls[c].on].h)
      /\ rt[calls[c].on].h = 0 => GoesTo(c, "get")
  BY DEF Look
<1>2. r.at = "look" BY <1>1 DEF At
<1>3. /\ r \in CallRec /\ CallFits(r, file, made) /\ r.on \in Family /\ r.then \in CallPlaces
      /\ r.op \in {"archive", "restore", "prompt"}
  BY <1>2, CallIs
<1>4. /\ Tables /\ Handles /\ LoopFits /\ calls \in [Calls -> CallRec]
      /\ rt[r.on].h \in Nat /\ (rt[r.on].h # 0 => rt[r.on].h \in DOMAIN made[r.on])
  BY <1>3, TablesAre
<1>5. Tables' /\ Handles' /\ LoopFits' BY <1>1, <1>4 DEF Tables, Handles, LoopFits
<1>6. Grows /\ Milder BY <1>1 DEF Grows, Milder
<1>7. r.op = "restore" /\ r.alone => BringsBack(r, file, Away(r.of, file, log, torn))
  BY DEF ArcInv, RestoreFits
<1>8. /\ calls' \in [Calls -> CallRec] /\ Others(c) /\ SameCall(r, q) /\ CallFits(q, file, made)
      /\ r.op = "restore" /\ r.alone => BringsBack(q, file, Away(r.of, file, log, torn))
  <2>1. CASE rt[r.on].h # 0
    <3>1. /\ calls' \in [Calls -> CallRec] /\ Others(c) /\ SameCall(r, q) /\ q.at = r.then /\ q.on = r.on
          /\ q.then = r.then /\ q.h = rt[r.on].h /\ q.todo = r.todo
      BY <2>1, <1>1, <1>3, <1>4, GoesWithIs
    <3>2. q \in CallRec BY <3>1
    <3> HIDE DEF r, q
    <3>3. QED BY <2>1, <1>2, <1>3, <1>4, <1>7, <3>1, <3>2, TakesHandle
  <2>2. CASE rt[r.on].h = 0
    <3>1. /\ calls' \in [Calls -> CallRec] /\ Others(c) /\ SameCall(r, q) /\ q.at = "get" /\ q.on = r.on
          /\ q.then = r.then /\ q.h = r.h /\ q.todo = r.todo
      BY <2>2, <1>1, <1>4, GoesToIs DEF CallPlaces
    <3>2. q \in CallRec /\ "get" \in Places(r.op) BY <3>1, <1>3 DEF Places
    <3> HIDE DEF r, q
    <3>3. CallFits(q, file, made) BY <3>1, <3>2, <1>3, ToPlace
    <3>4. r.op = "restore" /\ r.alone => BringsBack(q, file, Away(r.of, file, log, torn))
      BY <3>1, <1>2, <1>7, NothingElse
    <3>q. QED BY <3>1, <3>3, <3>4
  <2>q. QED BY <2>1, <2>2, <1>4
<1>9. q.op = r.op /\ q.of = r.of /\ q.alone = r.alone BY <1>8 DEF SameCall
<1>10. /\ CallFits(q, file', made')
       /\ q.op = "restore" /\ q.alone => BringsBack(q, file', Away(q.of, file', log', torn'))
  BY <1>1, <1>8, <1>9
<1>q. QED BY <1>5, <1>6, <1>8, <1>10, ArcStep

LEMMA GetStep == ASSUME ArcInv, NEW c \in Calls, Get(c) PROVE ArcInv'
<1> DEFINE r == calls[c]
           q == calls'[c]
<1>1. /\ At(c, "get") /\ UNCHANGED <<file, log, torn, made, rt, holds, loops, ops, crashes>>
      /\ \/ Return(c, "failed") /\ UNCHANGED <<loads, open>>
         \/ Attaches(c, loads[r.on]) /\ UNCHANGED <<loads, open>>
         \/ /\ Attaches(c, loads[r.on] + 1)
            /\ loads' = [loads EXCEPT ![r.on] = @ + 1] /\ open' = [open EXCEPT ![r.on] = TRUE]
  BY DEF Get
<1>2. r.at = "get" BY <1>1 DEF At
<1>3. /\ r \in CallRec /\ CallFits(r, file, made) /\ r.on \in Family
      /\ r.op \in {"archive", "restore", "prompt"}
  BY <1>2, CallIs
<1>4. /\ Tables /\ Handles /\ LoopFits /\ calls \in [Calls -> CallRec] /\ loads[r.on] \in Nat
  BY <1>3, TablesAre
<1>5. Tables' /\ Handles' /\ LoopFits'
  <2>0. loads \in [Family -> Nat] /\ open \in [Family -> BOOLEAN] /\ loads[r.on] + 1 \in Nat BY <1>4 DEF Tables
  <2> HIDE DEF r, q
  <2>3. loads' \in [Family -> Nat] BY <2>0, <1>1
  <2>4. open' \in [Family -> BOOLEAN] BY <2>0, <1>1
  <2>1. loads' \in [Family -> Nat] /\ open' \in [Family -> BOOLEAN] BY <2>3, <2>4
  <2>2. QED BY <2>1, <1>1, <1>4 DEF Tables, Handles, LoopFits
<1>6. Grows /\ Milder BY <1>1 DEF Grows, Milder
<1>7. r.op = "restore" /\ r.alone => BringsBack(r, file, Away(r.of, file, log, torn))
  BY DEF ArcInv, RestoreFits
<1>8. /\ calls' \in [Calls -> CallRec] /\ Others(c) /\ SameCall(r, q) /\ q.on = r.on
      /\ q.then = r.then /\ q.h = r.h /\ q.todo = r.todo
      /\ (q.at = "returned" /\ q.end = "failed") \/ q.at = "attach"
  <2>1. CASE Return(c, "failed") BY <2>1, <1>4, ReturnIs
  <2>2. CASE Attaches(c, loads[r.on]) BY <2>2, <1>4, AttachesIs
  <2>3. CASE Attaches(c, loads[r.on] + 1)
    <3>1. loads[r.on] + 1 \in Nat BY <1>4
    <3>2. QED BY <2>3, <3>1, <1>4, AttachesIs
  <2>q. QED BY <2>1, <2>2, <2>3, <1>1
<1>9. q \in CallRec /\ q.at \in Places(r.op) BY <1>8, <1>3 DEF Places
<1>10. /\ CallFits(q, file, made)
       /\ r.op = "restore" /\ r.alone => BringsBack(q, file, Away(r.of, file, log, torn))
  <2> HIDE DEF r, q
  <2>1. CallFits(q, file, made) BY <1>3, <1>8, <1>9, ToPlace
  <2>2. r.op = "restore" /\ r.alone => BringsBack(q, file, Away(r.of, file, log, torn))
    BY <1>2, <1>7, <1>8, NothingElse
  <2>q. QED BY <2>1, <2>2
<1>11. q.op = r.op /\ q.of = r.of /\ q.alone = r.alone BY <1>8 DEF SameCall
<1>12. /\ CallFits(q, file', made')
       /\ q.op = "restore" /\ q.alone => BringsBack(q, file', Away(q.of, file', log', torn'))
  BY <1>1, <1>10, <1>11
<1>q. QED BY <1>5, <1>6, <1>8, <1>12, ArcStep

LEMMA AttachStep == ASSUME ArcInv, NEW c \in Calls, Attach(c) PROVE ArcInv'
<1> DEFINE r == calls[c]
           q == calls'[c]
           n == Len(made[r.on]) + 1
<1>1. /\ At(c, "attach") /\ UNCHANGED <<file, log, torn, loads, open, holds, loops, ops, crashes>>
      /\ \/ rt[r.on].h # 0 /\ GoesWith(c, rt[r.on].h) /\ UNCHANGED <<made, rt>>
         \/ /\ rt[r.on].h = 0 /\ made' = [made EXCEPT ![r.on] = Append(@, r.object)]
            /\ rt' = [rt EXCEPT ![r.on] = [h |-> n, running |-> FALSE]] /\ GoesWith(c, n)
  BY DEF Attach
<1>2. r.at = "attach" BY <1>1 DEF At
<1>3. /\ r \in CallRec /\ CallFits(r, file, made) /\ r.on \in Family /\ r.then \in CallPlaces
      /\ r.op \in {"archive", "restore", "prompt"} /\ file[r.on] # "none"
  BY <1>2, CallIs
<1>4. /\ Tables /\ Handles /\ LoopFits /\ calls \in [Calls -> CallRec]
      /\ rt[r.on].h \in Nat /\ (rt[r.on].h # 0 => rt[r.on].h \in DOMAIN made[r.on])
      /\ made[r.on] \in Seq(Nat) /\ n \in Nat /\ r.object \in Nat
  BY <1>3, TablesAre DEF CallRec
<1>5. /\ Tables' /\ Handles' /\ Grows
      /\ \A s \in Family : DOMAIN made[s] \subseteq DOMAIN made'[s]
      /\ \E h \in Nat : GoesWith(c, h) /\ h \in DOMAIN made'[r.on]
  <2>1. CASE rt[r.on].h # 0 /\ GoesWith(c, rt[r.on].h) /\ UNCHANGED <<made, rt>>
    BY <2>1, <1>1, <1>4 DEF Tables, Handles, Grows
  <2>2. CASE /\ rt[r.on].h = 0 /\ made' = [made EXCEPT ![r.on] = Append(@, r.object)]
             /\ rt' = [rt EXCEPT ![r.on] = [h |-> n, running |-> FALSE]] /\ GoesWith(c, n)
    <3>1. Append(made[r.on], r.object) \in Seq(Nat) /\ Len(Append(made[r.on], r.object)) = n BY <1>4
    <3>2. made' \in [Family -> Seq(Nat)] /\ rt' \in [Family -> [h : Nat, running : BOOLEAN]]
      BY <2>2, <3>1, <1>4 DEF Tables
    <3>3. made'[r.on] = Append(made[r.on], r.object) /\ rt'[r.on].h = n
      BY <2>2, <1>3, <1>4 DEF Tables
    <3>4. \A s \in Family : s # r.on => made'[s] = made[s] /\ rt'[s] = rt[s] BY <2>2, <1>4 DEF Tables
    <3>5. n \in DOMAIN made'[r.on] /\ DOMAIN made[r.on] \subseteq DOMAIN made'[r.on] /\ Len(made'[r.on]) = n
      BY <3>1, <3>3, <1>4
    <3>6. \A s \in Family : DOMAIN made[s] \subseteq DOMAIN made'[s] BY <3>4, <3>5
    <3>7. Tables' BY <3>2, <1>1, <1>4 DEF Tables
    <3>8. \A s \in Family : rt'[s].h <= Len(made'[s]) /\ (file'[s] = "none" => made'[s] = <<>>)
      BY <3>3, <3>4, <3>5, <1>1, <1>3, <1>4 DEF Handles
    <3>9. Handles' BY <3>6, <3>8, <1>1, <1>4 DEF Handles
    <3>q. QED BY <3>5, <3>6, <3>7, <3>9, <2>2, <1>1, <1>4 DEF Grows
  <2>q. QED BY <2>1, <2>2, <1>1
<1>6. Milder BY <1>1 DEF Milder
<1>16. LoopFits'
  <2>1. CASE UNCHANGED rt BY <2>1, <1>1, <1>4 DEF LoopFits
  <2>2. CASE rt' = [rt EXCEPT ![r.on] = [h |-> n, running |-> FALSE]] /\ rt[r.on].h = 0
    <3>1. \A l \in loops : l[1] # r.on BY <2>2, <1>3, <1>4 DEF LoopFits
    <3>2. \A l \in loops : l[1] \in Family BY <1>4 DEF Handles
    <3>3. \A s \in Family : s # r.on => rt'[s] = rt[s] BY <2>2, <1>4 DEF Tables
    <3>5. rt'[r.on].h # 0 BY <2>2, <1>3, <1>4 DEF Tables
    <3>4. QED BY <3>1, <3>2, <3>3, <3>5, <1>1, <1>4 DEF LoopFits
  <2>q. QED BY <2>1, <2>2, <1>1
<1>7. r.op = "restore" /\ r.alone => BringsBack(r, file, Away(r.of, file, log, torn))
  BY DEF ArcInv, RestoreFits
<1>8. PICK h \in Nat : GoesWith(c, h) /\ h \in DOMAIN made'[r.on] BY <1>5
<1>9. /\ calls' \in [Calls -> CallRec] /\ Others(c) /\ SameCall(r, q) /\ q.at = r.then /\ q.on = r.on
      /\ q.then = r.then /\ q.h = h /\ q.todo = r.todo
  BY <1>8, <1>3, <1>4, GoesWithIs
<1>10. q \in CallRec BY <1>9
<1>11. /\ CallFits(q, file, made')
       /\ r.op = "restore" /\ r.alone => BringsBack(q, file, Away(r.of, file, log, torn))
  <2> HIDE DEF r, q
  <2>1. CallFits(r, file, made') BY <1>3, <1>5, CallStillFits
  <2>2. QED BY <2>1, <1>2, <1>3, <1>7, <1>8, <1>9, <1>10, TakesHandle
<1>12. q.op = r.op /\ q.of = r.of /\ q.alone = r.alone BY <1>9 DEF SameCall
<1>13. /\ CallFits(q, file', made')
       /\ q.op = "restore" /\ q.alone => BringsBack(q, file', Away(q.of, file', log', torn'))
  BY <1>1, <1>11, <1>12
<1>q. QED BY <1>5, <1>6, <1>16, <1>9, <1>13, ArcStep

(* A step of a call that is no restore and stays where a prompt or an      *)
(* archive may be.                                                         *)
LEMMA OtherCallStep ==
  ASSUME ArcInv, NEW c \in Calls, calls[c].op \in {"archive", "prompt"}, NEW place \in CallPlaces,
         place \in Places(calls[c].op),
         place \in {"family", "lock", "check", "move", "restored", "append", "start"}
           => calls[c].h \in DOMAIN made[calls[c].on],
         GoesTo(c, place) \/ (place = "returned" /\ \E how \in {"ok", "failed", "refused"} : Return(c, how)),
         UNCHANGED <<file, torn, made>>,
         calls[c].op = "archive" \/ \A s \in Family : log'[s].with \in {log[s].with, None},
         Tables', Handles', LoopFits'
  PROVE  ArcInv'
<1> DEFINE r == calls[c]
           q == calls'[c]
<1>1. calls \in [Calls -> CallRec] /\ r \in CallRec /\ CallFits(r, file, made)
  BY DEF ArcInv, ArcTypes, CallsFit
<1>2. /\ calls' \in [Calls -> CallRec] /\ Others(c) /\ SameCall(r, q) /\ q.at = place /\ q.on = r.on
      /\ q.then = r.then /\ q.h = r.h /\ q.todo = r.todo
  BY <1>1, GoesToIs, ReturnIs
<1>3. q \in CallRec BY <1>2
<1>4. CallFits(q, file, made)
  <2>1. r.op # "none" OBVIOUS
  <2> HIDE DEF r, q
  <2>2. QED BY <2>1, <1>1, <1>2, <1>3, ToPlace DEF r
<1>5. q.op # "restore" BY <1>2 DEF SameCall
<1>6. Grows BY DEF Grows
<1>7. Milder \/ r.op = "archive" BY ArchiveAssumption DEF Milder, Away
<1>q. QED BY <1>2, <1>4, <1>5, <1>6, <1>7, ArcStep

LEMMA LockStep == ASSUME ArcInv, NEW c \in Calls, Lock(c) PROVE ArcInv'
<1> DEFINE r == calls[c]
           place == IF r.op = "archive" THEN "check" ELSE "append"
           k == <<r.on, r.h, c>>
<1>1. /\ At(c, "lock") /\ UNCHANGED <<file, log, torn, loads, open, made, rt, loops, ops, crashes>>
      /\ holds' = holds \cup {k} /\ GoesTo(c, place)
  BY DEF Lock
<1>2. r.at = "lock" BY <1>1 DEF At
<1>3. r.op \in {"archive", "prompt"} /\ r.h \in DOMAIN made[r.on] /\ r.on \in Family BY <1>2, CallIs
<1>4. Tables /\ Handles /\ LoopFits BY TablesAre
<1>5. place \in CallPlaces /\ place \in Places(r.op) BY <1>3 DEF CallPlaces, Places
<1>6. Tables' /\ LoopFits' BY <1>1, <1>4 DEF Tables, LoopFits
<1>7. k[1] \in Family /\ k[2] \in DOMAIN made[k[1]] /\ k[3] \in Calls BY <1>3
<1>8. Handles' BY <1>1, <1>4, <1>7 DEF Handles
<1>9. \A s \in Family : log'[s].with \in {log[s].with, None} BY <1>1
<1> HIDE DEF place
<1>q. QED BY <1>1, <1>3, <1>5, <1>6, <1>8, <1>9, OtherCallStep

(* An event of a session, as far as it is kept here.                       *)
LEMMA LogsTyped ==
  ASSUME Tables, NEW s \in Family, NEW e \in [state : {"idle", "running", "paused"}, with : Family \cup {None}],
         log' = [log EXCEPT ![s] = e]
  PROVE  /\ log' \in [Family -> [state : {"idle", "running", "paused"}, with : Family \cup {None}]]
         /\ log'[s] = e /\ \A d \in Family : d # s => log'[d] = log[d]
BY DEF Tables

LEMMA WithTyped ==
  ASSUME Tables, NEW s \in Family, NEW w \in Family \cup {None}, log' = [log EXCEPT ![s].with = w]
  PROVE  /\ log' \in [Family -> [state : {"idle", "running", "paused"}, with : Family \cup {None}]]
         /\ log'[s].with = w /\ \A d \in Family : d # s => log'[d] = log[d]
<1> DEFINE e == [log[s] EXCEPT !.with = w]
<1>1. log[s] \in [state : {"idle", "running", "paused"}, with : Family \cup {None}] BY DEF Tables
<1>2. e \in [state : {"idle", "running", "paused"}, with : Family \cup {None}] /\ e.with = w BY <1>1
<1>3. log' = [log EXCEPT ![s] = e] OBVIOUS
<1> HIDE DEF e
<1>q. QED BY <1>2, <1>3, LogsTyped

LEMMA UnlockIs ==
  ASSUME Handles, NEW c \in Calls, Unlock(c) \/ UNCHANGED holds, UNCHANGED made
  PROVE  \A l \in holds' : l[1] \in Family /\ l[2] \in DOMAIN made'[l[1]] /\ l[3] \in Calls
BY DEF Handles, Unlock

LEMMA CheckStep == ASSUME ArcInv, NEW c \in Calls, ArchiveCheck(c) PROVE ArcInv'
<1> DEFINE r == calls[c]
           took == IF r.on = r.of THEN None ELSE r.of
<1>1. /\ At(c, "check") /\ UNCHANGED <<file, torn, loads, open, made, loops, ops, crashes>>
      /\ Unlock(c) \/ UNCHANGED holds
      /\ \/ (\E how \in {"ok", "failed", "refused"} : Return(c, how)) /\ UNCHANGED <<log, rt>>
         \/ /\ ~rt[r.on].running /\ log' = [log EXCEPT ![r.on].with = took]
            /\ rt' = [rt EXCEPT ![r.on] = NoRun] /\ GoesTo(c, "move")
  BY DEF ArchiveCheck
<1>2. r.at = "check" BY <1>1 DEF At
<1>3. r.op = "archive" /\ r.h \in DOMAIN made[r.on] /\ r.on \in Family /\ r.of \in Family BY <1>2, CallIs
<1>4. Tables /\ Handles /\ LoopFits BY TablesAre
<1>5. Tables' /\ Handles' /\ LoopFits'
  <2>1. CASE UNCHANGED <<log, rt>>
    BY <2>1, <1>1, <1>4, UnlockIs DEF Tables, Handles, LoopFits
  <2>2. CASE /\ ~rt[r.on].running /\ log' = [log EXCEPT ![r.on].with = took] /\ rt' = [rt EXCEPT ![r.on] = NoRun]
    <3>1. took \in Family \cup {None} BY <1>3
    <3>2. log' \in [Family -> [state : {"idle", "running", "paused"}, with : Family \cup {None}]]
      BY <2>2, <3>1, <1>3, <1>4, WithTyped
    <3>3. /\ rt' \in [Family -> [h : Nat, running : BOOLEAN]] /\ rt'[r.on].h = 0 /\ ~rt'[r.on].running
          /\ \A s \in Family : s # r.on => rt'[s] = rt[s]
      BY <2>2, <1>3, <1>4 DEF Tables, NoRun
    <3>4. Tables' BY <3>2, <3>3, <1>1, <1>4 DEF Tables
    <3>5. \A s \in Family : Len(made[s]) \in Nat BY TablesAre
    <3>6. \A s \in Family : rt'[s].h <= Len(made'[s]) BY <3>3, <3>5, <1>1, <1>4 DEF Handles
    <3>7. Handles' BY <3>6, <1>1, <1>4, UnlockIs DEF Handles
    <3>8. \A l \in loops : l[1] \in Family /\ l[1] # r.on BY <2>2, <1>4 DEF LoopFits, Handles
    <3>9. LoopFits' BY <3>3, <3>8, <1>1, <1>4 DEF LoopFits
    <3>q. QED BY <3>4, <3>7, <3>9
  <2>q. QED BY <2>1, <2>2, <1>1
<1>6. {"returned", "move"} \subseteq CallPlaces \cap Places(r.op) BY <1>3 DEF CallPlaces, Places
<1>7. CASE \E how \in {"ok", "failed", "refused"} : Return(c, how)
  BY <1>7, <1>1, <1>3, <1>5, <1>6, OtherCallStep
<1>8. CASE GoesTo(c, "move")
  BY <1>8, <1>1, <1>3, <1>5, <1>6, OtherCallStep
<1>q. QED BY <1>7, <1>8, <1>1

LEMMA PromptAppendStep == ASSUME ArcInv, NEW c \in Calls, PromptAppend(c) PROVE ArcInv'
<1> DEFINE r == calls[c]
<1>1. /\ At(c, "append") /\ UNCHANGED <<file, torn, loads, open, made, rt, loops, ops, crashes>>
      /\ Unlock(c) \/ UNCHANGED holds
      /\ \/ (\E how \in {"ok", "failed", "refused"} : Return(c, how)) /\ UNCHANGED log
         \/ log' = [log EXCEPT ![r.on].with = None] /\ GoesTo(c, "start")
  BY DEF PromptAppend
<1>2. r.at = "append" BY <1>1 DEF At
<1>3. r.op = "prompt" /\ r.h \in DOMAIN made[r.on] /\ r.on \in Family /\ r.of \in Family BY <1>2, CallIs
<1>4. Tables /\ Handles /\ LoopFits BY TablesAre
<1>5. /\ log' \in [Family -> [state : {"idle", "running", "paused"}, with : Family \cup {None}]]
      /\ \A s \in Family : log'[s].with \in {log[s].with, None}
  <2>1. CASE UNCHANGED log BY <2>1, <1>4 DEF Tables
  <2>2. CASE log' = [log EXCEPT ![r.on].with = None] BY <2>2, <1>3, <1>4, WithTyped
  <2>q. QED BY <2>1, <2>2, <1>1
<1>6. Tables' BY <1>1, <1>4, <1>5 DEF Tables
<1>7. Handles' /\ LoopFits' BY <1>1, <1>4, UnlockIs DEF Handles, LoopFits
<1>8. {"returned", "start"} \subseteq CallPlaces \cap Places(r.op) BY <1>3 DEF CallPlaces, Places
<1>9. CASE \E how \in {"ok", "failed", "refused"} : Return(c, how)
  BY <1>9, <1>1, <1>3, <1>5, <1>6, <1>7, <1>8, OtherCallStep
<1>10. CASE GoesTo(c, "start")
  BY <1>10, <1>1, <1>3, <1>5, <1>6, <1>7, <1>8, OtherCallStep
<1>q. QED BY <1>9, <1>10, <1>1

LEMMA PromptStartStep == ASSUME ArcInv, NEW c \in Calls, PromptStart(c) PROVE ArcInv'
<1> DEFINE r == calls[c]
           e == [state |-> "running", with |-> None]
           l == NewLoop(c)
<1>1. /\ At(c, "start") /\ UNCHANGED <<file, torn, loads, open, made, ops, crashes>>
      /\ Unlock(c) /\ Return(c, "ok")
      /\ \/ UNCHANGED <<log, rt, loops>>
         \/ /\ rt[r.on].h # 0 /\ ~rt[r.on].running /\ log' = [log EXCEPT ![r.on] = e]
            /\ rt' = [rt EXCEPT ![r.on].running = TRUE] /\ loops' = loops \cup {l}
  BY DEF PromptStart, AppendEvent
<1>2. r.at = "start" BY <1>1 DEF At
<1>3. r.op = "prompt" /\ r.h \in DOMAIN made[r.on] /\ r.on \in Family /\ r.of \in Family BY <1>2, CallIs
<1>4. Tables /\ Handles /\ LoopFits BY TablesAre
<1>5. /\ Tables' /\ Handles' /\ LoopFits'
      /\ \A s \in Family : log'[s].with \in {log[s].with, None}
  <2>1. CASE UNCHANGED <<log, rt, loops>>
    BY <2>1, <1>1, <1>4, UnlockIs DEF Tables, Handles, LoopFits
  <2>2. CASE /\ rt[r.on].h # 0 /\ ~rt[r.on].running /\ log' = [log EXCEPT ![r.on] = e]
             /\ rt' = [rt EXCEPT ![r.on].running = TRUE] /\ loops' = loops \cup {l}
    <3>1. e \in [state : {"idle", "running", "paused"}, with : Family \cup {None}] /\ e.with = None OBVIOUS
    <3> HIDE DEF e
    <3>2. /\ log' \in [Family -> [state : {"idle", "running", "paused"}, with : Family \cup {None}]]
          /\ \A s \in Family : log'[s].with \in {log[s].with, None}
      BY <2>2, <3>1, <1>3, <1>4, LogsTyped
    <3>3. /\ rt' \in [Family -> [h : Nat, running : BOOLEAN]] /\ rt'[r.on].h = rt[r.on].h /\ rt'[r.on].running
          /\ \A s \in Family : s # r.on => rt'[s] = rt[s]
      BY <2>2, <1>3, <1>4 DEF Tables
    <3>4. Tables' BY <3>2, <3>3, <1>1, <1>4 DEF Tables
    <3>5. l[1] = r.on /\ l[2] = r.h BY DEF NewLoop
    <3> HIDE DEF l
    <3>6. \A s \in Family : rt'[s].h = rt[s].h BY <3>3
    <3>7. \A k \in loops' : l[1] \in Family /\ l[2] \in DOMAIN made[l[1]] BY <3>5, <1>3
    <3>8. Handles' BY <3>6, <3>7, <2>2, <1>1, <1>4, UnlockIs DEF Handles
    <3>9. \A k \in loops : k[1] \in Family /\ k[1] # r.on BY <2>2, <1>4 DEF LoopFits, Handles
    <3>10. LoopFits' BY <2>2, <3>3, <3>5, <3>9, <1>3, <1>4 DEF LoopFits
    <3>q. QED BY <3>2, <3>4, <3>8, <3>10
  <2>q. QED BY <2>1, <2>2, <1>1
<1>6. "returned" \in CallPlaces /\ "returned" \in Places(r.op) BY <1>3 DEF CallPlaces, Places
<1>q. QED BY <1>1, <1>3, <1>5, <1>6, OtherCallStep

(* A call goes on with a list of sessions that are there.                  *)
LEMMA OnwardFits ==
  ASSUME NEW r \in CallRec, NEW q \in CallRec, NEW f, NEW m, NEW todo \in Seq(Family),
         CallFits(r, f, m), r.op \in {"archive", "restore"}, SameCall(r, q),
         \A i \in DOMAIN todo : f[todo[i]] # "none",
         todo = <<>> => /\ q.at = "returned" /\ q.on = r.on /\ q.todo = r.todo /\ q.then = r.then,
         todo # <<>> => /\ q.at = (IF r.op = "archive" THEN "look" ELSE "restore")
                        /\ q.then = (IF r.op = "archive" THEN "lock" ELSE "restored")
                        /\ q.on = Head(todo) /\ q.todo = Tail(todo)
  PROVE  CallFits(q, f, m)
<1>1. CASE todo = <<>> BY <1>1 DEF CallFits, SameCall, Places
<1>2. CASE todo # <<>>
  <2>1. Head(todo) \in Family /\ f[Head(todo)] # "none" BY <1>2, HeadAndTail
  <2>2. \A i \in DOMAIN Tail(todo) : f[Tail(todo)[i]] # "none" BY <1>2, HeadAndTail
  <2>3. q.at \in Places(q.op) /\ q.then \in Nexts(q.op) BY <1>2 DEF SameCall, Places, Nexts
  <2>4. q.at \notin {"family", "lock", "check", "move", "restored", "append", "start"} BY <1>2
  <2>5. r.of \in Family /\ f[r.of] # "none" BY DEF CallFits
  <2>6. QED BY <1>2, <2>1, <2>2, <2>3, <2>4, <2>5 DEF CallFits, SameCall
<1>q. QED BY <1>1, <1>2

LEMMA OnwardBrings ==
  ASSUME NEW r \in CallRec, NEW q \in CallRec, NEW f, NEW W, NEW todo \in Seq(Family),
         r.op = "restore", SameCall(r, q), f[r.of] = "active", W \subseteq Range(todo),
         todo = <<>> => q.at = "returned",
         todo # <<>> => q.at = "restore" /\ q.on = Head(todo) /\ q.todo = Tail(todo)
  PROVE  BringsBack(q, f, W)
<1>1. CASE todo = <<>>
  <2>1. W = {} BY <1>1 DEF Range
  <2>2. QED BY <1>1, <2>1 DEF BringsBack, SameCall
<1>2. CASE todo # <<>>
  <2>1. W \subseteq Range(Tail(todo)) \cup {Head(todo)} BY <1>2, HeadAndTail
  <2>2. QED BY <1>2, <2>1 DEF BringsBack, SameCall
<1>q. QED BY <1>1, <1>2

LEMMA MoveStep == ASSUME ArcInv, NEW c \in Calls, Move(c) PROVE ArcInv'
<1> DEFINE r == calls[c]
           q == calls'[c]
<1>1. /\ At(c, "move") /\ UNCHANGED <<log, torn, loads, made, rt, loops, ops, crashes>>
      /\ file' = [file EXCEPT ![r.on] = "archive"] /\ open' = [open EXCEPT ![r.on] = FALSE]
      /\ Unlock(c) /\ Onward(c, r.todo)
  BY DEF Move
<1>2. r.at = "move" BY <1>1 DEF At
<1>3. /\ r \in CallRec /\ CallFits(r, file, made) /\ r.op = "archive" /\ r.on \in Family /\ file[r.on] # "none"
  BY <1>2, CallIs
<1>4. Tables /\ Handles /\ LoopFits /\ calls \in [Calls -> CallRec] BY TablesAre
<1>5. /\ file' \in [Family -> {"none", "active", "archive"}]
      /\ \A s \in Family : file'[s] = "none" <=> file[s] = "none"
  BY <1>1, <1>3, <1>4 DEF Tables
<1>6. open' \in [Family -> BOOLEAN] BY <1>1, <1>4 DEF Tables
<1>7. Tables' /\ LoopFits' BY <1>1, <1>4, <1>5, <1>6 DEF Tables, LoopFits
<1>8. Handles' BY <1>1, <1>4, <1>5, UnlockIs DEF Handles
<1>9. Grows BY <1>1, <1>5 DEF Grows
<1>10. r.todo \in Seq(Family) BY <1>3 DEF CallRec
<1>11. /\ calls' \in [Calls -> CallRec] /\ Others(c) /\ SameCall(r, q)
       /\ r.todo = <<>> => /\ q.at = "returned" /\ q.on = r.on /\ q.todo = r.todo /\ q.then = r.then
       /\ r.todo # <<>> => /\ q.at = (IF r.op = "archive" THEN "look" ELSE "restore")
                           /\ q.then = (IF r.op = "archive" THEN "lock" ELSE "restored")
                           /\ q.on = Head(r.todo) /\ q.todo = Tail(r.todo)
  BY <1>1, <1>3, <1>4, <1>10, OnwardIs
<1>12. q \in CallRec BY <1>11
<1>13. CallFits(r, file', made') BY <1>3, <1>9, CallStillFits DEF Grows
<1>14. \A i \in DOMAIN r.todo : file'[r.todo[i]] # "none" BY <1>13 DEF CallFits
<1>15. CallFits(q, file', made')
  <2> HIDE DEF r, q
  <2>1. QED BY <1>3, <1>10, <1>11, <1>12, <1>13, <1>14, OnwardFits
<1>16. q.op # "restore" BY <1>3, <1>11 DEF SameCall
<1>q. QED BY <1>3, <1>7, <1>8, <1>9, <1>11, <1>15, <1>16, ArcStep

LEMMA RestoreStep == ASSUME ArcInv, NEW c \in Calls, Restore(c) PROVE ArcInv'
<1> DEFINE r == calls[c]
           q == calls'[c]
<1>1. /\ At(c, "restore") /\ UNCHANGED <<log, torn, loads, open, made, rt, holds, loops, ops, crashes>>
      /\ file' = [file EXCEPT ![r.on] = "active"] /\ GoesTo(c, "look")
  BY DEF Restore
<1>2. r.at = "restore" BY <1>1 DEF At
<1>3. /\ r \in CallRec /\ CallFits(r, file, made) /\ r.op = "restore" /\ r.on \in Family /\ r.of \in Family
      /\ file[r.on] # "none"
  BY <1>2, CallIs
<1>4. Tables /\ Handles /\ LoopFits /\ calls \in [Calls -> CallRec] BY TablesAre
<1>5. /\ file' \in [Family -> {"none", "active", "archive"}]
      /\ \A s \in Family : file'[s] = "none" <=> file[s] = "none"
      /\ file'[r.on] = "active" /\ \A s \in Family : s # r.on => file'[s] = file[s]
  BY <1>1, <1>3, <1>4 DEF Tables
<1>6. Tables' /\ Handles' /\ LoopFits' BY <1>1, <1>4, <1>5 DEF Tables, Handles, LoopFits
<1>7. Grows BY <1>1, <1>5 DEF Grows
<1>8. ASSUME NEW s \in Family
      PROVE  Away(s, file', log', torn') \subseteq Away(s, file, log, torn) \ {r.on}
  BY <1>1, <1>5 DEF Away
<1>9. Milder BY <1>5, <1>8 DEF Milder
<1>10. /\ calls' \in [Calls -> CallRec] /\ Others(c) /\ SameCall(r, q) /\ q.at = "look" /\ q.on = r.on
       /\ q.then = r.then /\ q.h = r.h /\ q.todo = r.todo
  BY <1>1, <1>4, GoesToIs DEF CallPlaces
<1>11. q \in CallRec /\ "look" \in Places(r.op) BY <1>10, <1>3 DEF Places
<1>12. CallFits(r, file', made') BY <1>3, <1>7, CallStillFits DEF Grows
<1>13. CallFits(q, file', made')
  <2>1. r.op # "none" BY <1>3
  <2> HIDE DEF r, q
  <2>2. QED BY <2>1, <1>3, <1>10, <1>11, <1>12, ToPlace
<1>14. ASSUME q.op = "restore", q.alone
       PROVE  BringsBack(q, file', Away(q.of, file', log', torn'))
  <2>1. q.of = r.of /\ r.alone BY <1>14, <1>10 DEF SameCall
  <2>2. BringsBack(r, file, Away(r.of, file, log, torn)) BY <2>1, <1>3 DEF ArcInv, RestoreFits
  <2>3. file'[r.of] = "active" BY <2>2, <1>2, <1>3, <1>5 DEF BringsBack
  <2>4. r.on # r.of => Away(r.of, file', log', torn') \subseteq Range(r.todo)
    BY <2>2, <1>2, <1>3, <1>8 DEF BringsBack
  <2>5. QED BY <2>1, <2>3, <2>4, <1>10 DEF BringsBack
<1>q. QED BY <1>6, <1>7, <1>9, <1>10, <1>13, <1>14, ArcStep

LEMMA NoticeStep == ASSUME ArcInv, NEW c \in Calls, RestoreNotice(c) PROVE ArcInv'
<1> DEFINE r == calls[c]
           q == calls'[c]
<1>1. /\ At(c, "restored") /\ UNCHANGED <<file, torn, loads, open, made, rt, holds, loops, ops, crashes>>
      /\ \/ Return(c, "failed") /\ UNCHANGED log
         \/ /\ log' = [log EXCEPT ![r.on].with = None]
            /\ IF r.on = r.of THEN GoesTo(c, "listing") ELSE Onward(c, r.todo)
  BY DEF RestoreNotice
<1>2. r.at = "restored" BY <1>1 DEF At
<1>3. /\ r \in CallRec /\ CallFits(r, file, made) /\ r.op = "restore" /\ r.on \in Family /\ r.of \in Family
      /\ r.todo \in Seq(Family)
  BY <1>2, CallIs DEF CallRec
<1>4. Tables /\ Handles /\ LoopFits /\ calls \in [Calls -> CallRec] BY TablesAre
<1>5. /\ log' \in [Family -> [state : {"idle", "running", "paused"}, with : Family \cup {None}]]
      /\ \A s \in Family : log'[s].with \in {log[s].with, None}
  <2>1. CASE UNCHANGED log BY <2>1, <1>4 DEF Tables
  <2>2. CASE log' = [log EXCEPT ![r.on].with = None] BY <2>2, <1>3, <1>4, WithTyped
  <2>q. QED BY <2>1, <2>2, <1>1
<1>6. Tables' /\ Handles' /\ LoopFits' BY <1>1, <1>4, <1>5 DEF Tables, Handles, LoopFits
<1>7. Grows BY <1>1 DEF Grows
<1>8. \A s \in Family : Away(s, file', log', torn') \subseteq Away(s, file, log, torn)
  BY <1>1, <1>5, ArchiveAssumption DEF Away
<1>9. Milder BY <1>1, <1>8 DEF Milder
<1>10. ASSUME r.alone PROVE BringsBack(r, file, Away(r.of, file', log', torn'))
  <2>1. BringsBack(r, file, Away(r.of, file, log, torn)) BY <1>10, <1>3 DEF ArcInv, RestoreFits
  <2>2. QED BY <2>1, <1>3, <1>8, StillBringsBack
<1>11. /\ calls' \in [Calls -> CallRec] /\ Others(c) /\ SameCall(r, q) /\ CallFits(q, file, made)
       /\ r.alone => BringsBack(q, file, Away(r.of, file', log', torn'))
  <2>1. CASE Return(c, "failed") \/ (GoesTo(c, "listing") /\ r.on = r.of)
    <3>1. /\ calls' \in [Calls -> CallRec] /\ Others(c) /\ SameCall(r, q) /\ q.on = r.on
          /\ q.then = r.then /\ q.h = r.h /\ q.todo = r.todo
          /\ (q.at = "returned" /\ q.end = "failed") \/ q.at = "listing"
      BY <2>1, <1>4, GoesToIs, ReturnIs DEF CallPlaces
    <3>2. q \in CallRec /\ q.at \in Places(r.op) /\ r.op # "none" BY <3>1, <1>3 DEF Places
    <3> HIDE DEF r, q
    <3>3. CallFits(q, file, made) BY <1>3, <3>1, <3>2, ToPlace
    <3>4. r.alone => BringsBack(q, file, Away(r.of, file', log', torn'))
      BY <1>2, <1>10, <3>1 DEF BringsBack, SameCall
    <3>q. QED BY <3>1, <3>3, <3>4
  <2>2. CASE Onward(c, r.todo) /\ r.on # r.of
    <3>1. /\ calls' \in [Calls -> CallRec] /\ Others(c) /\ SameCall(r, q)
          /\ r.todo = <<>> => /\ q.at = "returned" /\ q.on = r.on /\ q.todo = r.todo /\ q.then = r.then
          /\ r.todo # <<>> => /\ q.at = (IF r.op = "archive" THEN "look" ELSE "restore")
                              /\ q.then = (IF r.op = "archive" THEN "lock" ELSE "restored")
                              /\ q.on = Head(r.todo) /\ q.todo = Tail(r.todo)
      BY <2>2, <1>3, <1>4, OnwardIs
    <3>2. q \in CallRec BY <3>1
    <3>3. \A i \in DOMAIN r.todo : file[r.todo[i]] # "none" BY <1>3 DEF CallFits
    <3> HIDE DEF r, q
    <3>4. CallFits(q, file, made) BY <1>3, <3>1, <3>2, <3>3, OnwardFits
    <3>5. ASSUME r.alone PROVE BringsBack(q, file, Away(r.of, file', log', torn'))
      <4>1. file[r.of] = "active" /\ Away(r.of, file', log', torn') \subseteq Range(r.todo)
        BY <1>2, <1>10, <2>2, <3>5 DEF BringsBack
      <4>2. r.todo # <<>> => q.at = "restore" BY <1>3, <3>1
      <4>3. QED BY <1>3, <3>1, <3>2, <4>1, <4>2, OnwardBrings
    <3>q. QED BY <3>1, <3>4, <3>5
  <2>q. QED BY <2>1, <2>2, <1>1
<1>12. q.op = "restore" /\ q.of = r.of /\ q.alone = r.alone BY <1>3, <1>11 DEF SameCall
<1>13. /\ CallFits(q, file', made')
       /\ q.op = "restore" /\ q.alone => BringsBack(q, file', Away(q.of, file', log', torn'))
  BY <1>1, <1>11, <1>12
<1>q. QED BY <1>6, <1>7, <1>9, <1>11, <1>13, ArcStep

(* The sessions of a set, in some order.                                   *)
LEMMA OrdersAre ==
  ASSUME NEW S \in SUBSET Family, NEW o \in Orders(S)
  PROVE  o \in Seq(Family) /\ (\A i \in DOMAIN o : o[i] \in S) /\ S \subseteq Range(o)
<1>1. IsFiniteSet(S) BY FS_Subset, ArchiveAssumption
<1>2. Cardinality(S) \in Nat BY <1>1, FS_CardinalityType
<1>3. o \in [1 .. Cardinality(S) -> S] /\ \A e \in S : \E i \in DOMAIN o : o[i] = e BY DEF Orders
<1>4. o \in Seq(Family) BY <1>2, <1>3
<1>5. S \subseteq Range(o) BY <1>3 DEF Range
<1>q. QED BY <1>3, <1>4, <1>5

LEMMA RestoreFamilyStep == ASSUME ArcInv, NEW c \in Calls, RestoreFamily(c) PROVE ArcInv'
<1> DEFINE r == calls[c]
           q == calls'[c]
           W == WentWith(r.of)
<1>1. /\ At(c, "listing") /\ UNCHANGED <<file, log, torn, loads, open, made, rt, holds, loops, ops, crashes>>
      /\ \E o \in Orders(W) : Onward(c, o)
  BY DEF RestoreFamily
<1>2. r.at = "listing" BY <1>1 DEF At
<1>3. /\ r \in CallRec /\ CallFits(r, file, made) /\ r.op = "restore" /\ r.on \in Family /\ r.of \in Family
  BY <1>2, CallIs
<1>4. Tables /\ Handles /\ LoopFits /\ calls \in [Calls -> CallRec] BY TablesAre
<1>5. Tables' /\ Handles' /\ LoopFits' BY <1>1, <1>4 DEF Tables, Handles, LoopFits
<1>6. Grows /\ Milder BY <1>1 DEF Grows, Milder
<1>7. W = Away(r.of, file, log, torn) /\ W \in SUBSET Family BY DEF WentWith, Away
<1>17. \A d \in W : file[d] = "archive" BY DEF WentWith
<1> HIDE DEF W
<1>8. PICK o \in Orders(W) : Onward(c, o) BY <1>1
<1>9. /\ o \in Seq(Family) /\ W \subseteq Range(o) /\ \A i \in DOMAIN o : o[i] \in W BY <1>7, OrdersAre
<1>10. /\ calls' \in [Calls -> CallRec] /\ Others(c) /\ SameCall(r, q)
       /\ o = <<>> => /\ q.at = "returned" /\ q.on = r.on /\ q.todo = r.todo /\ q.then = r.then
       /\ o # <<>> => /\ q.at = (IF r.op = "archive" THEN "look" ELSE "restore")
                      /\ q.then = (IF r.op = "archive" THEN "lock" ELSE "restored")
                      /\ q.on = Head(o) /\ q.todo = Tail(o)
  BY <1>3, <1>4, <1>8, <1>9, OnwardIs
<1>11. q \in CallRec BY <1>10
<1>12. \A i \in DOMAIN o : file[o[i]] # "none" BY <1>9, <1>17
<1>13. r.alone => BringsBack(r, file, W) BY <1>3, <1>7 DEF ArcInv, RestoreFits
<1>14. /\ CallFits(q, file, made)
       /\ r.alone => BringsBack(q, file, W)
  <2> HIDE DEF r, q
  <2>1. CallFits(q, file, made) BY <1>3, <1>9, <1>10, <1>11, <1>12, OnwardFits
  <2>2. ASSUME r.alone PROVE BringsBack(q, file, W)
    <3>1. file[r.of] = "active" BY <1>2, <1>13, <2>2 DEF BringsBack
    <3>2. o # <<>> => q.at = "restore" BY <1>3, <1>10
    <3>3. QED BY <1>3, <1>9, <1>10, <1>11, <3>1, <3>2, OnwardBrings
  <2>q. QED BY <2>1, <2>2
<1>15. q.op = r.op /\ q.of = r.of /\ q.alone = r.alone BY <1>10 DEF SameCall
<1>16. /\ CallFits(q, file', made')
       /\ q.op = "restore" /\ q.alone => BringsBack(q, file', Away(q.of, file', log', torn'))
  BY <1>1, <1>7, <1>14, <1>15
<1>q. QED BY <1>5, <1>6, <1>10, <1>16, ArcStep

LEMMA ArchiveFamilyStep == ASSUME ArcInv, NEW c \in Calls, ArchiveFamily(c) PROVE ArcInv'
<1> DEFINE r == calls[c]
           q == calls'[c]
           D == Descendants(r.of)
           unread == {d \in Listed \ torn : ~open[d]}
<1>1. /\ At(c, "family") /\ UNCHANGED <<file, log, torn, made, rt, holds, loops, ops, crashes>>
      /\ loads' = [d \in Family |-> IF d \in unread THEN loads[d] + 1 ELSE loads[d]]
      /\ open' = [d \in Family |-> open[d] \/ d \in unread]
      /\ \/ \E how \in {"ok", "failed", "refused"} : Return(c, how)
         \/ \E o \in Orders(D) : Onward(c, Append(o, r.of))
  BY DEF ArchiveFamily
<1>2. r.at = "family" BY <1>1 DEF At
<1>3. /\ r \in CallRec /\ CallFits(r, file, made) /\ r.op = "archive" /\ r.on \in Family /\ r.of \in Family
      /\ file[r.of] # "none"
  BY <1>2, CallIs
<1>4. Tables /\ Handles /\ LoopFits /\ calls \in [Calls -> CallRec] /\ \A d \in Family : loads[d] \in Nat
  BY TablesAre
<1>5. D \in SUBSET Family /\ \A d \in D : file[d] = "active" BY DEF Descendants, Listed
<1> HIDE DEF D, unread
<1>6. Tables' /\ Handles' /\ LoopFits'
  <2>1. loads' \in [Family -> Nat] BY <1>1, <1>4
  <2>2. open' \in [Family -> BOOLEAN] BY <1>1
  <2>3. QED BY <2>1, <2>2, <1>1, <1>4 DEF Tables, Handles, LoopFits
<1>7. Grows BY <1>1 DEF Grows
<1>8. /\ calls' \in [Calls -> CallRec] /\ Others(c) /\ SameCall(r, q) /\ CallFits(q, file, made)
  <2>1. CASE \E how \in {"ok", "failed", "refused"} : Return(c, how)
    <3>1. /\ calls' \in [Calls -> CallRec] /\ Others(c) /\ SameCall(r, q) /\ q.at = "returned" /\ q.on = r.on
          /\ q.then = r.then /\ q.h = r.h /\ q.todo = r.todo
      BY <2>1, <1>4, ReturnIs
    <3>2. q \in CallRec /\ q.at \in Places(r.op) /\ r.op # "none" BY <3>1, <1>3 DEF Places
    <3> HIDE DEF r, q
    <3>3. CallFits(q, file, made) BY <1>3, <3>1, <3>2, ToPlace
    <3>q. QED BY <3>1, <3>3
  <2>2. CASE \E o \in Orders(D) : Onward(c, Append(o, r.of))
    <3>1. PICK o \in Orders(D) : Onward(c, Append(o, r.of)) BY <2>2
    <3> DEFINE todo == Append(o, r.of)
    <3>2. o \in Seq(Family) /\ \A i \in DOMAIN o : o[i] \in D BY <1>5, OrdersAre
    <3>3. todo \in Seq(Family) BY <3>2, <1>3
    <3>4. \A i \in DOMAIN todo : file[todo[i]] # "none"
      <4>1. ASSUME NEW i \in DOMAIN todo PROVE todo[i] = r.of \/ todo[i] \in D
        <5>1. DOMAIN todo = 1 .. Len(o) + 1 /\ DOMAIN o = 1 .. Len(o) /\ Len(o) \in Nat BY <3>2, <1>3
        <5>2. CASE i = Len(o) + 1 BY <5>2, <3>2, <1>3
        <5>3. CASE i \in 1 .. Len(o) BY <5>1, <5>3, <3>2, <1>3
        <5>q. QED BY <5>1, <5>2, <5>3
      <4>2. QED BY <4>1, <1>3, <1>5
    <3>5. Onward(c, todo) BY <3>1
    <3> HIDE DEF todo
    <3>6. /\ calls' \in [Calls -> CallRec] /\ Others(c) /\ SameCall(r, q)
          /\ todo = <<>> => /\ q.at = "returned" /\ q.on = r.on /\ q.todo = r.todo /\ q.then = r.then
          /\ todo # <<>> => /\ q.at = (IF r.op = "archive" THEN "look" ELSE "restore")
                            /\ q.then = (IF r.op = "archive" THEN "lock" ELSE "restored")
                            /\ q.on = Head(todo) /\ q.todo = Tail(todo)
      BY <1>3, <1>4, <3>3, <3>5, OnwardIs
    <3>7. q \in CallRec BY <3>6
    <3> HIDE DEF r, q
    <3>8. CallFits(q, file, made) BY <1>3, <3>3, <3>4, <3>6, <3>7, OnwardFits
    <3>q. QED BY <3>6, <3>8
  <2>q. QED BY <2>1, <2>2, <1>1
<1>9. q.op # "restore" BY <1>3, <1>8 DEF SameCall
<1>10. CallFits(q, file', made') BY <1>1, <1>8
<1>q. QED BY <1>3, <1>6, <1>7, <1>8, <1>9, <1>10, ArcStep

(* A call that is over, or was cut off.                                    *)
LEMMA ReadyFits ==
  ASSUME NEW f, NEW m
  PROVE  Ready \in CallRec /\ Ready.op = "none" /\ Ready.todo = <<>> /\ CallFits(Ready, f, m)
<1>1. Ready \in CallRec BY DEF Ready, CallRec, CallPlaces
<1>2. Ready.op = "none" /\ Ready.at = "ready" /\ Ready.then = "none" /\ Ready.todo = <<>> BY DEF Ready
<1>3. Ready.at \in Places(Ready.op) /\ Ready.then \in Nexts(Ready.op) BY <1>2 DEF Places, Nexts
<1>q. QED BY <1>1, <1>2, <1>3 DEF CallFits

(* A call begins: the others are alone no more if it archives.             *)
LEMMA BeginsAre ==
  ASSUME calls \in [Calls -> CallRec], NEW c \in Calls, NEW op \in {"archive", "restore", "prompt"},
         NEW s \in Family, StartCall(c, op, s)
  PROVE  /\ calls[c].at = "ready" /\ file[s] # "none" /\ ops < MaxOps /\ ops' = ops + 1
         /\ UNCHANGED <<file, log, torn, loads, open, made, rt, holds, loops, crashes>>
         /\ calls' \in [Calls -> CallRec]
         /\ calls'[c].op = op /\ calls'[c].of = s /\ calls'[c].on = s /\ calls'[c].todo = <<>>
         /\ calls'[c].at = (IF op = "restore" THEN "restore" ELSE "look")
         /\ calls'[c].then \in Nexts(op)
         /\ calls'[c].alone => \A d \in Calls \ {c} : calls[d].op # "archive"
         /\ \A d \in Calls \ {c} :
              /\ calls'[d].op = calls[d].op /\ calls'[d].of = calls[d].of /\ calls'[d].on = calls[d].on
              /\ calls'[d].todo = calls[d].todo /\ calls'[d].at = calls[d].at /\ calls'[d].then = calls[d].then
              /\ calls'[d].h = calls[d].h /\ calls'[d].end = calls[d].end
              /\ calls'[d].alone => calls[d].alone /\ op # "archive"
<1> DEFINE place == IF op = "restore" THEN "restore" ELSE "look"
           next == CASE op = "archive" -> "family" [] op = "restore" -> "restored" [] OTHER -> "lock"
           alone == \A d \in Calls \ {c} : calls[d].op # "archive"
           b == [Ready EXCEPT !.op = op, !.of = s, !.on = s, !.at = place, !.then = next, !.alone = alone]
           o(d) == [calls[d] EXCEPT !.alone = @ /\ op # "archive"]
<1>1. /\ At(c, "ready") /\ file[s] # "none" /\ ops < MaxOps /\ ops' = ops + 1
      /\ UNCHANGED <<file, log, torn, loads, open, made, rt, holds, loops, crashes>>
      /\ calls' = [d \in Calls |-> IF d = c THEN b ELSE o(d)]
  BY DEF StartCall
<1>2. place \in CallPlaces /\ next \in {"none", "family", "lock", "restored"} /\ next \in Nexts(op)
  BY DEF CallPlaces, Nexts
<1>3. alone \in BOOLEAN OBVIOUS
<1> HIDE DEF place, next, alone
<1>4. Ready \in CallRec /\ Ready.todo = <<>> BY ReadyFits
<1>11. b \in CallRec BY <1>2, <1>3, <1>4 DEF CallRec
<1>12. /\ b.op = op /\ b.of = s /\ b.on = s /\ b.todo = <<>> /\ b.at = place /\ b.then = next
  BY <1>4 DEF CallRec
<1>13. b.alone = alone BY <1>4 DEF CallRec
<1>5. /\ b \in CallRec /\ b.op = op /\ b.of = s /\ b.on = s /\ b.todo = <<>> /\ b.at = place /\ b.then = next
      /\ b.alone = alone
  BY <1>11, <1>12, <1>13
<1>6. ASSUME NEW d \in Calls
      PROVE  /\ o(d) \in CallRec /\ o(d).op = calls[d].op /\ o(d).of = calls[d].of /\ o(d).on = calls[d].on
             /\ o(d).todo = calls[d].todo /\ o(d).at = calls[d].at /\ o(d).then = calls[d].then
             /\ o(d).h = calls[d].h /\ o(d).end = calls[d].end /\ o(d).alone = (calls[d].alone /\ op # "archive")
  <2>1. calls[d] \in CallRec OBVIOUS
  <2>2. (calls[d].alone /\ op # "archive") \in BOOLEAN OBVIOUS
  <2>3. QED BY <2>1, <2>2 DEF CallRec
<1> HIDE DEF b, o
<1>7. calls'[c] = b /\ \A d \in Calls \ {c} : calls'[d] = o(d) BY <1>1
<1>8. calls' \in [Calls -> CallRec] BY <1>1, <1>5, <1>6
<1>9. \A d \in Calls \ {c} :
        /\ calls'[d].op = calls[d].op /\ calls'[d].of = calls[d].of /\ calls'[d].on = calls[d].on
        /\ calls'[d].todo = calls[d].todo /\ calls'[d].at = calls[d].at /\ calls'[d].then = calls[d].then
        /\ calls'[d].h = calls[d].h /\ calls'[d].end = calls[d].end
        /\ calls'[d].alone => calls[d].alone /\ op # "archive"
  <2> SUFFICES ASSUME NEW d \in Calls \ {c}
               PROVE  /\ calls'[d].op = calls[d].op /\ calls'[d].of = calls[d].of /\ calls'[d].on = calls[d].on
                      /\ calls'[d].todo = calls[d].todo /\ calls'[d].at = calls[d].at
                      /\ calls'[d].then = calls[d].then
                      /\ calls'[d].h = calls[d].h /\ calls'[d].end = calls[d].end
                      /\ calls'[d].alone => calls[d].alone /\ op # "archive"
    OBVIOUS
  <2>1. calls'[d] = o(d) BY <1>7
  <2>2. calls'[d].alone => calls[d].alone /\ op # "archive" BY Zenon, <2>1, <1>6
  <2>3. QED BY <2>1, <2>2, <1>6
<1>10. /\ calls'[c].op = op /\ calls'[c].of = s /\ calls'[c].on = s /\ calls'[c].todo = <<>>
       /\ calls'[c].at = place /\ calls'[c].then = next /\ calls'[c].alone = alone
  BY <1>5, <1>7
<1>q. QED BY <1>1, <1>2, <1>8, <1>9, <1>10 DEF At, place, alone

(* The same call, by all that matters but who else there is.               *)
LEMMA SameFits ==
  ASSUME NEW r, NEW q, NEW f, NEW m, NEW W,
         q.op = r.op, q.of = r.of, q.on = r.on, q.todo = r.todo, q.at = r.at, q.then = r.then, q.h = r.h, q.end = r.end
  PROVE  /\ CallFits(r, f, m) => CallFits(q, f, m)
         /\ BringsBack(r, f, W) => BringsBack(q, f, W)
BY DEF CallFits, BringsBack

LEMMA StartStep ==
  ASSUME ArcInv, NEW c \in Calls, NEW op \in {"archive", "restore", "prompt"}, NEW s \in Family, StartCall(c, op, s)
  PROVE  ArcInv'
<1>1. /\ Tables /\ Handles /\ LoopFits /\ calls \in [Calls -> CallRec] /\ CallsFit /\ AloneFits /\ RestoreFits
  BY TablesAre DEF ArcInv, ArcTypes
<1>2. /\ calls[c].at = "ready" /\ file[s] # "none" /\ ops < MaxOps /\ ops' = ops + 1
      /\ UNCHANGED <<file, log, torn, loads, open, made, rt, holds, loops, crashes>>
      /\ calls' \in [Calls -> CallRec]
      /\ calls'[c].op = op /\ calls'[c].of = s /\ calls'[c].on = s /\ calls'[c].todo = <<>>
      /\ calls'[c].at = (IF op = "restore" THEN "restore" ELSE "look")
      /\ calls'[c].then \in Nexts(op)
      /\ calls'[c].alone => \A d \in Calls \ {c} : calls[d].op # "archive"
      /\ \A d \in Calls \ {c} :
           /\ calls'[d].op = calls[d].op /\ calls'[d].of = calls[d].of /\ calls'[d].on = calls[d].on
           /\ calls'[d].todo = calls[d].todo /\ calls'[d].at = calls[d].at /\ calls'[d].then = calls[d].then
           /\ calls'[d].h = calls[d].h /\ calls'[d].end = calls[d].end
           /\ calls'[d].alone => calls[d].alone /\ op # "archive"
  BY <1>1, BeginsAre
<1>3. ops' \in 0 .. MaxOps BY <1>1, <1>2, ArchiveAssumption DEF Tables
<1>4. Tables' /\ Handles' /\ LoopFits' BY <1>1, <1>2, <1>3 DEF Tables, Handles, LoopFits
<1>5. CallFits(calls'[c], file, made)
  <2> DEFINE q == calls'[c]
  <2>1. q.at \in Places(q.op) /\ q.then \in Nexts(q.op) BY <1>2 DEF Places
  <2>2. /\ q.of \in Family /\ q.on \in Family /\ file[q.of] # "none" /\ file[q.on] # "none" BY <1>2
  <2>3. q.at \notin {"family", "lock", "check", "move", "restored", "append", "start"} BY <1>2
  <2>4. \A i \in DOMAIN q.todo : file[q.todo[i]] # "none" BY <1>2
  <2> HIDE DEF q
  <2>5. CallFits(q, file, made) BY <2>1, <2>2, <2>3, <2>4 DEF CallFits
  <2>6. QED BY <2>5 DEF q
<1>6. ASSUME NEW d \in Calls \ {c}
      PROVE  /\ CallFits(calls'[d], file, made)
             /\ \A W : BringsBack(calls[d], file, W) => BringsBack(calls'[d], file, W)
  <2>1. CallFits(calls[d], file, made) BY <1>1 DEF CallsFit
  <2>2. QED BY <2>1, <1>2, SameFits
<1>7. CallsFit' BY <1>2, <1>5, <1>6 DEF CallsFit
<1>8. AloneFits'
  <2> SUFFICES ASSUME NEW d \in Calls, NEW e \in Calls, d # e, calls'[d].op = "restore", calls'[d].alone
               PROVE  calls'[e].op # "archive"
    BY DEF AloneFits
  <2>1. CASE d = c BY <2>1, <1>2
  <2>2. CASE e = c BY <2>2, <1>2
  <2>3. CASE d # c /\ e # c BY <2>3, <1>1, <1>2 DEF AloneFits
  <2>q. QED BY <2>1, <2>2, <2>3
<1>9. RestoreFits'
  <2> SUFFICES ASSUME NEW d \in Calls, calls'[d].op = "restore", calls'[d].alone
               PROVE  BringsBack(calls'[d], file', Away(calls'[d].of, file', log', torn'))
    BY DEF RestoreFits
  <2>1. CASE d = c
    <3>1. calls'[c].at = "restore" /\ calls'[c].on = calls'[c].of BY <2>1, <1>2
    <3>2. QED BY <2>1, <3>1 DEF BringsBack
  <2>2. CASE d # c
    <3>1. BringsBack(calls[d], file, Away(calls[d].of, file, log, torn)) BY <2>2, <1>1, <1>2 DEF RestoreFits
    <3>2. QED BY <2>2, <3>1, <1>2, <1>6
  <2>q. QED BY <2>1, <2>2
<1>q. QED BY <1>2, <1>4, <1>7, <1>8, <1>9 DEF ArcInv, ArcTypes

LEMMA ReturnedStep == ASSUME ArcInv, NEW c \in Calls, Returned(c) PROVE ArcInv'
<1>1. /\ Tables /\ Handles /\ LoopFits /\ calls \in [Calls -> CallRec] /\ CallsFit /\ AloneFits /\ RestoreFits
  BY TablesAre DEF ArcInv, ArcTypes
<1>2. /\ calls' = [calls EXCEPT ![c] = Ready]
      /\ UNCHANGED <<file, log, torn, loads, open, made, rt, holds, loops, ops, crashes>>
  BY DEF Returned
<1>3. Tables' /\ Handles' /\ LoopFits' BY <1>1, <1>2 DEF Tables, Handles, LoopFits
<1>4. Ready \in CallRec /\ Ready.op = "none" /\ CallFits(Ready, file, made) BY ReadyFits
<1>5. calls' \in [Calls -> CallRec] BY <1>1, <1>2, <1>4
<1>6. \A d \in Calls : calls'[d] = Ready \/ calls'[d] = calls[d] BY <1>1, <1>2
<1>7. CallsFit' BY <1>1, <1>2, <1>4, <1>6 DEF CallsFit
<1>8. AloneFits' BY <1>1, <1>4, <1>6 DEF AloneFits
<1>9. RestoreFits'
  <2> SUFFICES ASSUME NEW d \in Calls, calls'[d].op = "restore", calls'[d].alone
               PROVE  BringsBack(calls'[d], file', Away(calls'[d].of, file', log', torn'))
    BY DEF RestoreFits
  <2>1. calls'[d] = calls[d] BY <1>4, <1>6
  <2>2. BringsBack(calls[d], file, Away(calls[d].of, file, log, torn)) BY <1>1, <2>1 DEF RestoreFits
  <2>3. QED BY <2>1, <2>2, <1>2
<1>q. QED BY <1>3, <1>5, <1>7, <1>8, <1>9 DEF ArcInv, ArcTypes

(* A step that is no call's.                                               *)
LEMMA NobodysStep ==
  ASSUME ArcInv, UNCHANGED calls, Grows, Milder, Tables', Handles', LoopFits'
  PROVE  ArcInv'
<1>1. calls \in [Calls -> CallRec] /\ CallsFit /\ AloneFits /\ RestoreFits BY DEF ArcInv, ArcTypes
<1>2. ASSUME NEW d \in Calls PROVE CallFits(calls[d], file', made')
  <2>1. CallFits(calls[d], file, made) /\ calls[d] \in CallRec BY <1>1 DEF CallsFit
  <2>2. QED BY <2>1, CallStillFits DEF Grows
<1>3. ASSUME NEW d \in Calls, calls[d].op = "restore", calls[d].alone
      PROVE  BringsBack(calls[d], file', Away(calls[d].of, file', log', torn'))
  <2>1. BringsBack(calls[d], file, Away(calls[d].of, file, log, torn)) BY <1>1, <1>3 DEF RestoreFits
  <2>2. calls[d].of \in Family BY <1>1, <1>3 DEF CallsFit, CallFits
  <2>3. QED BY <2>1, <2>2, StillBringsBack DEF Milder
<1>4. CallsFit' /\ AloneFits' /\ RestoreFits' BY <1>1, <1>2, <1>3 DEF CallsFit, AloneFits, RestoreFits
<1>q. QED BY <1>1, <1>4 DEF ArcInv, ArcTypes

LEMMA CreateStep == ASSUME ArcInv, NEW s \in Family, CreateSession(s) PROVE ArcInv'
<1>1. /\ file[s] = "none" /\ file' = [file EXCEPT ![s] = "active"] /\ open' = [open EXCEPT ![s] = TRUE]
      /\ made' = [made EXCEPT ![s] = <<loads[s]>>] /\ rt' = [rt EXCEPT ![s].h = 1]
      /\ UNCHANGED <<log, torn, loads, holds, loops, calls, ops, crashes>>
  BY DEF CreateSession
<1>2. Tables /\ Handles /\ LoopFits /\ made[s] = <<>> /\ loads[s] \in Nat BY <1>1, TablesAre
<1>3. <<loads[s]>> \in Seq(Nat) /\ Len(<<loads[s]>>) = 1 BY <1>2
<1>4. /\ file' \in [Family -> {"none", "active", "archive"}] /\ file'[s] = "active"
      /\ \A d \in Family : d # s => file'[d] = file[d]
  BY <1>1, <1>2 DEF Tables
<1>5. /\ made' \in [Family -> Seq(Nat)] /\ Len(made'[s]) = 1 /\ \A d \in Family : d # s => made'[d] = made[d]
  BY <1>1, <1>2, <1>3 DEF Tables
<1>6. /\ rt' \in [Family -> [h : Nat, running : BOOLEAN]] /\ rt'[s].h = 1 /\ rt'[s].running = rt[s].running
      /\ \A d \in Family : d # s => rt'[d] = rt[d]
  BY <1>1, <1>2 DEF Tables
<1>7. open' \in [Family -> BOOLEAN] BY <1>1, <1>2 DEF Tables
<1>8. Tables' BY <1>1, <1>2, <1>4, <1>5, <1>6, <1>7 DEF Tables
<1>9. \A d \in Family : DOMAIN made[d] \subseteq DOMAIN made'[d]
  <2>1. DOMAIN made[s] = {} BY <1>2
  <2>2. QED BY <2>1, <1>5
<1>10. \A d \in Family : rt'[d].h <= Len(made'[d]) /\ (file'[d] = "none" => made'[d] = <<>>)
  <2>1. rt'[s].h <= Len(made'[s]) /\ file'[s] # "none" BY <1>4, <1>5, <1>6
  <2>2. \A d \in Family : d # s => rt'[d].h <= Len(made'[d]) /\ (file'[d] = "none" => made'[d] = <<>>)
    BY <1>2, <1>4, <1>5, <1>6 DEF Handles
  <2>q. QED BY <2>1, <2>2
<1>11. Handles' BY <1>1, <1>2, <1>9, <1>10 DEF Handles
<1>12. LoopFits' BY <1>1, <1>2, <1>6 DEF LoopFits, Handles
<1>13. Grows BY <1>4, <1>9 DEF Grows
<1>14. Milder BY <1>1, <1>4 DEF Milder, Away
<1>q. QED BY <1>1, <1>8, <1>11, <1>12, <1>13, <1>14, NobodysStep

LEMMA LoopEndsStep == ASSUME ArcInv, NEW s \in Family, LoopEnds(s) PROVE ArcInv'
<1> DEFINE e == [state |-> "idle", with |-> None]
<1>1. PICK l \in {x \in loops : x[1] = s} :
        /\ loops' = loops \ {l} /\ (log' = [log EXCEPT ![s] = e] \/ UNCHANGED log)
        /\ rt' = IF rt[s].h = l[3] THEN [rt EXCEPT ![s].running = FALSE] ELSE rt
        /\ UNCHANGED <<file, torn, loads, open, made, holds, calls, ops, crashes>>
  BY DEF LoopEnds, AppendEvent
<1>2. Tables /\ Handles /\ LoopFits BY TablesAre
<1>3. e \in [state : {"idle", "running", "paused"}, with : Family \cup {None}] /\ e.with = None OBVIOUS
<1> HIDE DEF e
<1>4. /\ log' \in [Family -> [state : {"idle", "running", "paused"}, with : Family \cup {None}]]
      /\ \A d \in Family : log'[d].with \in {log[d].with, None}
  <2>1. CASE UNCHANGED log BY <2>1, <1>2 DEF Tables
  <2>2. CASE log' = [log EXCEPT ![s] = e] BY <2>2, <1>2, <1>3, LogsTyped
  <2>q. QED BY <2>1, <2>2, <1>1
<1>5. /\ rt' \in [Family -> [h : Nat, running : BOOLEAN]]
      /\ \A d \in Family : /\ rt'[d].h = rt[d].h /\ (rt'[d].running => rt[d].running)
                           /\ d # s => rt'[d] = rt[d]
  <2>1. CASE rt' = rt BY <2>1, <1>2 DEF Tables
  <2>2. CASE rt' = [rt EXCEPT ![s].running = FALSE] BY <2>2, <1>2 DEF Tables
  <2>q. QED BY <2>1, <2>2, <1>1
<1>6. Tables' BY <1>1, <1>2, <1>4, <1>5 DEF Tables
<1>7. Handles' BY <1>1, <1>2, <1>5 DEF Handles
<1>8. LoopFits'
  <2>1. \A k \in loops' : k \in loops /\ k[1] # s /\ k[1] \in Family BY <1>1, <1>2 DEF LoopFits, Handles
  <2>2. QED BY <2>1, <1>2, <1>5 DEF LoopFits
<1>9. Grows BY <1>1 DEF Grows
<1>10. Milder BY <1>1, <1>4, ArchiveAssumption DEF Milder, Away
<1>q. QED BY <1>1, <1>6, <1>7, <1>8, <1>9, <1>10, NobodysStep

(* A start of the daemon, the first or after a crash: nothing is going on. *)
LEMMA StartsClean ==
  ASSUME Tables', holds' = {}, loops' = {}, calls' = [c \in Calls |-> Ready],
         made' = [s \in Family |-> <<>>], rt' = [s \in Family |-> NoRun]
  PROVE  ArcInv'
<1>1. Ready \in CallRec /\ Ready.op = "none" /\ CallFits(Ready, file', made') BY ReadyFits
<1>2. calls' \in [Calls -> CallRec] /\ \A c \in Calls : calls'[c] = Ready BY <1>1
<1>3. CallsFit' /\ AloneFits' /\ RestoreFits' BY <1>1, <1>2 DEF CallsFit, AloneFits, RestoreFits
<1>4. Len(<<>>) = 0 /\ \A s \in Family : made'[s] = <<>> /\ rt'[s].h = 0 /\ ~rt'[s].running BY DEF NoRun
<1>5. Handles' BY <1>4 DEF Handles
<1>6. LoopFits' BY <1>4 DEF LoopFits
<1>q. QED BY <1>2, <1>3, <1>5, <1>6 DEF ArcInv, ArcTypes

LEMMA CrashStep == ASSUME ArcInv, CrashAndStart PROVE ArcInv'
<1>1. PICK cut \in SUBSET Listed : torn' = torn \cup cut BY DEF CrashAndStart
<1>2. /\ crashes < MaxCrashes /\ crashes' = crashes + 1
      /\ log' = [s \in Family |->
           IF s \in Listed \ torn' /\ log[s].state = "running"
           THEN [state |-> "paused", with |-> None] ELSE log[s]]
      /\ loads' = [s \in Family |-> loads[s] + 1] /\ open' = [s \in Family |-> s \in Listed \ torn']
      /\ made' = [s \in Family |-> <<>>] /\ rt' = [s \in Family |-> NoRun]
      /\ holds' = {} /\ loops' = {} /\ calls' = [c \in Calls |-> Ready]
      /\ UNCHANGED <<file, ops>>
  BY DEF CrashAndStart
<1>3. Tables BY TablesAre
<1>4. crashes' \in 0 .. MaxCrashes BY <1>2, <1>3, ArchiveAssumption DEF Tables
<1>5. torn' \in SUBSET Family BY <1>1, <1>3 DEF Tables, Listed
<1>6. log' \in [Family -> [state : {"idle", "running", "paused"}, with : Family \cup {None}]]
  <2>1. \A s \in Family : log[s] \in [state : {"idle", "running", "paused"}, with : Family \cup {None}]
    BY <1>3 DEF Tables
  <2>2. [state |-> "paused", with |-> None] \in [state : {"idle", "running", "paused"}, with : Family \cup {None}]
    OBVIOUS
  <2>3. QED BY <2>1, <2>2, <1>2
<1>7. loads' \in [Family -> Nat] BY <1>2, <1>3 DEF Tables
<1>8. open' \in [Family -> BOOLEAN] BY <1>2
<1>9. /\ made' \in [Family -> Seq(Nat)] /\ rt' \in [Family -> [h : Nat, running : BOOLEAN]] BY <1>2 DEF NoRun
<1>10. Tables' BY <1>2, <1>3, <1>4, <1>5, <1>6, <1>7, <1>8, <1>9 DEF Tables
<1>q. QED BY <1>2, <1>10, StartsClean

LEMMA ArcInvInit == ArchiveInit => ArcInv
<1> SUFFICES ASSUME ArchiveInit PROVE ArcInv OBVIOUS
<1>1. Tables
  <2>1. file \in [Family -> {"none", "active", "archive"}] BY DEF ArchiveInit
  <2>2. [state |-> "idle", with |-> None] \in [state : {"idle", "running", "paused"}, with : Family \cup {None}]
    OBVIOUS
  <2>3. log \in [Family -> [state : {"idle", "running", "paused"}, with : Family \cup {None}]]
    BY <2>2 DEF ArchiveInit
  <2>4. open \in [Family -> BOOLEAN] BY DEF ArchiveInit
  <2>5. made \in [Family -> Seq(Nat)] /\ rt \in [Family -> [h : Nat, running : BOOLEAN]]
    BY DEF ArchiveInit, NoRun
  <2>6. torn = {} /\ loads = [s \in Family |-> 1] /\ ops = 0 /\ crashes = 0 BY DEF ArchiveInit
  <2>7. QED BY <2>1, <2>3, <2>4, <2>5, <2>6, ArchiveAssumption DEF Tables
<1>2. Ready \in CallRec /\ Ready.op = "none" /\ CallFits(Ready, file, made) BY ReadyFits
<1>3. calls \in [Calls -> CallRec] /\ \A c \in Calls : calls[c] = Ready BY <1>2 DEF ArchiveInit
<1>4. CallsFit /\ AloneFits /\ RestoreFits BY <1>2, <1>3 DEF CallsFit, AloneFits, RestoreFits
<1>5. /\ Len(<<>>) = 0 /\ holds = {} /\ loops = {}
      /\ \A s \in Family : made[s] = <<>> /\ rt[s].h = 0 /\ ~rt[s].running
  BY DEF ArchiveInit, NoRun
<1>6. Handles BY <1>5 DEF Handles
<1>7. LoopFits BY <1>5 DEF LoopFits
<1>q. QED BY <1>1, <1>3, <1>4, <1>6, <1>7 DEF ArcInv, ArcTypes

LEMMA ArcInvStep == ASSUME ArcInv, [ArchiveNext]_archiveVars PROVE ArcInv'
<1>1. CASE UNCHANGED archiveVars
  <2>1. UNCHANGED <<file, log, torn, loads, open, made, rt, holds, loops, calls, ops, crashes>>
    BY <1>1 DEF archiveVars
  <2>2. QED BY <2>1 DEF ArcInv, ArcTypes, Tables, Handles, CallsFit, LoopFits, AloneFits, RestoreFits
<1>2. ASSUME NEW c \in Calls, NEW s \in Family, Sweep(c, s) PROVE ArcInv'
  <2>1. StartCall(c, "archive", s) BY <1>2 DEF Sweep
  <2>2. QED BY <2>1, StartStep
<1>q. QED
  BY <1>1, <1>2, LookStep, GetStep, AttachStep, LockStep, ArchiveFamilyStep, CheckStep, MoveStep, RestoreStep,
     NoticeStep, RestoreFamilyStep, PromptAppendStep, PromptStartStep, ReturnedStep, StartStep, CreateStep,
     LoopEndsStep, CrashStep
  DEF ArchiveNext

LEMMA ArcInvShows == ArcInv => ArchiveTypeOK /\ ArchiveIsSound
<1> SUFFICES ASSUME ArcInv PROVE ArchiveTypeOK /\ ArchiveIsSound OBVIOUS
<1>1. /\ Tables /\ Handles /\ LoopFits /\ calls \in [Calls -> CallRec] /\ RestoreFits
      /\ \A s \in Family : rt[s].h \in Nat /\ Len(made[s]) \in Nat
  BY TablesAre DEF ArcInv
<1>2. \A s \in Family : rt[s].h \in 0 .. Len(made[s]) BY <1>1 DEF Handles
<1>3. \A s \in Family : log[s].state \in {"idle", "running", "paused"} BY <1>1 DEF Tables
<1>4. \A s \in Family : made[s] \in Seq(Nat) /\ rt[s].running \in BOOLEAN BY <1>1 DEF Tables
<1>5. ArchiveTypeOK BY <1>1, <1>2, <1>3, <1>4 DEF ArchiveTypeOK, Tables, Handles
<1>6. ASSUME NEW s \in Family PROVE Cardinality({l \in loops : l[1] = s}) <= 1
  <2> DEFINE L == {l \in loops : l[1] = s}
  <2>1. \A l, m \in L : l = m BY <1>1 DEF LoopFits
  <2>2. CASE L = {} BY <2>2, FS_EmptySet
  <2>3. CASE L # {}
    <3>1. PICK l \in L : TRUE BY <2>3
    <3>2. L = {l} BY <2>1, <3>1
    <3>3. Cardinality({l}) = 1 BY FS_Singleton
    <3> HIDE DEF L
    <3>4. Cardinality(L) = 1 BY <3>2, <3>3
    <3>5. QED BY <3>4 DEF L
  <2>q. QED BY <2>2, <2>3
<1>7. ASSUME NEW c \in Calls, At(c, "returned"), calls[c].op = "restore", calls[c].end = "ok", calls[c].alone
      PROVE  file[calls[c].of] = "active" /\ WentWith(calls[c].of) = {}
  <2>1. BringsBack(calls[c], file, Away(calls[c].of, file, log, torn)) BY <1>1, <1>7 DEF RestoreFits
  <2>2. WentWith(calls[c].of) = Away(calls[c].of, file, log, torn) BY DEF WentWith, Away
  <2>3. QED BY <2>1, <2>2, <1>7 DEF BringsBack, At
<1>q. QED BY <1>5, <1>6, <1>7 DEF ArchiveIsSound

(* The tables of a daemon's sessions are what their types say: every       *)
(* handle that is used was made, and by the daemon that runs.              *)
THEOREM ArchiveTypeCorrect == ArchiveSpec => []ArchiveTypeOK
<1>1. ArchiveInit => ArcInv BY ArcInvInit
<1>2. ArcInv /\ [ArchiveNext]_archiveVars => ArcInv' BY ArcInvStep
<1>3. ArcInv => ArchiveTypeOK BY ArcInvShows
<1>q. QED BY <1>1, <1>2, <1>3, PTL DEF ArchiveSpec

(* Whatever calls put sessions away, bring them back and prompt them at    *)
(* once, and wherever a crash falls: no session has two loops, and a       *)
(* restore beside which nothing was put away brought back the session and  *)
(* all that had gone with it.                                              *)
THEOREM ArchiveIsAlwaysSound == ArchiveSpec => []ArchiveIsSound
<1>1. ArchiveInit => ArcInv BY ArcInvInit
<1>2. ArcInv /\ [ArchiveNext]_archiveVars => ArcInv' BY ArcInvStep
<1>3. ArcInv => ArchiveIsSound BY ArcInvShows
<1>q. QED BY <1>1, <1>2, <1>3, PTL DEF ArchiveSpec
=============================================================================
