------------------------------ MODULE Archive ------------------------------
(***************************************************************************)
(* Session logs on disk, the Session objects the store keeps open on them, *)
(* the runtimes the manager keeps for those, and what moves a log away and *)
(* back (daemon/session/store.go, daemon/agent/manager.go).                *)
(*                                                                         *)
(* Three tables name the same session, each under a lock of its own: the   *)
(* directory, Store.open and Manager.rt.  A Session object is known by the *)
(* number of the load that made it; it is closed for good when the log     *)
(* moves, while handles made on it live on with the calls that hold them.  *)
(***************************************************************************)
EXTENDS Naturals, Sequences, FiniteSets, Functions

CONSTANTS
  Family,   \* session ids, in the order of their creation
  Parent,     \* the options' parent of each, or None
  Calls,      \* goroutines serving clients, and the sweep's
  None,
  MaxOps,     \* bound on the operations begun
  MaxCrashes  \* bound on the crashes

ASSUME ArchiveAssumption ==
  /\ IsFiniteSet(Family) /\ None \notin Family \cup Calls
  /\ Parent \in [Family -> Family \cup {None}]
  /\ MaxOps \in Nat /\ MaxCrashes \in Nat

VARIABLES
  file,    \* where each log is: "none", "active" or "archive"
  log,     \* what the calls read of it: the state, and whose archive took it if its last event says so
  torn,    \* logs whose last line a crash left half written
  loads,   \* how many Session objects were made of each log
  open,    \* Store.open holds the latest of them
  made,    \* the object under each handle made since the start
  rt,      \* Manager.rt: a handle, 0 for none, and runState.running
  holds,   \* who holds the compactMu of which handle
  loops,   \* loop goroutines, each working on a handle
  calls, ops, crashes

archiveVars == <<file, log, torn, loads, open, made, rt, holds, loops, calls, ops, crashes>>

Listed   == {s \in Family : file[s] = "active"}
NoRun    == [h |-> 0, running |-> FALSE]
Ready    == [at |-> "ready", op |-> "none", of |-> None, on |-> None, then |-> "none", h |-> 0,
             object |-> 0, todo |-> <<>>, alone |-> TRUE, end |-> "none"]

At(c, place)     == calls[c].at = place
GoesTo(c, place) == calls' = [calls EXCEPT ![c].at = place]
Return(c, how)   == calls' = [calls EXCEPT ![c] = [@ EXCEPT !.at = "returned", !.end = how]]
GoesWith(c, h)   == calls' = [calls EXCEPT ![c] = [@ EXCEPT !.at = calls[c].then, !.h = h]]
Attaches(c, o)   == calls' = [calls EXCEPT ![c] = [@ EXCEPT !.at = "attach", !.object = o]]
Alive(s, object) == open[s] /\ loads[s] = object
OnLive(c)     == Alive(calls[c].on, made[calls[c].on][calls[c].h])
Unlock(c)     == holds' = {l \in holds : l[3] # c}

AppendEvent(s, state) == log' = [log EXCEPT ![s] = [state |-> state, with |-> None]]

(* A start loads every listed log, for RecoverInterrupted lists them.      *)
ArchiveInit ==
  /\ file = [s \in Family |-> IF Parent[s] = None THEN "active" ELSE "none"]
  /\ log = [s \in Family |-> [state |-> "idle", with |-> None]] /\ torn = {}
  /\ loads = [s \in Family |-> 1] /\ open = [s \in Family |-> file[s] = "active"]
  /\ made = [s \in Family |-> <<>>] /\ rt = [s \in Family |-> NoRun]
  /\ holds = {} /\ loops = {} /\ calls = [c \in Calls |-> Ready] /\ ops = 0 /\ crashes = 0

---------------------------------------------------------------------------
(* Manager.Create: the parent must be known, live or archived.             *)
CreateSession(s) ==
  /\ file[s] = "none" /\ file[Parent[s]] # "none"
  /\ file' = [file EXCEPT ![s] = "active"] /\ open' = [open EXCEPT ![s] = TRUE]
  /\ made' = [made EXCEPT ![s] = <<loads[s]>>] /\ rt' = [rt EXCEPT ![s].h = 1]
  /\ UNCHANGED <<log, torn, loads, holds, loops, calls, ops, crashes>>

(* descendants: of the sessions that are listed, nearest first.            *)
Generation(s, n) ==
  {d \in Listed : \E path \in [0 .. n -> Family] :
     path[0] = s /\ path[n] = d /\ \A i \in 1 .. n : path[i] \in Listed /\ Parent[path[i]] = path[i - 1]}
Descendants(s) == {d \in Listed : \E n \in 1 .. Cardinality(Family) : d \in Generation(s, n)}
Orders(S) == {q \in [1 .. Cardinality(S) -> S] : \A e \in S : \E i \in DOMAIN q : q[i] = e}
NearestFirst(q, s) ==
  \A i, j \in DOMAIN q : i < j =>
    \E m, n \in 1 .. Cardinality(Family) : m <= n /\ q[i] \in Generation(s, m) /\ q[j] \in Generation(s, n)

StartCall(c, op, s) ==
  /\ At(c, "ready") /\ ops < MaxOps /\ file[s] # "none"
  /\ LET begun == [Ready EXCEPT
           !.op = op, !.of = s, !.on = s, !.at = IF op = "restore" THEN "restore" ELSE "look",
           !.then = CASE op = "archive" -> "family" [] op = "restore" -> "restored" [] OTHER -> "lock",
           !.alone = \A d \in Calls \ {c} : calls[d].op # "archive"]
     IN  calls' = [d \in Calls |-> IF d = c THEN begun
                                  ELSE [calls[d] EXCEPT !.alone = @ /\ op # "archive"]]
  /\ ops' = ops + 1
  /\ UNCHANGED <<file, log, torn, loads, open, made, rt, holds, loops, crashes>>

(* ArchiveIdle: a family with no listed parent and nothing running, which  *)
(* by the clock is left alone, goes the way of a client's request.         *)
Sweep(c, s) ==
  /\ s \in Listed /\ Parent[s] \notin Listed
  /\ \A d \in {s} \cup Descendants(s) : log[d].state # "running"
  /\ StartCall(c, "archive", s)

---------------------------------------------------------------------------
(* Manager.handle, in its three critical sections: the runtime, or the     *)
(* store's object, or one loaded now, and then the runtime made for it     *)
(* unless another call made one first.                                     *)
Look(c) ==
  /\ At(c, "look")
  /\ LET run == rt[calls[c].on] IN IF run.h # 0 THEN GoesWith(c, run.h) ELSE GoesTo(c, "get")
  /\ UNCHANGED <<file, log, torn, loads, open, made, rt, holds, loops, ops, crashes>>

Get(c) ==
  LET s == calls[c].on IN
  /\ At(c, "get")
  /\ \/ /\ ~open[s] /\ (s \notin Listed \/ s \in torn)
        /\ Return(c, "failed") /\ UNCHANGED <<loads, open>>
     \/ /\ open[s] /\ Attaches(c, loads[s]) /\ UNCHANGED <<loads, open>>
     \/ /\ ~open[s] /\ s \in Listed \ torn
        /\ Attaches(c, loads[s] + 1)
        /\ loads' = [loads EXCEPT ![s] = @ + 1] /\ open' = [open EXCEPT ![s] = TRUE]
  /\ UNCHANGED <<file, log, torn, made, rt, holds, loops, ops, crashes>>

Attach(c) ==
  LET s == calls[c].on IN
  /\ At(c, "attach")
  /\ \/ /\ rt[s].h # 0
        /\ GoesWith(c, rt[s].h) /\ UNCHANGED <<made, rt>>
     \/ /\ rt[s].h = 0
        /\ made' = [made EXCEPT ![s] = Append(@, calls[c].object)]
        /\ rt' = [rt EXCEPT ![s] = [h |-> Len(made[s]) + 1, running |-> FALSE]]
        /\ GoesWith(c, Len(made[s]) + 1)
  /\ UNCHANGED <<file, log, torn, loads, open, holds, loops, ops, crashes>>

(* compactMu, of the handle the call came by.                              *)
Lock(c) ==
  LET key == <<calls[c].on, calls[c].h>> IN
  /\ At(c, "lock") /\ \A l \in holds : <<l[1], l[2]>> # key
  /\ holds' = holds \cup {<<key[1], key[2], c>>}
  /\ GoesTo(c, IF calls[c].op = "archive" THEN "check" ELSE "append")
  /\ UNCHANGED <<file, log, torn, loads, open, made, rt, loops, ops, crashes>>

---------------------------------------------------------------------------
(* The next of a family, or the end of the call.                           *)
Onward(c, todo) ==
  IF todo = <<>> THEN Return(c, "ok")
  ELSE LET archives == calls[c].op = "archive"
       IN  calls' = [calls EXCEPT ![c] = [@ EXCEPT
             !.at = IF archives THEN "look" ELSE "restore", !.on = Head(todo), !.todo = Tail(todo),
             !.then = IF archives THEN "lock" ELSE "restored"]]

(* Manager.Archive: listing loads what is not open, and one log that       *)
(* cannot be read ends the call; so does a descendant that is running.     *)
ArchiveFamily(c) ==
  LET s == calls[c].of
      unread == {d \in Listed \ torn : ~open[d]}
      family == Descendants(s) IN
  /\ At(c, "family")
  /\ loads' = [d \in Family |-> IF d \in unread THEN loads[d] + 1 ELSE loads[d]]
  /\ open' = [d \in Family |-> open[d] \/ d \in unread]
  /\ IF \E d \in Listed \cap torn : ~open[d] THEN Return(c, "failed")
     ELSE IF \E d \in family : rt[d].running \/ log[d].state = "running" THEN Return(c, "refused")
     ELSE \E q \in Orders(family) : NearestFirst(q, s) /\ Onward(c, Append(q, s))
  /\ UNCHANGED <<file, log, torn, made, rt, holds, loops, ops, crashes>>

(* archiveOne under Manager.mu: refused, or recorded and forgotten.        *)
ArchiveCheck(c) ==
  LET s == calls[c].on IN
  /\ At(c, "check")
  /\ \/ /\ rt[s].running \/ log[s].state = "running" \/ ~OnLive(c)
        /\ Return(c, IF rt[s].running \/ log[s].state = "running" THEN "refused" ELSE "failed")
        /\ Unlock(c) /\ UNCHANGED <<log, rt>>
     \/ /\ ~rt[s].running /\ log[s].state # "running" /\ OnLive(c)
        /\ log' = [log EXCEPT ![s].with = IF s = calls[c].of THEN None ELSE calls[c].of]
        /\ rt' = [rt EXCEPT ![s] = NoRun]
        /\ GoesTo(c, "move") /\ UNCHANGED holds
  /\ UNCHANGED <<file, torn, loads, open, made, loops, ops, crashes>>

(* Store.Archive: whatever object the store has open by now is closed, and *)
(* the log moves.                                                          *)
Move(c) ==
  LET s == calls[c].on IN
  /\ At(c, "move")
  /\ file' = [file EXCEPT ![s] = "archive"] /\ open' = [open EXCEPT ![s] = FALSE]
  /\ Unlock(c)
  /\ Onward(c, calls[c].todo)
  /\ UNCHANGED <<log, torn, loads, made, rt, loops, ops, crashes>>

---------------------------------------------------------------------------
(* restoreOne: the log comes back, a handle is taken, the notice follows;  *)
(* after the session named come those whose last event says they went with *)
(* it.                                                                     *)
Restore(c) ==
  LET s == calls[c].on IN
  /\ At(c, "restore")
  /\ file' = [file EXCEPT ![s] = "active"]
  /\ GoesTo(c, "look")
  /\ UNCHANGED <<log, torn, loads, open, made, rt, holds, loops, ops, crashes>>

RestoreNotice(c) ==
  /\ At(c, "restored")
  /\ \/ ~OnLive(c) /\ Return(c, "failed") /\ UNCHANGED log
     \/ /\ OnLive(c) /\ log' = [log EXCEPT ![calls[c].on].with = None]
        /\ IF calls[c].on = calls[c].of THEN GoesTo(c, "listing") ELSE Onward(c, calls[c].todo)
  /\ UNCHANGED <<file, torn, loads, open, made, rt, holds, loops, ops, crashes>>

WentWith(s) == {d \in Family \ torn : file[d] = "archive" /\ log[d].with = s}

RestoreFamily(c) ==
  /\ At(c, "listing")
  /\ \E q \in Orders(WentWith(calls[c].of)) : Onward(c, q)
  /\ UNCHANGED <<file, log, torn, loads, open, made, rt, holds, loops, ops, crashes>>

---------------------------------------------------------------------------
(* Prompt, from the lock on.                                               *)
PromptAppend(c) ==
  LET s == calls[c].on IN
  /\ At(c, "append")
  /\ \/ /\ ~OnLive(c) \/ log[s].state = "paused"
        /\ Return(c, "failed") /\ Unlock(c) /\ UNCHANGED log
     \/ /\ OnLive(c) /\ log[s].state # "paused"
        /\ log' = [log EXCEPT ![s].with = None]
        /\ GoesTo(c, "start") /\ UNCHANGED holds
  /\ UNCHANGED <<file, torn, loads, open, made, rt, loops, ops, crashes>>

(* A loop by its session, the handle it works on, the runtime it clears,   *)
(* and how many the session had when it began.                             *)
NewLoop(c) ==
  LET s == calls[c].on
  IN  <<s, calls[c].h, rt[s].h, Cardinality({l \in loops : l[1] = s})>>

(* Mutant: a turn is started beside the one that is running.               *)
PromptStartAgain(c) ==
  LET s == calls[c].on IN
  /\ At(c, "start") /\ rt[s].h # 0 /\ OnLive(c)
  /\ AppendEvent(s, "running")
  /\ rt' = [rt EXCEPT ![s].running = TRUE] /\ loops' = loops \cup {NewLoop(c)}
  /\ Unlock(c) /\ Return(c, "ok")
  /\ UNCHANGED <<file, torn, loads, open, made, ops, crashes>>

(* ensureRunning looks the runtime up by id, and appends by the handle.    *)
PromptStart(c) ==
  LET s == calls[c].on IN
  /\ At(c, "start")
  /\ \/ /\ rt[s].h # 0 /\ ~rt[s].running /\ OnLive(c)
        /\ AppendEvent(s, "running")
        /\ rt' = [rt EXCEPT ![s].running = TRUE] /\ loops' = loops \cup {NewLoop(c)}
     \/ /\ rt[s].h = 0 \/ rt[s].running \/ ~OnLive(c)
        /\ UNCHANGED <<log, rt, loops>>
  /\ Unlock(c) /\ Return(c, "ok")
  /\ UNCHANGED <<file, torn, loads, open, made, ops, crashes>>

(* The loop records idle, and clears running in the runtime it was started *)
(* by, which may be in rt no more.                                         *)
LoopEnds(s) ==
  \E l \in {x \in loops : x[1] = s} :
    /\ loops' = loops \ {l}
    /\ IF Alive(s, made[s][l[2]]) THEN AppendEvent(s, "idle") ELSE UNCHANGED log
    /\ rt' = IF rt[s].h = l[3] THEN [rt EXCEPT ![s].running = FALSE] ELSE rt
    /\ UNCHANGED <<file, torn, loads, open, made, holds, calls, ops, crashes>>

---------------------------------------------------------------------------
Returned(c) ==
  /\ At(c, "returned") /\ calls' = [calls EXCEPT ![c] = Ready]
  /\ UNCHANGED <<file, log, torn, loads, open, made, rt, holds, loops, ops, crashes>>

(* A crash, which may cut one log's last line short, and the start after   *)
(* it: RecoverInterrupted pauses what the log says was running.            *)
CrashAndStart ==
  /\ crashes < MaxCrashes /\ crashes' = crashes + 1
  /\ \E cut \in SUBSET Listed : Cardinality(cut) <= 1 /\ torn' = torn \cup cut
  /\ log' = [s \in Family |->
       IF s \in Listed \ torn' /\ log[s].state = "running"
       THEN [state |-> "paused", with |-> None] ELSE log[s]]
  /\ loads' = [s \in Family |-> loads[s] + 1] /\ open' = [s \in Family |-> s \in Listed \ torn']
  /\ made' = [s \in Family |-> <<>>] /\ rt' = [s \in Family |-> NoRun]
  /\ holds' = {} /\ loops' = {} /\ calls' = [c \in Calls |-> Ready]
  /\ UNCHANGED <<file, ops>>

ArchiveNext ==
  \/ \E c \in Calls :
       \/ Look(c) \/ Get(c) \/ Attach(c) \/ Lock(c) \/ ArchiveFamily(c) \/ ArchiveCheck(c) \/ Move(c)
       \/ Restore(c) \/ RestoreNotice(c) \/ RestoreFamily(c)
       \/ \/ PromptAppend(c) \/ PromptStart(c) \/ Returned(c)
       \/ \E s \in Family : Sweep(c, s) \/ \E op \in {"archive", "restore", "prompt"} : StartCall(c, op, s)
  \/ \E s \in Family : CreateSession(s) \/ LoopEnds(s)
  \/ CrashAndStart

ArchiveSpec == ArchiveInit /\ [][ArchiveNext]_archiveVars

---------------------------------------------------------------------------
ArchiveTypeOK ==
  /\ file \in [Family -> {"none", "active", "archive"}]
  /\ \A s \in Family :
       /\ log[s].state \in {"idle", "running", "paused"}
       /\ made[s] \in Seq(Nat) /\ rt[s].h \in 0 .. Len(made[s]) /\ rt[s].running \in BOOLEAN
  /\ torn \subseteq Family /\ loads \in [Family -> Nat] /\ open \in [Family -> BOOLEAN]
  /\ \A l \in holds : l[1] \in Family /\ l[2] \in DOMAIN made[l[1]] /\ l[3] \in Calls
  /\ \A l \in loops : l[1] \in Family /\ l[2] \in DOMAIN made[l[1]]
  /\ ops \in 0 .. MaxOps /\ crashes \in 0 .. MaxCrashes

(* Putting a session away, bringing it back and prompting it, in any order *)
(* and by several calls at once: it never has a second loop beside one     *)
(* that still works, over every handle ever made of it; and a restore that *)
(* succeeded while no other call archived brought back the session and     *)
(* everything that had gone with it.                                       *)
ArchiveIsSound ==
  /\ \A s \in Family : Cardinality({l \in loops : l[1] = s}) <= 1
  /\ \A c \in Calls :
       At(c, "returned") /\ calls[c].op = "restore" /\ calls[c].end = "ok" /\ calls[c].alone
       => file[calls[c].of] = "active" /\ WentWith(calls[c].of) = {}
=============================================================================
