---------------------------- MODULE DaemonStart ----------------------------
(* How a command comes to a daemon and a daemon to its port: the pid file  *)
(* and the port file under the root, the claim, the start on demand, the   *)
(* shutdown (daemon/daemon.go, cmd/rho/commands.go).                       *)
EXTENDS Naturals, FiniteSets

CONSTANTS
  Commands,    \* invocations of rho that need a daemon
  MaxDaemons,  \* bound on the daemons started
  MaxKills,    \* bound on the daemons that die
  MaxStops     \* bound on "rho daemon stop"

ASSUME StartAssumption == {MaxDaemons, MaxKills, MaxStops} \subseteq Nat

VARIABLES
  pidFile, portFile, \* the daemon each file names, 0 for no file
  port,              \* the daemon bound to the configured address
  proc,              \* where each daemon is
  cmd,               \* where each command is
  kills, stops,
  robbed             \* history: a daemon overwrote or removed a file of a living other

startVars == <<pidFile, portFile, port, proc, cmd, kills, stops, robbed>>

Daemons == 1 .. MaxDaemons
Starting == {"new", "claim", "bind", "port", "recover"}
Stopping == {"drain", "close", "unpid", "unport"}
DaemonAlive(d) == d # 0 /\ proc[d] \notin {"none", "gone"}

StartInit ==
  /\ pidFile = 0 /\ portFile = 0 /\ port = 0
  /\ proc = [d \in Daemons |-> "none"]
  /\ cmd = [c \in Commands |-> "idle"]
  /\ kills = 0 /\ stops = 0 /\ robbed = FALSE

Goes(d, from, to) == proc[d] = from /\ proc' = [proc EXCEPT ![d] = to]
Command(c, from, to) == cmd[c] = from /\ cmd' = [cmd EXCEPT ![c] = to]
Files == <<pidFile, portFile, robbed>>

---------------------------------------------------------------------------
(* A living daemon's pid, and an address: it is taken to listen there.     *)
RunningAddr == DaemonAlive(pidFile) /\ portFile # 0

(* A command that finds no daemon starts one, detached, and waits.         *)
EnsureRunning(c) ==
  /\ \/ RunningAddr /\ Command(c, "idle", "dial") /\ UNCHANGED proc
     \/ /\ ~RunningAddr /\ Command(c, "idle", "wait")
        /\ \E d \in Daemons :
             /\ proc[d] = "none" /\ \A e \in 1 .. d - 1 : proc[e] # "none"
             /\ proc' = [proc EXCEPT ![d] = "new"]
  /\ UNCHANGED <<Files, port, kills, stops>>

(* It looks every few milliseconds.  Its deadline is long after whatever   *)
(* is starting or stopping has come to its end.                            *)
WaitForDaemon(c) ==
  /\ \/ RunningAddr /\ Command(c, "wait", "dial")
     \/ /\ ~RunningAddr /\ \A d \in Daemons : proc[d] \in {"none", "serve", "gone"}
        /\ Command(c, "wait", "failed")
  /\ UNCHANGED <<Files, port, proc, kills, stops>>

(* The address is the configured one: it answers if any daemon is bound.   *)
Dial(c) ==
  /\ Command(c, "dial", IF port # 0 THEN "served" ELSE "refused")
  /\ UNCHANGED <<Files, port, proc, kills, stops>>

(* Once served, a command may ask the daemon to stop: it stops listening.  *)
DaemonStop(c) ==
  /\ stops < MaxStops /\ stops' = stops + 1 /\ cmd[c] = "served"
  /\ \E d \in Daemons : Goes(d, "serve", "drain") /\ port = d
  /\ port' = 0 /\ UNCHANGED <<Files, cmd, kills>>

---------------------------------------------------------------------------
(* A daemon: the stack is built with nothing claimed; then the pid file is *)
(* read, and if nobody alive is named there, written.                      *)
ReadPID(d) ==
  /\ proc[d] = "new"
  /\ proc' = [proc EXCEPT ![d] = IF DaemonAlive(pidFile) THEN "gone" ELSE "claim"]
  /\ UNCHANGED <<Files, port, cmd, kills, stops>>

ClaimPID(d) ==
  /\ Goes(d, "claim", "bind")
  /\ pidFile' = d /\ robbed' = (robbed \/ DaemonAlive(pidFile))
  /\ UNCHANGED <<portFile, port, cmd, kills, stops>>

(* The address is free, or the files are removed and the daemon gives up.  *)
Bind(d) ==
  /\ \/ port = 0 /\ Goes(d, "bind", "port") /\ port' = d
     \/ port # 0 /\ Goes(d, "bind", "unpid") /\ UNCHANGED port
  /\ UNCHANGED <<Files, cmd, kills, stops>>

WritePort(d) ==
  /\ Goes(d, "port", "recover") /\ portFile' = d
  /\ UNCHANGED <<pidFile, robbed, port, cmd, kills, stops>>

(* Sessions the log leaves running are paused; then it serves.             *)
Recover(d) ==
  /\ Goes(d, "recover", "serve")
  /\ UNCHANGED <<Files, port, cmd, kills, stops>>

(* Mutant: the pid file goes before the loops are drained.                 *)
DrainLast(d) == Goes(d, "drain", "close") /\ pidFile' = 0 /\ UNCHANGED <<portFile, robbed, port, cmd, kills, stops>>

(* Shutdown: the loops are drained and the store closed, then the files    *)
(* removed, whomever they name.                                            *)
Drain(d) == Goes(d, "drain", "close") /\ UNCHANGED <<Files, port, cmd, kills, stops>>
CloseStore(d) == Goes(d, "close", "unpid") /\ UNCHANGED <<Files, port, cmd, kills, stops>>

ReleasePID(d) ==
  /\ Goes(d, "unpid", "unport")
  /\ pidFile' = 0 /\ robbed' = (robbed \/ (pidFile # d /\ DaemonAlive(pidFile)))
  /\ UNCHANGED <<portFile, port, cmd, kills, stops>>

ReleasePort(d) ==
  /\ Goes(d, "unport", "gone")
  /\ portFile' = 0 /\ robbed' = (robbed \/ (portFile # d /\ DaemonAlive(portFile)))
  /\ UNCHANGED <<pidFile, port, cmd, kills, stops>>

(* A daemon dies; what it wrote stays.                                     *)
Killed(d) ==
  /\ kills < MaxKills /\ kills' = kills + 1
  /\ DaemonAlive(d) /\ proc' = [proc EXCEPT ![d] = "gone"]
  /\ port' = IF port = d THEN 0 ELSE port
  /\ UNCHANGED <<Files, cmd, stops>>

StartNext ==
  \/ \E c \in Commands : EnsureRunning(c) \/ WaitForDaemon(c) \/ Dial(c) \/ DaemonStop(c)
  \/ \E d \in Daemons : \/ ReadPID(d) \/ ClaimPID(d) \/ Bind(d) \/ WritePort(d) \/ Recover(d)
                        \/ Drain(d) \/ CloseStore(d) \/ ReleasePID(d) \/ ReleasePort(d) \/ Killed(d)

StartSpec == StartInit /\ [][StartNext]_startVars

---------------------------------------------------------------------------
StartTypeOK ==
  /\ {pidFile, portFile, port} \subseteq 0 .. MaxDaemons
  /\ proc \in [Daemons -> {"none", "serve", "gone"} \cup Starting \cup Stopping]
  /\ cmd \in [Commands -> {"idle", "wait", "dial", "served", "refused", "failed"}]
  /\ kills \in 0 .. MaxKills /\ stops \in 0 .. MaxStops /\ robbed \in BOOLEAN

(* One daemon writes the root's sessions: while one works on them, or has  *)
(* not finished putting them away, no other pauses or serves them; but two *)
(* that were started at once may lose one of them the pid file.  And the   *)
(* files go back to how they were: a daemon that is gone by its own leave  *)
(* is named in neither.                                                    *)
Writing == {d \in Daemons : proc[d] \in {"recover", "serve", "drain", "close"}}
OneDaemonWrites ==
  ~robbed => /\ Cardinality(Writing) <= 1
             /\ \A d \in Daemons : proc[d] = "serve" => pidFile = d /\ portFile = d
             /\ kills = 0 => {pidFile, portFile} \cap {d \in Daemons : proc[d] = "gone"} = {}

(* daemon.go, EnsureRunning: "Every entry point uses it, so no command     *)
(* ever asks a person to start a daemon by hand."                          *)
NoCommandGivesUp == \A c \in Commands : cmd[c] # "failed"
=============================================================================
