---------------------------- MODULE MC_Service -----------------------------
(* What the daemon owes its clients around the turns, for TLC: the parts   *)
(* run one at a time, each in an instance of its own.  They share no       *)
(* state, so that a behaviour of all of them is one of each.               *)
EXTENDS Requests, MC_Archive, DaemonStart, Memory, Stats

VARIABLE part

MCAt(k, t) == [k |-> k, at |-> t]
MCHomes == { << >>,
  << MCAt("user", 1), MCAt("running", 1), MCAt("assistant", 2), MCAt("assistant", 4) >>,
  << MCAt("labels", 2), MCAt("running", 2), MCAt("call", 2), MCAt("error", 3), MCAt("interrupted", 3) >> }
MCSteps == { << >>,
  << MCAt("running", 0), MCAt("user", 0), MCAt("idle", 3), MCAt("running", 4), MCAt("call", 4) >>,
  << MCAt("running", 2), MCAt("call", 2), MCAt("running", 2), MCAt("assistant", 4), MCAt("idle", 4) >> }
MCBefore == {[s \in {"home", "step"} |-> IF s = "home" THEN x ELSE y] : x \in MCHomes, y \in MCSteps}

MCSymmetry == Permutations(Clients)

serviceVars == <<notifierVars, requestVars, archiveVars, statsVars, startVars, memoryVars>>

ServiceInit ==
  /\ part \in {"requests", "notices", "archive", "stats", "start", "memory"}
  /\ NotifierInit /\ RequestsInit /\ ArchiveInit /\ StartInit /\ MemoryInit /\ StatsInit
  /\ part # "stats" => time = 0

Only(p, A) == part = p /\ A /\ UNCHANGED part

(* Once a fault MemoryIsKept excuses has happened, the memories are left.  *)
MemoryGoesOn == ~faults.overlap /\ ~faults.wrongStore /\ MemoryNext

(* Requests among clients, with one change of state beside them; and what  *)
(* the phones are told over a turn, a stop and a restart, with one client and  *)
(* one list of devices.                                                    *)
RequestsGoOn == RequestsNext /\ appends' <= 1
NoticesGoOn == RequestsNext /\ UNCHANGED devices /\ Cardinality(subscribed') <= 1

ServiceNext ==
  \/ Only("requests", RequestsGoOn) /\ UNCHANGED <<archiveVars, statsVars, startVars, memoryVars>>
  \/ Only("notices", NoticesGoOn) /\ UNCHANGED <<archiveVars, statsVars, startVars, memoryVars>>
  \/ Only("archive", ArchiveNext) /\ UNCHANGED <<notifierVars, requestVars, statsVars, startVars, memoryVars>>
  \/ Only("stats", StatsNext) /\ UNCHANGED <<notifierVars, requestVars, archiveVars, startVars, memoryVars>>
  \/ Only("start", StartNext) /\ UNCHANGED <<notifierVars, requestVars, archiveVars, statsVars, memoryVars>>
  \/ Only("memory", MemoryGoesOn) /\ UNCHANGED <<notifierVars, requestVars, archiveVars, statsVars, startVars>>

ServiceSpec == ServiceInit /\ [][ServiceNext]_<<part, serviceVars>>

ServiceTypeOK ==
  NotifierTypeOK /\ RequestsTypeOK /\ ArchiveTypeOK /\ StatsTypeOK /\ StartTypeOK /\ MemoryTypeOK
=============================================================================
