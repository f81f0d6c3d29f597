-------------------------- MODULE WorkspaceWatch ---------------------------
(* The watch module: before each request it compares the workspace with    *)
(* what it was before the last one, and tells the model what somebody else *)
(* changed (modules/watch/watch.go).  What the agent's tools change is its *)
(* own: a write names its path, a shell command is looked at before and    *)
(* after.  What a command leaves running changes files after that: a       *)
(* server, or a grandchild of one that timed out (tools/bash.go).          *)
EXTENDS Naturals, FiniteSets, FiniteSetsExt

CONSTANTS
  Paths,      \* the files
  MaxFiles,   \* max_files: a larger workspace is not scanned
  MaxReported,\* max_reported
  MaxChanges  \* bound on the changes

ASSUME WsAssumption == IsFiniteSet(Paths) /\ {MaxFiles, MaxReported} \subseteq Nat /\ MaxChanges \in Nat \ {0}

VARIABLES
  disk,    \* the version of each file, 0 when there is none
  last,    \* the snapshot before the last request, or NoSnapshot
  mine,    \* what the agent changed since
  before,  \* the snapshot before a shell call, or NoSnapshot
  leftover, \* a command's process outlives it
  tool,    \* the call under way: "none", "gated" while other gates decide, "shell"
  sessionOff, \* the workspace proved too large
  report,  \* what the last request named, and how many more it counted
  who,     \* history: who changed each file since the last request
  blind,   \* history: a command since then met a workspace too large to look at
  missed,  \* history: files the last request left out, both the agent's and others'
  changes  \* changes so far

wsVars == <<disk, last, mine, before, leftover, tool, sessionOff, report, who, blind, missed, changes>>

NoSnapshot == [f \in Paths |-> MaxChanges + 1]
Exists(snap) == {f \in Paths : snap[f] # 0}
TooLarge(snap) == Cardinality(Exists(snap)) > MaxFiles

(* Added, modified or deleted, and not the agent's own.                    *)
Diff(old, new, own) == {f \in Paths \ own : old[f] # new[f]}

WsInit ==
  /\ disk \in [Paths -> {0, 1}]
  /\ last = NoSnapshot /\ mine = {} /\ before = NoSnapshot /\ leftover = FALSE /\ tool = "none"
  /\ sessionOff = FALSE /\ report = [named |-> {}, more |-> 0]
  /\ who = [f \in Paths |-> {}] /\ blind = FALSE /\ missed = {} /\ changes = 1

(* A file gets a version it never had, or goes.                            *)
Change(f, by) ==
  /\ changes < MaxChanges /\ changes' = changes + 1
  /\ \E v \in {0, changes + 1} : v # disk[f] /\ disk' = [disk EXCEPT ![f] = v]
  /\ who' = [who EXCEPT ![f] = @ \cup {by, IF by = "other" /\ tool # "none" THEN "meanwhile" ELSE by}]

OtherChanges(f) ==
  /\ Change(f, "other") /\ UNCHANGED <<last, mine, before, leftover, tool, sessionOff, report, blind, missed>>

(* A write or an edit that worked (ToolResult).                            *)
AgentWrites(f) ==
  /\ tool = "none" /\ Change(f, "agent") /\ disk'[f] # 0 /\ mine' = mine \cup {f}
  /\ UNCHANGED <<last, before, leftover, tool, sessionOff, report, blind, missed>>

(* A shell command comes to the gates: this one looks and lets it pass.    *)
GateShell ==
  /\ tool = "none" /\ tool' = "gated"
  /\ before' = IF sessionOff \/ TooLarge(disk) THEN NoSnapshot ELSE disk
  /\ UNCHANGED <<disk, last, mine, leftover, sessionOff, report, who, blind, missed, changes>>

ShellStarts ==
  /\ tool = "gated" /\ tool' = "shell"
  /\ UNCHANGED <<disk, last, mine, before, leftover, sessionOff, report, who, blind, missed, changes>>

ShellChanges(f) ==
  /\ tool = "shell" /\ Change(f, "agent")
  /\ UNCHANGED <<last, mine, before, leftover, tool, sessionOff, report, blind, missed>>

(* What a command left behind changes a file, whatever goes on meanwhile.  *)
LeftoverChanges(f) ==
  /\ leftover /\ Change(f, "left")
  /\ UNCHANGED <<last, mine, before, leftover, tool, sessionOff, report, blind, missed>>

(* Mutant: what a command changed is nobody's.                             *)
ClaimNothing ==
  /\ tool \in {"gated", "shell"} /\ tool' = "none" /\ before' = NoSnapshot
  /\ blind' = (blind \/ (tool = "shell" /\ (before = NoSnapshot \/ TooLarge(disk))))
  /\ UNCHANGED <<disk, last, mine, leftover, sessionOff, report, who, missed, changes>>

(* The command is over, however it ended: what it changed is the agent's.  *)
(* One that was refused changed nothing; one that ran may leave a process. *)
ClaimShellChanges ==
  /\ tool \in {"gated", "shell"} /\ tool' = "none" /\ before' = NoSnapshot
  /\ mine' = IF tool = "gated" \/ before = NoSnapshot \/ TooLarge(disk) THEN mine
             ELSE mine \cup Diff(before, disk, {})
  /\ blind' = (blind \/ (tool = "shell" /\ (before = NoSnapshot \/ TooLarge(disk))))
  /\ leftover' \in {leftover, leftover \/ tool = "shell"}
  /\ UNCHANGED <<disk, last, sessionOff, report, who, missed, changes>>

(* The boundary: a new snapshot, nothing its own, and the difference told. *)
Told(fs) ==
  LET shown == IF Cardinality(fs) > MaxReported THEN MaxReported ELSE Cardinality(fs)
  IN  {[named |-> n, more |-> Cardinality(fs \ n)] : n \in kSubset(shown, fs)}
WsBeforeRequest ==
  /\ tool = "none" /\ ~sessionOff
  /\ who' = [f \in Paths |-> {}] /\ blind' = FALSE
  /\ IF TooLarge(disk)
     THEN sessionOff' = TRUE /\ report' = [named |-> {}, more |-> 0] /\ UNCHANGED <<last, mine>>
     ELSE /\ last' = disk /\ mine' = {} /\ UNCHANGED sessionOff
          /\ report' \in IF last = NoSnapshot THEN Told({}) ELSE Told(Diff(last, disk, mine))
  /\ missed' = IF last = NoSnapshot THEN {} ELSE
               {f \in Paths \ report'.named : {"agent", "other"} \subseteq who[f] /\ disk[f] # last[f]}
  /\ UNCHANGED <<disk, before, leftover, tool, changes>>

(* The session ends or the daemon restarts: the next request only looks.   *)
SessionForgotten ==
  /\ tool = "none" /\ last # NoSnapshot
  /\ last' = NoSnapshot /\ mine' = {} /\ sessionOff' = FALSE
  /\ UNCHANGED <<disk, before, leftover, tool, report, who, blind, missed, changes>>

WsNext ==
  \/ \E f \in Paths : OtherChanges(f) \/ AgentWrites(f) \/ ShellChanges(f) \/ LeftoverChanges(f)
  \/ GateShell \/ ShellStarts \/ ClaimShellChanges \/ WsBeforeRequest \/ SessionForgotten

WsSpec == WsInit /\ [][WsNext]_wsVars

---------------------------------------------------------------------------
WsTypeOK ==
  /\ disk \in [Paths -> 0 .. MaxChanges] /\ mine \subseteq Paths /\ sessionOff \in BOOLEAN
  /\ {last, before} \subseteq [Paths -> 0 .. MaxChanges + 1]
  /\ leftover \in BOOLEAN /\ tool \in {"none", "gated", "shell"} /\ report.named \subseteq Paths

(* What a request says of the workspace is right: it names no file that    *)
(* only the agent changed, and leaves out none that only others changed    *)
(* while no command of the agent's ran, but for a list that is too long.   *)
(* Two things of the agent's are told as somebody else's all the same:     *)
(* what a command left running changes after the command, and what one did *)
(* that could not be looked at, the workspace being too large for a moment. *)
ReportsAreRight ==
  [][last' = disk /\ disk' = disk /\ last # NoSnapshot /\ who # who' =>
       /\ ~blind => \A f \in report'.named : who[f] \cap {"other", "left"} # {}
       /\ \A f \in Paths :
            who[f] = {"other"} /\ disk[f] # last[f] => f \in report'.named \/ report'.more > 0
       /\ report'.more > 0 => Cardinality(report'.named) = MaxReported]_wsVars

(* A file the agent wrote and somebody else changed in the same window is  *)
(* missed once, and caught on the following turn (watch.go:241): the next  *)
(* request names it.                                                       *)
MissedIsCaught ==
  [][WsBeforeRequest /\ last # NoSnapshot /\ ~sessionOff' =>
       \A f \in missed : f \in report'.named \/ report'.more > 0]_wsVars

=============================================================================
