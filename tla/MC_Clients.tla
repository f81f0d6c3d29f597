----------------------------- MODULE MC_Clients ----------------------------
(* The clients, for TLC: the parts run one at a time, each in an instance  *)
(* of its own.  They share no state, so that a behaviour of all of them is *)
(* one of each.                                                            *)
EXTENDS Goals, RunCrash, Watcher, Phone, Terminal, TLC

VARIABLE part

clientVars == <<goalVars, runCrashVars, watcherVars, phoneVars, terminalVars>>

MCSymmetry == Permutations(Refreshers)
MCPromptOf == [p \in {"p"} |-> "s"]

ClientsInit ==
  /\ part \in {"goals", "crash", "watcher", "phone", "mirror", "terminal"}
  /\ GoalsInit /\ RunCrashInit /\ WatcherInit /\ PhoneInit /\ TerminalInit
  /\ part # "terminal" => screen.on = "s"
  /\ part \notin {"phone", "mirror"} => link.up = "off"
  /\ part # "mirror" => \A r \in Refreshers : refresh[r] = Resting

Only(p, A) == part = p /\ A /\ UNCHANGED part

(* Once something ScreenIsWhole excuses has happened, the screen is left.  *)
TerminalGoesOn == spoiled = {} /\ TerminalNext

(* The phone's prompts, while the session has no other event and nobody    *)
(* asks for the list; and its mirror, while nobody types.                  *)
PromptsGoOn == PhoneNext /\ UNCHANGED refresh /\ 0 \notin Range(Tail(eventLog')) /\ been'.cuts <= 1
MirrorGoesOn == PhoneNext /\ UNCHANGED <<outbox, paused>>

ClientsNext ==
  \/ Only("goals", GoalsNext) /\ UNCHANGED <<runCrashVars, watcherVars, phoneVars, terminalVars>>
  \/ Only("crash", RunCrashNext) /\ UNCHANGED <<goalVars, watcherVars, phoneVars, terminalVars>>
  \/ Only("watcher", WatcherNext) /\ UNCHANGED <<goalVars, runCrashVars, phoneVars, terminalVars>>
  \/ Only("phone", PromptsGoOn) /\ UNCHANGED <<goalVars, runCrashVars, watcherVars, terminalVars>>
  \/ Only("mirror", MirrorGoesOn) /\ UNCHANGED <<goalVars, runCrashVars, watcherVars, terminalVars>>
  \/ Only("terminal", TerminalGoesOn) /\ UNCHANGED <<goalVars, runCrashVars, watcherVars, phoneVars>>

ClientsSpec == ClientsInit /\ [][ClientsNext]_<<part, clientVars>>

ClientsTypeOK ==
  GoalTypeOK /\ RunCrashTypeOK /\ WatcherTypeOK /\ PhoneTypeOK /\ TerminalTypeOK
=============================================================================
