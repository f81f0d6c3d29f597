----------------------------- MODULE ToolCalls -----------------------------
(***************************************************************************)
(* One turn of a session, from the model's reply to the next request: the  *)
(* batch of tool calls, the gates each call goes through, the hooks the    *)
(* module registry isolates, and the way a session ends                    *)
(* (daemon/agent/runner.go and manager.go, daemon/module/registry.go).     *)
(*                                                                         *)
(* A hook runs in a goroutine of its own.  One that panics or outlives its *)
(* timeout disables its module for the session, and the loop goes on       *)
(* without its answer; the goroutine is not stopped, and what it still     *)
(* does lands among the later events (a "zombie" here).                    *)
(***************************************************************************)
EXTENDS Naturals, Sequences, FiniteSets, SequencesExt

CONSTANTS
  Gates,       \* the modules, in registration order
  MaxCalls,    \* bound on the tool calls of one reply
  MaxReplies,  \* bound on the model's replies
  MaxFaults    \* bound on appends that fail

ASSUME ToolCallsAssumption ==
  /\ Gates \in Seq(STRING) /\ Len(Gates) > 0
  /\ MaxCalls \in Nat /\ MaxReplies \in Nat /\ MaxFaults \in Nat

VARIABLES
  loop,      \* where the session's loop is; "none" when its goroutine is gone
  session,   \* the session's state, as the log has it
  off,       \* disabled[session]: the modules out of this session
  zombies,   \* modules with a hook goroutine the loop no longer waits for
  halted,    \* the handle's halted flag
  calls,     \* the model's calls in log order, each "open" or with its result
  mode,      \* the session's permission mode
  cancelled, \* the loop's context is cancelled
  said,      \* history: the verdicts the gates gave on the current call
  haltSeen,  \* history: a gate halted the session in this run of the loop
  replies, faults

toolVars == <<loop, session, off, zombies, halted, calls, mode, cancelled, said, haltSeen,
              replies, faults>>

Modules  == Range(Gates)
Verdicts == {"allow", "ask", "deny", "halt"}
CallOutcomes == {"ok", "error", "denied", "unanswered", "cut off", "unknown"}
Ends     == {"paused", "blocked", "error"}

At(place) == loop.at = place
Go(place) == loop' = [at |-> place]

ToolInit ==
  /\ loop = [at |-> "none"] /\ session = "idle" /\ off = {} /\ zombies = {}
  /\ halted = FALSE /\ calls = <<>> /\ mode = "ask" /\ cancelled = FALSE
  /\ said = {} /\ haltSeen = FALSE /\ replies = 0 /\ faults = 0

---------------------------------------------------------------------------
(* Registry.call for a set of hooks: those that fail take their module out *)
(* and, when they hang, leave a goroutine behind.  A cancelled caller      *)
(* stops waiting and disables nothing.                                     *)
Hooks ==
  \E failed \in SUBSET (Modules \ off) :
    /\ off' = IF cancelled THEN off ELSE off \cup failed
    /\ \E hung \in SUBSET failed : zombies' = zombies \cup hung

(* What an abandoned hook still does: it may end, and nothing it returns   *)
(* is looked at.                                                           *)
ZombieEnds ==
  /\ \E m \in zombies : zombies' = zombies \ {m}
  /\ UNCHANGED <<loop, session, off, halted, calls, mode, cancelled, said, haltSeen, replies, faults>>

SetMode ==
  /\ mode' \in {"ask", "auto", "bypass"} \ {mode}
  /\ UNCHANGED <<loop, session, off, zombies, halted, calls, cancelled, said, haltSeen, replies, faults>>

---------------------------------------------------------------------------
(* A prompt starts the loop's goroutine when none runs.                    *)
Start ==
  /\ At("none") /\ session \in {"idle", "blocked", "running"} /\ replies < MaxReplies
  /\ session' = "running" /\ Go("turn") /\ cancelled' = FALSE /\ haltSeen' = FALSE
  /\ UNCHANGED <<off, zombies, halted, calls, mode, said, replies, faults>>

(* turn: the budget, the context hooks, the request, and the model's reply:*)
(* calls, or none, or an error, or a reply stopped because it repeats.     *)
Turn ==
  /\ At("turn") /\ ~cancelled /\ replies < MaxReplies
  /\ replies' = replies + 1
  /\ Hooks
  /\ \/ loop' = [at |-> "finish", to |-> "paused", last |-> FALSE] /\ UNCHANGED halted
     \/ loop' = [at |-> "finish", to |-> "error", last |-> TRUE] /\ UNCHANGED halted
     \/ loop' = [at |-> "finish", to |-> "blocked", last |-> FALSE] /\ UNCHANGED halted
     \/ Go("stopgate") /\ UNCHANGED halted
     \/ \E n \in 1 .. MaxCalls, cut \in BOOLEAN :
          loop' = [at |-> "batch", left |-> n, cut |-> cut] /\ halted' = FALSE
  /\ UNCHANGED <<session, calls, mode, cancelled, said, haltSeen, faults>>

(* The next call of the batch.  One the reply cap cut short is refused and *)
(* not run; any other is logged, unknown tools end there, and a call that  *)
(* cannot be logged is not made.                                           *)
CallNotLogged ==
  /\ At("batch") /\ loop.left > 0 /\ ~cancelled
  /\ faults < MaxFaults /\ faults' = faults + 1
  /\ loop' = [loop EXCEPT !.left = @ - 1]
  /\ UNCHANGED <<session, off, zombies, halted, calls, mode, cancelled, said, haltSeen, replies>>

NextCall ==
  /\ At("batch") /\ loop.left > 0 /\ ~cancelled
  /\ said' = {}
  /\ IF loop.cut /\ loop.left = 1
     THEN /\ calls' = Append(calls, "cut off")
          /\ loop' = [loop EXCEPT !.left = 0]
     ELSE \/ /\ calls' = Append(calls, "open")
             /\ loop' = [at |-> "gate", i |-> 1, final |-> "allow", left |-> loop.left, cut |-> loop.cut]
          \/ /\ calls' = Append(calls, "open")
             /\ loop' = [at |-> "result", is |-> "unknown", left |-> loop.left, cut |-> loop.cut]
  /\ UNCHANGED <<session, off, zombies, halted, mode, cancelled, haltSeen, replies, faults>>

Decided(verdict) == loop' = [at |-> "decided", is |-> verdict, left |-> loop.left, cut |-> loop.cut]

(* Mutant: the last gate that answers has its way.                         *)
AskGateLast ==
  /\ At("gate") /\ loop.i <= Len(Gates)
  /\ \E v \in Verdicts :
       /\ said' = said \cup {v}
       /\ IF v \in {"deny", "halt"} THEN Decided(v)
          ELSE loop' = [loop EXCEPT !.i = @ + 1, !.final = v]
  /\ UNCHANGED <<session, off, zombies, halted, calls, mode, cancelled, haltSeen, replies, faults>>

(* Registry.GateTool, one module: the first Deny or Halt wins, else one    *)
(* Ask; a gate that fails, or failed before, is passed over.               *)
AskGate ==
  /\ At("gate") /\ loop.i <= Len(Gates)
  /\ LET m == Gates[loop.i]
         skip == loop' = [loop EXCEPT !.i = @ + 1] /\ UNCHANGED said
     IN  \/ /\ m \in off
            /\ skip /\ UNCHANGED <<off, zombies>>
         \/ /\ m \notin off
            /\ \E v \in Verdicts :
                 /\ said' = said \cup {v}
                 /\ IF v \in {"deny", "halt"} THEN Decided(v)
                    ELSE loop' = [loop EXCEPT !.i = @ + 1,
                                              !.final = IF v = "ask" /\ @ = "allow" THEN v ELSE @]
            /\ UNCHANGED <<off, zombies>>
         \/ /\ m \notin off
            /\ off' = IF cancelled THEN off ELSE off \cup {m}
            /\ zombies' \in {zombies, zombies \cup {m}}
            /\ skip
  /\ UNCHANGED <<session, halted, calls, mode, cancelled, haltSeen, replies, faults>>

GatesDone ==
  /\ At("gate") /\ loop.i > Len(Gates)
  /\ Decided(loop.final)
  /\ UNCHANGED <<session, off, zombies, halted, calls, mode, cancelled, said, haltSeen, replies, faults>>

Outcome(r) == loop' = [at |-> "result", is |-> r, left |-> loop.left, cut |-> loop.cut]
Run       == loop' = [at |-> "run", left |-> loop.left, cut |-> loop.cut]

(* executeTool on the verdict.  An Ask goes to a person, unless the mode   *)
(* by now is bypass; nobody there, or a cancelled wait, is not an approval.*)
Execute ==
  /\ At("decided")
  /\ \/ loop.is = "allow" /\ Run /\ UNCHANGED <<halted, haltSeen, said>>
     \/ loop.is = "deny" /\ Outcome("denied") /\ UNCHANGED <<halted, haltSeen, said>>
     \/ /\ loop.is = "halt"
        /\ halted' = TRUE /\ haltSeen' = TRUE
        /\ Outcome("denied") /\ UNCHANGED said
     \/ /\ loop.is = "ask"
        /\ IF mode = "bypass" THEN Run /\ said' = said \cup {"bypassed"}
           ELSE \/ ~cancelled /\ Run /\ said' = said \cup {"approved"}
                \/ Outcome("denied") /\ UNCHANGED said
                \/ Outcome("unanswered") /\ UNCHANGED said
        /\ UNCHANGED <<halted, haltSeen>>
  /\ UNCHANGED <<session, off, zombies, calls, mode, cancelled, replies, faults>>

RunTool ==
  /\ At("run")
  /\ \E r \in {"ok", "error"} : Outcome(r)
  /\ UNCHANGED <<session, off, zombies, halted, calls, mode, cancelled, said, haltSeen, replies, faults>>

(* The result is logged, or its append fails and the call stays open; the  *)
(* observers hear it; a halt ends the batch and the session.               *)
LogResult ==
  /\ At("result")
  /\ \/ /\ calls' = [calls EXCEPT ![Len(calls)] = loop.is] /\ UNCHANGED faults
     \/ /\ faults < MaxFaults /\ faults' = faults + 1 /\ UNCHANGED calls
  /\ Hooks
  /\ halted' = FALSE
  /\ loop' = IF halted THEN [at |-> "finish", to |-> "blocked", last |-> FALSE]
             ELSE [at |-> "batch", left |-> loop.left - 1, cut |-> loop.cut]
  /\ UNCHANGED <<session, mode, cancelled, said, haltSeen, replies>>

(* afterTurn: the next turn, or the session is paused at its token limit   *)
(* with compaction off.                                                    *)
BatchDone ==
  /\ At("batch") /\ loop.left = 0
  /\ \/ Go("turn")
     \/ loop' = [at |-> "finish", to |-> "paused", last |-> FALSE]
  /\ UNCHANGED <<session, off, zombies, halted, calls, mode, cancelled, said, haltSeen, replies, faults>>

---------------------------------------------------------------------------
(* The stop gate allows (idle), vetoes (another turn), or has seen enough. *)
AskStop ==
  /\ At("stopgate")
  /\ Hooks
  /\ \/ loop' = [at |-> "state", to |-> "idle", last |-> FALSE]
     \/ Go("turn")
     \/ loop' = [at |-> "finish", to |-> "blocked", last |-> FALSE]
  /\ UNCHANGED <<session, halted, calls, mode, cancelled, said, haltSeen, replies, faults>>

(* What turn returns as an error, runLoop ends with finish(error), whose   *)
(* own error nobody reads: the goroutine is then gone.                     *)
FinishFails == loop' = IF loop.last \/ cancelled THEN [at |-> "none"]
                  ELSE [at |-> "finish", to |-> "error", last |-> TRUE]

(* finish: the SessionEnd and Report hooks and the report, and then the    *)
(* state change.                                                           *)
Report ==
  /\ At("finish")
  /\ Hooks
  /\ \/ loop' = [loop EXCEPT !.at = "state"] /\ UNCHANGED faults
     \/ FinishFails /\ faults < MaxFaults /\ faults' = faults + 1
  /\ UNCHANGED <<session, halted, calls, mode, cancelled, said, haltSeen, replies>>

ChangeState ==
  /\ At("state")
  /\ \/ session' = loop.to /\ Go("none") /\ UNCHANGED faults
     \/ FinishFails /\ faults < MaxFaults /\ faults' = faults + 1 /\ UNCHANGED session
  /\ UNCHANGED <<off, zombies, halted, calls, mode, cancelled, said, haltSeen, replies>>

(* Interrupt: cancels the loop's context and waits for its goroutine; the  *)
(* loop notices between two calls and between two turns.                   *)
Interrupt ==
  /\ ~At("none") /\ ~cancelled
  /\ cancelled' = TRUE
  /\ UNCHANGED <<loop, session, off, zombies, halted, calls, mode, said, haltSeen, replies, faults>>

(* Mutant: the loop leaves in the middle of a call as well.                *)
InterruptedInCall ==
  /\ cancelled
  /\ At("turn") \/ At("run") \/ (At("batch") /\ loop.left > 0)
  /\ Go("none")
  /\ UNCHANGED <<session, off, zombies, halted, calls, mode, cancelled, said, haltSeen, replies, faults>>

Interrupted ==
  /\ cancelled
  /\ \/ At("turn") \/ (At("batch") /\ loop.left > 0)
  /\ Go("none")
  /\ UNCHANGED <<session, off, zombies, halted, calls, mode, cancelled, said, haltSeen, replies, faults>>

ToIdle ==
  /\ cancelled /\ At("none")
  /\ session' = "idle" /\ cancelled' = FALSE
  /\ UNCHANGED <<loop, off, zombies, halted, calls, mode, said, haltSeen, replies, faults>>

(* Archiving the session forgets which modules were disabled in it.        *)
ForgetSession ==
  /\ At("none") /\ session # "running" /\ off # {}
  /\ off' = {}
  /\ UNCHANGED <<loop, session, zombies, halted, calls, mode, cancelled, said, haltSeen, replies, faults>>

ToolNext ==
  \/ ZombieEnds \/ SetMode \/ Start \/ Turn \/ NextCall \/ CallNotLogged \/ AskGate \/ GatesDone
  \/ Execute \/ RunTool \/ LogResult \/ BatchDone \/ AskStop \/ Report \/ ChangeState
  \/ Interrupt \/ Interrupted \/ ToIdle \/ ForgetSession

ToolSpec == ToolInit /\ [][ToolNext]_toolVars

---------------------------------------------------------------------------
ToolTypeOK ==
  /\ loop.at \in {"none", "turn", "batch", "gate", "decided", "run", "result", "stopgate",
                  "finish", "state"}
  /\ session \in {"running", "idle"} \cup Ends
  /\ off \subseteq Modules /\ zombies \subseteq Modules
  /\ halted \in BOOLEAN /\ cancelled \in BOOLEAN /\ haltSeen \in BOOLEAN
  /\ \A i \in DOMAIN calls : calls[i] \in CallOutcomes \cup {"open"}
  /\ mode \in {"ask", "auto", "bypass"}
  /\ said \subseteq Verdicts \cup {"approved", "bypassed"}
  /\ replies \in 0 .. MaxReplies /\ faults \in 0 .. MaxFaults

(* Nothing the model began is left open: every call has its result before  *)
(* the next is logged and the next request is built, whatever gates, hooks,*)
(* people and interrupts do, and a loop that is gone has logged its end.   *)
(* Only an append that failed, or an interrupt on its way, excuses either. *)
OpenCalls == {i \in DOMAIN calls : calls[i] = "open"}
NothingIsLeftOpen ==
  LET current == IF loop.at \in {"gate", "decided", "run", "result"} THEN {Len(calls)} ELSE {}
  IN  /\ Cardinality(OpenCalls \ current) <= faults
      /\ At("none") /\ session = "running" /\ ~cancelled => faults > 0

(* A tool runs only when no gate that was asked said no, and when one      *)
(* wanted a person, a person approved or the session bypasses; and once a  *)
(* gate halts the session, its loop runs nothing more and takes no turn.   *)
ANoIsHeeded ==
  /\ At("run") => /\ said \cap {"deny", "halt"} = {}
                  /\ "ask" \in said => said \cap {"approved", "bypassed"} # {}
  /\ haltSeen => loop.at \in {"result", "finish", "state", "none"}

(* A batch of calls is carried out soundly: nothing is left open, and what *)
(* the gates and the person say is heeded (manager.go executeTools).       *)
CallsAreSound == NothingIsLeftOpen /\ ANoIsHeeded
=============================================================================
