---------------------------- MODULE SessionLoop ----------------------------
(***************************************************************************)
(* One session of the daemon and everything that may start, cut off or     *)
(* rewrite its agent loop: daemon/agent/manager.go, runner.go, stop.go and *)
(* compaction.go, with the restart recovery of daemon/session/store.go.    *)
(*                                                                         *)
(* A call is one API request, carried out by a goroutine of its own.  The  *)
(* loop goroutine ensureRunning starts is named after the call that        *)
(* started it, so pc[c] is where call c is and lp[c] where the loop it     *)
(* started is.  Every action is one stretch of code between two points     *)
(* where another goroutine can act: a lock taken, a channel waited on, a   *)
(* model call, a hook.  An append to the log is atomic (Session.mu), and   *)
(* so is what m.mu protects.                                               *)
(*                                                                         *)
(* The log is kept as the projections these operations branch on: the      *)
(* session's state, the assistant turns taken and the budget, and which    *)
(* user messages it holds.  A user message is named after the prompt call  *)
(* that appended it.                                                       *)
(***************************************************************************)
EXTENDS Naturals

CONSTANTS
  Calls,        \* the API calls that may be made
  Ops,          \* the operations a call may ask for
  FirstBudget,  \* the session's budget of turns when it is created; 0 is none
  Budgets,      \* the budgets a resume may set
  TurnCap,      \* the turns told apart: a count stops there
  MaxCrashes,   \* bound on the crashes explored
  NoCall        \* stands for "none" where a call is named

AllOps == {"prompt", "goal", "resume", "interrupt", "stop", "compact", "shutdown"}

ASSUME OpsAssumption == Ops \subseteq AllOps
ASSUME NoCallAssumption == NoCall \notin Calls
ASSUME BoundAssumption == TurnCap \in Nat /\ MaxCrashes \in Nat
ASSUME BudgetAssumption == FirstBudget \in 0..TurnCap /\ Budgets \subseteq 0..TurnCap

VARIABLES
  (* the log, which survives a crash *)
  state,      \* Project(log).State: the `to` of the last state_change
  msgs,       \* the user messages in the log
  before,     \* those that precede the last summarize record
  covered,    \* those inside the range of some summarize record
  turns,      \* Project(log).Turns
  budget,     \* Project(log).Budget.MaxTurns
  (* a record of what has been, for the properties *)
  sent,       \* the user messages some request has carried
  (* memory of the daemon *)
  up,         \* whether the daemon runs
  closed,     \* Manager.closed
  cur,        \* the loop rs.running stands for, or NoCall when it is false
  cancelled,  \* the loops whose context is cancelled
  compactMu,  \* sessionHandle.compactMu: who holds it, or Free
  compacting, \* the compact call rs.cancelCompact ends, or NoCall
  rng,        \* the messages in the range of the summary being written
  pc, op,     \* where each call is, and what it asks for
  target,     \* the loop stopRunning waits for
  from,       \* the state a Stop's finish has read
  lp,         \* where each loop is
  lfrom, lto, \* the state a loop's finish has read, and the one it moves to
  crashes

logVars  == <<state, msgs, before, covered, turns, budget>>
muVars   == <<compactMu, rng>>
runVars  == <<closed, cur, cancelled>>
loopVars == <<lp, lfrom, lto>>
callVars == <<pc, op, target, from>>
lifeVars == <<up, crashes>>
vars == <<state, msgs, before, covered, turns, budget, sent, up, closed, cur, cancelled,
          compactMu, compacting, rng, pc, op, target, from, lp, lfrom, lto, crashes>>

States == {"idle", "running", "blocked", "paused", "completed", "error"}
Ended  == {"completed", "error"}

Free      == <<"free", NoCall>>
CallOf(c) == <<"call", c>>
LoopOf(c) == <<"loop", c>>

(* A loop goroutine exists from ensureRunning until it has cleared running *)
(* and closed done, which are one step here: nothing looks between them.   *)
Alive(g)  == lp[g] \notin {"none", "gone"}

Init ==
  /\ state = "idle" /\ turns = 0 /\ budget = FirstBudget
  /\ msgs = {} /\ before = {} /\ covered = {} /\ sent = {}
  /\ up = TRUE /\ closed = FALSE /\ cur = NoCall /\ cancelled = {}
  /\ compactMu = Free /\ compacting = NoCall /\ rng = {}
  /\ pc = [c \in Calls |-> "new"] /\ op = [c \in Calls |-> "none"]
  /\ target = [c \in Calls |-> NoCall] /\ from = [c \in Calls |-> "idle"]
  /\ lp = [c \in Calls |-> "none"]
  /\ lfrom = [c \in Calls |-> "idle"] /\ lto = [c \in Calls |-> "idle"]
  /\ crashes = 0

-----------------------------------------------------------------------------
(* Parts of several handlers. *)

Goto(c, l) == pc' = [pc EXCEPT ![c] = l]

(* compactMu.Lock and Unlock by call c. *)
Lock(c)   == compactMu = Free /\ compactMu' = CallOf(c)
Unlock(c) == compactMu' = Free

(* Mutants of ensureRunning: one that does not look whether a loop runs,   *)
(* one that does not look whether the manager is closed.                   *)
EnsureRunningTwice(c) ==
  IF closed THEN UNCHANGED <<state, cur, lp>>
            ELSE state' = "running" /\ cur' = c /\ lp' = [lp EXCEPT ![c] = "top"]

EnsureRunningClosed(c) ==
  IF cur # NoCall THEN UNCHANGED <<state, cur, lp>>
                  ELSE state' = "running" /\ cur' = c /\ lp' = [lp EXCEPT ![c] = "top"]

(* ensureRunning: under m.mu, append the state change and start the loop   *)
(* goroutine unless one runs.  It does not look at the state it leaves.    *)
EnsureRunning(c) ==
  IF closed \/ cur # NoCall
    THEN UNCHANGED <<state, cur, lp>>
    ELSE /\ state' = "running"
         /\ cur' = c
         /\ lp' = [lp EXCEPT ![c] = "top"]

(* The summarize record is appended: what the log holds now precedes it,   *)
(* and its range stands for rng.                                           *)
RecordSummary == before' = msgs /\ covered' = covered \cup rng

(* A call arrives: the API hands it to a goroutine. *)
FirstStep == [prompt |-> "p_lock", goal |-> "g_lock", resume |-> "r_check",
              interrupt |-> "x_stop", stop |-> "x_stop", compact |-> "c_lock",
              shutdown |-> "d_start"]

Begin(c) ==
  /\ up /\ pc[c] = "new"
  /\ \E o \in Ops : /\ op' = [op EXCEPT ![c] = o]
                    /\ Goto(c, FirstStep[o])
  /\ UNCHANGED <<logVars, sent, lifeVars, runVars, muVars, compacting, target, from, loopVars>>

-----------------------------------------------------------------------------
(* PromptWithID. *)

(* Mutant: the prompt does not take compactMu. *)
PromptUnlocked(c) ==
  /\ pc[c] = "p_lock"
  /\ Goto(c, IF state \in Ended \cup {"paused"} THEN "done" ELSE "p_append")
  /\ UNCHANGED <<logVars, sent, lifeVars, runVars, muVars, compacting, op, target, from, loopVars>>

(* Past compactMu, so past any summary being written.  A paused session or *)
(* one that has ended refuses the prompt.                                  *)
PromptLock(c) ==
  /\ pc[c] = "p_lock" /\ compactMu = Free
  /\ IF state \in Ended \cup {"paused"}
       THEN Goto(c, "done") /\ UNCHANGED compactMu
       ELSE Goto(c, "p_append") /\ Lock(c)
  /\ UNCHANGED <<logVars, sent, lifeVars, runVars, rng, compacting, op, target, from, loopVars>>

PromptAppend(c) ==
  /\ pc[c] = "p_append"
  /\ msgs' = msgs \cup {c}
  /\ Goto(c, "p_ensure")
  /\ UNCHANGED <<state, before, covered, turns, budget, sent, lifeVars, runVars, muVars,
                 compacting, op, target, from, loopVars>>

(* The last step of Prompt, SetGoal and Resume alike: ensureRunning, then  *)
(* the deferred Unlock.                                                    *)
StartLoop(c) ==
  /\ pc[c] \in {"p_ensure", "g_ensure", "r_ensure"}
  /\ EnsureRunning(c)
  /\ Unlock(c)
  /\ Goto(c, "done")
  /\ UNCHANGED <<msgs, before, covered, turns, budget, sent, lifeVars, closed, cancelled, rng,
                 compacting, op, target, from, lfrom, lto>>

-----------------------------------------------------------------------------
(* SetGoal: the goal is appended under compactMu, and starts the loop only *)
(* of an idle session.                                                     *)
GoalLock(c) ==
  /\ pc[c] = "g_lock"
  /\ Lock(c)
  /\ Goto(c, "g_check")
  /\ UNCHANGED <<logVars, sent, lifeVars, runVars, rng, compacting, op, target, from, loopVars>>

GoalCheck(c) ==
  /\ pc[c] = "g_check"
  /\ IF state = "idle"
       THEN Goto(c, "g_ensure") /\ UNCHANGED compactMu
       ELSE Goto(c, "done") /\ Unlock(c)
  /\ UNCHANGED <<logVars, sent, lifeVars, runVars, rng, compacting, op, target, from, loopVars>>

-----------------------------------------------------------------------------
(* Resume: the state is read with no lock held, a budget may be appended,  *)
(* and the SessionResume hooks run before compactMu is taken.              *)
ResumeCheck(c) ==
  /\ pc[c] = "r_check"
  /\ \/ state # "paused" /\ Goto(c, "done")
     \/ state = "paused" /\ (Goto(c, "r_budget") \/ Goto(c, "r_lock"))
  /\ UNCHANGED <<logVars, sent, lifeVars, runVars, muVars, compacting, op, target, from, loopVars>>

ResumeBudget(c) ==
  /\ pc[c] = "r_budget"
  /\ budget' \in Budgets
  /\ Goto(c, "r_lock")
  /\ UNCHANGED <<state, msgs, before, covered, turns, sent, lifeVars, runVars, muVars, compacting,
                 op, target, from, loopVars>>

(* Mutant: the resume does not take compactMu. *)
ResumeUnlocked(c) ==
  /\ pc[c] = "r_lock"
  /\ Goto(c, "r_ensure")
  /\ UNCHANGED <<logVars, sent, lifeVars, runVars, muVars, compacting, op, target, from, loopVars>>

ResumeLock(c) ==
  /\ pc[c] = "r_lock"
  /\ Lock(c)
  /\ Goto(c, "r_ensure")
  /\ UNCHANGED <<logVars, sent, lifeVars, runVars, rng, compacting, op, target, from, loopVars>>

-----------------------------------------------------------------------------
(* Interrupt and Stop begin alike: stopRunning, then cancelCompaction. *)

(* Cancel the loop that runs and note which to wait for. *)
CancelLoop(c, wait, skip) ==
  IF cur # NoCall
    THEN /\ cancelled' = cancelled \cup {cur}
         /\ target' = [target EXCEPT ![c] = cur]
         /\ Goto(c, wait)
    ELSE /\ Goto(c, skip)
         /\ UNCHANGED <<cancelled, target>>

StopRunning(c) ==
  /\ pc[c] = "x_stop"
  /\ CancelLoop(c, "x_wait", "x_compact")
  /\ UNCHANGED <<logVars, sent, lifeVars, closed, cur, muVars, compacting, op, from, loopVars>>

(* Mutant: the loop is cancelled and not waited for. *)
AwaitNothing(c) ==
  /\ pc[c] = "x_wait"
  /\ Goto(c, "x_compact")
  /\ UNCHANGED <<logVars, sent, lifeVars, runVars, muVars, compacting, op, target, from, loopVars>>

(* <-done *)
AwaitLoop(c) ==
  /\ pc[c] = "x_wait"
  /\ ~Alive(target[c])
  /\ Goto(c, "x_compact")
  /\ UNCHANGED <<logVars, sent, lifeVars, runVars, muVars, compacting, op, target, from, loopVars>>

(* A compaction that is cancelled ends as one that fails does, with the    *)
(* history as it was, so only the wait for it shows.                       *)
CancelCompaction(c) ==
  /\ pc[c] = "x_compact"
  /\ Goto(c, IF compacting # NoCall THEN "x_barrier" ELSE "x_end")
  /\ UNCHANGED <<logVars, sent, lifeVars, runVars, muVars, compacting, op, target, from, loopVars>>

(* compactMu.Lock(); compactMu.Unlock(): taking the lock is the wait. *)
AwaitCompaction(c) ==
  /\ pc[c] = "x_barrier"
  /\ compactMu = Free
  /\ Goto(c, "x_end")
  /\ UNCHANGED <<logVars, sent, lifeVars, runVars, muVars, compacting, op, target, from, loopVars>>

(* Interrupt appends the move to idle from whatever state it finds but     *)
(* idle itself.                                                            *)
InterruptEnd(c) ==
  /\ pc[c] = "x_end" /\ op[c] = "interrupt"
  /\ state' = "idle"
  /\ Goto(c, "done")
  /\ UNCHANGED <<msgs, before, covered, turns, budget, sent, lifeVars, runVars, muVars, compacting,
                 op, target, from, loopVars>>

StopCheck(c) ==
  /\ pc[c] = "x_end" /\ op[c] = "stop"
  /\ Goto(c, IF state \in Ended THEN "done" ELSE "s_from")
  /\ UNCHANGED <<logVars, sent, lifeVars, runVars, muVars, compacting, op, target, from, loopVars>>

(* finish(completed): the SessionEnd hooks, the state it comes from, the   *)
(* Report hooks and the report, then the state change.                     *)
StopFrom(c) ==
  /\ pc[c] = "s_from"
  /\ from' = [from EXCEPT ![c] = state]
  /\ Goto(c, "s_append")
  /\ UNCHANGED <<logVars, sent, lifeVars, runVars, muVars, compacting, op, target, loopVars>>

StopAppend(c) ==
  /\ pc[c] = "s_append"
  /\ state' = IF from[c] = "completed" THEN state ELSE "completed"
  /\ Goto(c, "done")
  /\ UNCHANGED <<msgs, before, covered, turns, budget, sent, lifeVars, runVars, muVars, compacting,
                 op, target, from, loopVars>>

-----------------------------------------------------------------------------
(* Compact, a summary somebody asked for. *)

(* The state is read with compactMu held.  Too little history, which the   *)
(* messages here do not decide, refuses it as well.                        *)
CompactLock(c) ==
  /\ pc[c] = "c_lock" /\ compactMu = Free
  /\ \/ state \notin Ended \cup {"running"} /\ Lock(c) /\ Goto(c, "c_begin")
     \/ Goto(c, "done") /\ UNCHANGED compactMu
  /\ UNCHANGED <<logVars, sent, lifeVars, runVars, rng, compacting, op, target, from, loopVars>>

(* setCompactCancel, and the range up to the last event of the log. *)
CompactBegin(c) ==
  /\ pc[c] = "c_begin"
  /\ compacting' = c
  /\ rng' = msgs
  /\ Goto(c, "c_call")
  /\ UNCHANGED <<logVars, sent, lifeVars, runVars, compactMu, op, target, from, loopVars>>

(* The model answers with a summary; or it fails, and results are cleared; *)
(* or the call was cancelled, and nothing is.                              *)
CompactEnd(c) ==
  /\ pc[c] = "c_call"
  /\ RecordSummary \/ UNCHANGED <<before, covered>>
  /\ compacting' = NoCall
  /\ rng' = {}
  /\ Unlock(c)
  /\ Goto(c, "done")
  /\ UNCHANGED <<state, msgs, turns, budget, sent, lifeVars, runVars, op, target, from,
                 loopVars>>

-----------------------------------------------------------------------------
(* Shutdown. *)

(* Under m.mu: no loop starts from here on, a requested compaction is cut  *)
(* off (and not waited for), and the loop that runs is noted.              *)
ShutdownBegin(c) ==
  /\ pc[c] = "d_start"
  /\ closed' = TRUE
  /\ Goto(c, IF closed THEN "done" ELSE IF cur # NoCall THEN "d_stop" ELSE "d_drain")
  /\ UNCHANGED <<logVars, sent, lifeVars, cur, cancelled, muVars, compacting, op, target, from,
                 loopVars>>

ShutdownStop(c) ==
  /\ pc[c] = "d_stop"
  /\ CancelLoop(c, "d_wait", "d_check")
  /\ UNCHANGED <<logVars, sent, lifeVars, closed, cur, muVars, compacting, op, from, loopVars>>

ShutdownAwaitLoop(c) ==
  /\ pc[c] = "d_wait"
  /\ ~Alive(target[c])
  /\ Goto(c, "d_check")
  /\ UNCHANGED <<logVars, sent, lifeVars, runVars, muVars, compacting, op, target, from, loopVars>>

(* Read here, and paused a notice later whatever happened meanwhile. *)
ShutdownCheck(c) ==
  /\ pc[c] = "d_check"
  /\ Goto(c, IF state = "running" THEN "d_pause" ELSE "d_drain")
  /\ UNCHANGED <<logVars, sent, lifeVars, runVars, muVars, compacting, op, target, from, loopVars>>

ShutdownPause(c) ==
  /\ pc[c] = "d_pause"
  /\ state' = "paused"
  /\ Goto(c, "d_drain")
  /\ UNCHANGED <<msgs, before, covered, turns, budget, sent, lifeVars, runVars, muVars, compacting,
                 op, target, from, loopVars>>

(* wg.Wait() *)
ShutdownDrain(c) ==
  /\ pc[c] = "d_drain"
  /\ \A g \in Calls : ~Alive(g)
  /\ Goto(c, "d_exit")
  /\ UNCHANGED <<logVars, sent, lifeVars, runVars, muVars, compacting, op, target, from, loopVars>>

-----------------------------------------------------------------------------
(* The loop goroutine: runLoop and turn. *)

Move(g, l) == lp' = [lp EXCEPT ![g] = l]

(* Mutant: the state a loop ends in is the one it is in. *)
FinishWhereItIs(g, to) == Move(g, "end_from") /\ lto' = [lto EXCEPT ![g] = state]

(* finish(to): what is left of it is LoopEndFrom and LoopEndAppend. *)
Finish(g, to) == Move(g, "end_from") /\ lto' = [lto EXCEPT ![g] = to]

(* Mutant: one turn too many. *)
OverBudgetLate == budget > 0 /\ turns > budget

OverBudget == budget > 0 /\ turns >= budget

(* Mutants of the top of the loop: one returns over budget without pausing *)
(* the session, one never looks whether it was cancelled.                  *)
LoopTopSilent(g) ==
  /\ lp[g] = "top"
  /\ Move(g, IF g \in cancelled \/ OverBudget THEN "exit" ELSE "build")
  /\ UNCHANGED <<logVars, sent, lifeVars, runVars, muVars, compacting, callVars, lfrom, lto>>

LoopTopDeaf(g) ==
  /\ lp[g] = "top"
  /\ IF OverBudget THEN Finish(g, "paused") ELSE Move(g, "build") /\ UNCHANGED lto
  /\ UNCHANGED <<logVars, sent, lifeVars, runVars, muVars, compacting, callVars, lfrom>>

(* The top of the loop: return if cancelled, pause if over budget (the     *)
(* budget of tokens is not counted here and may always be spent), fail if  *)
(* the session's provider cannot be resolved, or go on to the              *)
(* BeforeRequest hooks.                                                    *)
LoopTop(g) ==
  /\ lp[g] = "top"
  /\ IF g \in cancelled THEN Move(g, "exit") /\ UNCHANGED lto
     ELSE IF OverBudget THEN Finish(g, "paused")
     ELSE (Move(g, "build") /\ UNCHANGED lto) \/ Finish(g, "error") \/ Finish(g, "paused")
  /\ UNCHANGED <<logVars, sent, lifeVars, runVars, muVars, compacting, callVars, lfrom>>

(* buildRequest: the messages after the last summary, and what the         *)
(* summaries stand for.                                                    *)
LoopBuild(g) ==
  /\ lp[g] = "build"
  /\ sent' = sent \cup (msgs \ before) \cup covered
  /\ Move(g, "call")
  /\ UNCHANGED <<logVars, lifeVars, runVars, muVars, compacting, callVars, lfrom, lto>>

(* The model answers, with tool calls or without, or repeats itself and is *)
(* stopped.  The assistant message is a turn.                              *)
LoopReply(g) ==
  /\ lp[g] = "call"
  /\ turns' = IF turns < TurnCap THEN turns + 1 ELSE turns
  /\ \/ (Move(g, "tools") \/ Move(g, "gate")) /\ UNCHANGED lto
     \/ g \notin cancelled /\ Finish(g, "blocked")
  /\ UNCHANGED <<state, msgs, before, covered, budget, sent, lifeVars, runVars, muVars, compacting,
                 callVars, lfrom>>

(* It does not: the call was cancelled, or it failed. *)
LoopNoReply(g) ==
  /\ lp[g] = "call"
  /\ IF g \in cancelled THEN Move(g, "exit") /\ UNCHANGED lto ELSE Finish(g, "error")
  /\ UNCHANGED <<logVars, sent, lifeVars, runVars, muVars, compacting, callVars, lfrom>>

(* The tools of one reply.  Cancellation is looked for before each, so not *)
(* after the last; a gate may halt the session after any.                  *)
LoopTools(g) ==
  /\ lp[g] = "tools"
  /\ \/ g \in cancelled /\ Move(g, "exit") /\ UNCHANGED lto
     \/ Finish(g, "blocked")
     \/ Move(g, "after") /\ UNCHANGED lto
  /\ UNCHANGED <<logVars, sent, lifeVars, runVars, muVars, compacting, callVars, lfrom>>

(* maybeCompact: nothing, or clear results; the context limit with         *)
(* compaction disabled; or a summary.                                      *)
LoopAfterTurn(g) ==
  /\ lp[g] = "after"
  /\ \/ Move(g, "check") /\ UNCHANGED lto
     \/ Finish(g, "blocked")
     \/ Move(g, "sum_lock") /\ UNCHANGED lto
  /\ UNCHANGED <<logVars, sent, lifeVars, runVars, muVars, compacting, callVars, lfrom>>

(* summarize: compactMu, then the range up to the last event of the log. *)
LoopSummaryBegin(g) ==
  /\ lp[g] = "sum_lock" /\ compactMu = Free
  /\ compactMu' = LoopOf(g)
  /\ rng' = msgs
  /\ Move(g, "sum_call")
  /\ UNCHANGED <<logVars, sent, lifeVars, runVars, compacting, callVars, lfrom, lto>>

(* The summary is written; or it failed, was too little to bother with, or *)
(* was cut off, and the history stays.  A cancelled one or an unresolved   *)
(* provider is an error of the turn.                                       *)
LoopSummaryEnd(g) ==
  /\ lp[g] = "sum_call"
  /\ compactMu' = Free /\ rng' = {}
  /\ \/ RecordSummary /\ Move(g, "check") /\ UNCHANGED lto
     \/ /\ UNCHANGED <<before, covered>>
        /\ \/ Move(g, "check") /\ UNCHANGED lto
           \/ g \in cancelled /\ Move(g, "exit") /\ UNCHANGED lto
           \/ g \notin cancelled /\ Finish(g, "error")
  /\ UNCHANGED <<state, msgs, turns, budget, sent, lifeVars, runVars, compacting, callVars, lfrom>>

(* afterTurn ends: go on only if the session is still running. *)
LoopCheck(g) ==
  /\ lp[g] = "check"
  /\ Move(g, IF state = "running" THEN "top" ELSE "exit")
  /\ UNCHANGED <<logVars, sent, lifeVars, runVars, muVars, compacting, callVars, lfrom, lto>>

(* askStopGate, after the BeforeStop hooks: nobody objects; somebody does  *)
(* and the model takes another turn; or objecting has gone on too long.    *)
LoopStopGate(g) ==
  /\ lp[g] = "gate"
  /\ \/ state' = "idle" /\ Move(g, "exit") /\ UNCHANGED lto
     \/ UNCHANGED state /\ Move(g, "top") /\ UNCHANGED lto
     \/ UNCHANGED state /\ Finish(g, "blocked")
  /\ UNCHANGED <<msgs, before, covered, turns, budget, sent, lifeVars, runVars, muVars, compacting,
                 callVars, lfrom>>

LoopEndFrom(g) ==
  /\ lp[g] = "end_from"
  /\ lfrom' = [lfrom EXCEPT ![g] = state]
  /\ Move(g, "end_append")
  /\ UNCHANGED <<logVars, sent, lifeVars, runVars, muVars, compacting, callVars, lto>>

LoopEndAppend(g) ==
  /\ lp[g] = "end_append"
  /\ state' = IF lfrom[g] = lto[g] THEN state ELSE lto[g]
  /\ Move(g, "exit")
  /\ UNCHANGED <<msgs, before, covered, turns, budget, sent, lifeVars, runVars, muVars, compacting,
                 callVars, lfrom, lto>>

(* runLoop has returned: running is cleared under m.mu and done is closed. *)
LoopExit(g) ==
  /\ lp[g] = "exit"
  /\ cur' = NoCall
  /\ Move(g, "gone")
  /\ UNCHANGED <<logVars, sent, lifeVars, closed, cancelled, muVars, compacting, callVars, lfrom, lto>>

-----------------------------------------------------------------------------
(* The process. *)

(* It ends: what was in memory is gone, and with it every call that had    *)
(* begun.  The log is what was appended.                                   *)
ProcessEnds ==
  /\ up /\ up' = FALSE
  /\ pc' = [c \in Calls |-> IF pc[c] = "new" THEN "new" ELSE "done"]
  /\ lp' = [g \in Calls |-> IF Alive(g) THEN "gone" ELSE lp[g]]
  /\ cur' = NoCall /\ compactMu' = Free /\ compacting' = NoCall /\ rng' = {}
  /\ UNCHANGED <<logVars, sent, closed, cancelled, op, target, from, lfrom, lto>>

Crash == crashes < MaxCrashes /\ crashes' = crashes + 1 /\ ProcessEnds

Exit == (\E c \in Calls : pc[c] = "d_exit") /\ ProcessEnds /\ UNCHANGED crashes

(* The daemon starts: RecoverInterrupted pauses what was running. *)
Boot ==
  /\ ~up /\ up' = TRUE
  /\ closed' = FALSE
  /\ state' = IF state = "running" THEN "paused" ELSE state
  /\ UNCHANGED <<msgs, before, covered, turns, budget, sent, crashes, cur, cancelled, muVars,
                 compacting, callVars, loopVars>>

(* Every call has been made and has returned, and no loop runs. *)
AtRest ==
  /\ up
  /\ \A c \in Calls : pc[c] = "done" /\ ~Alive(c)
  /\ UNCHANGED vars

-----------------------------------------------------------------------------
CallStep(c) ==
  \/ PromptLock(c) \/ PromptAppend(c) \/ GoalLock(c) \/ GoalCheck(c)
  \/ ResumeCheck(c) \/ ResumeBudget(c) \/ ResumeLock(c) \/ StartLoop(c)
  \/ StopRunning(c) \/ AwaitLoop(c) \/ CancelCompaction(c) \/ AwaitCompaction(c)
  \/ InterruptEnd(c) \/ StopCheck(c) \/ StopFrom(c) \/ StopAppend(c)
  \/ CompactLock(c) \/ CompactBegin(c) \/ CompactEnd(c)
  \/ ShutdownBegin(c) \/ ShutdownStop(c) \/ ShutdownAwaitLoop(c) \/ ShutdownCheck(c)
  \/ ShutdownPause(c) \/ ShutdownDrain(c)

LoopStep(g) ==
  \/ LoopTop(g) \/ LoopBuild(g) \/ LoopReply(g) \/ LoopNoReply(g) \/ LoopTools(g)
  \/ LoopAfterTurn(g) \/ LoopSummaryBegin(g) \/ LoopSummaryEnd(g) \/ LoopCheck(g)
  \/ LoopStopGate(g) \/ LoopEndFrom(g) \/ LoopEndAppend(g) \/ LoopExit(g)

Next ==
  \/ \E c \in Calls : Begin(c) \/ CallStep(c) \/ LoopStep(c)
  \/ Crash \/ Exit \/ Boot \/ AtRest

Spec == Init /\ [][Next]_vars

(* A hook returns or times out, a model call ends or is cut off by its own *)
(* deadline, and a goroutine that can run does: each call and each loop is *)
(* weakly fair.  A sync.Mutex does not starve who waits for it, so taking  *)
(* compactMu is strongly fair.  The process ends once Shutdown has         *)
(* returned.  Calls need not arrive, and the process need not crash or     *)
(* start again.                                                            *)
TakesCompactMu(c) ==
  \/ PromptLock(c) \/ GoalLock(c) \/ ResumeLock(c) \/ CompactLock(c) \/ AwaitCompaction(c)
  \/ LoopSummaryBegin(c)

LiveSpec ==
  /\ Spec
  /\ \A c \in Calls : WF_vars(CallStep(c)) /\ WF_vars(LoopStep(c)) /\ SF_vars(TakesCompactMu(c))
  /\ WF_vars(Exit)

-----------------------------------------------------------------------------
(* What is promised. *)

CallPoints ==
  {"new", "p_lock", "p_append", "p_ensure", "g_lock", "g_check", "g_ensure", "r_check", "r_budget",
   "r_lock", "r_ensure", "x_stop", "x_wait", "x_compact", "x_barrier", "x_end", "s_from", "s_append",
   "c_lock", "c_begin", "c_call", "d_start", "d_stop", "d_wait", "d_check", "d_pause", "d_drain",
   "d_exit", "done"}
LoopPoints ==
  {"none", "top", "build", "call", "tools", "after", "sum_lock", "sum_call", "check", "gate",
   "end_from", "end_append", "exit", "gone"}

TypeOK ==
  /\ state \in States
  /\ msgs \subseteq Calls /\ before \subseteq Calls /\ covered \subseteq Calls
  /\ sent \subseteq Calls /\ rng \subseteq Calls
  /\ turns \in 0..TurnCap /\ budget \in 0..TurnCap
  /\ up \in BOOLEAN /\ closed \in BOOLEAN
  /\ cur \in Calls \cup {NoCall} /\ compacting \in Calls \cup {NoCall}
  /\ cancelled \subseteq Calls
  /\ compactMu \in {Free} \cup {CallOf(c) : c \in Calls} \cup {LoopOf(c) : c \in Calls}
  /\ pc \in [Calls -> CallPoints]
  /\ op \in [Calls -> AllOps \cup {"none"}]
  /\ target \in [Calls -> Calls \cup {NoCall}]
  /\ from \in [Calls -> States]
  /\ lp \in [Calls -> LoopPoints]
  /\ lfrom \in [Calls -> States] /\ lto \in [Calls -> States \ {"running"}]
  /\ crashes \in 0..MaxCrashes

(* At most one loop goroutine works on a session, and it is the one        *)
(* rs.running stands for: the guard of ensureRunning, manager.go:570,      *)
(* against prompts, goals and resumes that arrive while a loop winds down. *)
OneLoop == \A g \in Calls : Alive(g) <=> cur = g

(* No user message is lost between a summary and the messages that follow  *)
(* it: whatever request assembly drops, because it precedes the last       *)
(* summarize record, is inside the range some summary stands for           *)
(* (compaction.go:274-278, and compactMu, handle.go).                      *)
NothingStranded == before \subseteq covered

(* No loop starts while a requested summary is being written: Prompt,      *)
(* SetGoal and Resume take compactMu before ensureRunning.                 *)
NoStartUnderSummary ==
  [][(\E c \in Calls : pc[c] \in {"c_begin", "c_call"}) => cur' \in {cur, NoCall}]_vars

(* Shutdown returns to a daemon in which no loop runs and none can start:  *)
(* closed is looked at under the lock that wg.Add is done under.           *)
ShutdownQuiesces == (\E c \in Calls : pc[c] = "d_exit") => \A g \in Calls : ~Alive(g)

(* A session whose log says running is being worked on, or some interrupt, *)
(* stop or shutdown is about to record that it is not: no path out of the  *)
(* loop leaves a session running for ever with nothing behind it.          *)
RunningIsBacked ==
  up /\ state = "running" =>
    \/ cur # NoCall
    \/ \E c \in Calls : pc[c] \in {"x_wait", "x_compact", "x_barrier", "x_end", "s_from", "s_append",
                                  "d_wait", "d_check", "d_pause"}

(* The loop an interrupt or a stop has cancelled is gone before the call   *)
(* writes the state that ends it, so a late result of that turn can never  *)
(* follow the end in the log: stopRunning waits for done.                  *)
NoLateResult ==
  \A c \in Calls : pc[c] \in {"x_compact", "x_barrier", "x_end", "s_from", "s_append"} =>
     target[c] = NoCall \/ ~Alive(target[c])

(* A session never takes more turns than its budget allows, through        *)
(* crashes, resumes and the budgets they raise: budgetExceeded, stop.go:139. *)
BudgetHolds ==
  [][turns' # turns => budget = 0 \/ turns < budget]_vars

(* Every call returns: compactMu, the wait for done and the wait for a     *)
(* summary never close a circle, and a loop that is cancelled ends.        *)
CallsReturn == \A c \in Calls : pc[c] \notin {"new", "done"} ~> pc[c] = "done"

-----------------------------------------------------------------------------
(* What the documents say and the code does not do. *)

Settled == up /\ \A c \in Calls : pc[c] \in {"new", "done"} /\ ~Alive(c)

(* A prompt sent to a session that is idle starts the loop, and one sent   *)
(* to a session that is running is picked up by the next request           *)
(* (protocol/spec.md 7.4): so once a session is idle again and nothing is  *)
(* under way, every message it was sent has been in a request.             *)
PromptAnswered == Settled /\ state = "idle" => msgs \subseteq sent

(* The terminal state change is the last event of a session, so that a     *)
(* client may stop streaming when it sees one (manager.go:743): a session  *)
(* that has ended never runs again.                                        *)
EndedStaysEnded == [][(state \in Ended) => (state' \in Ended)]_vars

(* compactMu is held while a summary is being written and by anything that *)
(* would add to the conversation meanwhile (handle.go:32), because what is *)
(* added then reaches neither the summary nor any later request: so no     *)
(* reply is appended while a requested summary is being written.           *)
NoTurnUnderSummary ==
  [][turns' # turns => \A c \in Calls : pc[c] # "c_call"]_vars
=============================================================================
