------------------------------- MODULE Verify -------------------------------
(***************************************************************************)
(* The definition of done: the task list of a session, the verify module   *)
(* that gates it, and the stop gate that decides whether a model that      *)
(* calls no tool has finished (daemon/modules/verify, daemon/agent/stop.go,*)
(* daemon/tools/tasks.go, daemon/module/tasks.go and question.go).         *)
(*                                                                         *)
(* The log is kept as the folds its readers make of it: the last tasks     *)
(* event, the last result of each check, the veto rounds since the last    *)
(* tool call or user message, and what has happened since the person last  *)
(* spoke.  Two actors write: the session's loop, and a client that updates *)
(* the task list with nothing held between its read and its append.        *)
(***************************************************************************)
EXTENDS Naturals, Sequences, FiniteSets, FiniteSetsExt

CONSTANTS
  Dirt,          \* the paths git may report
  Snapshots,     \* the task lists a caller may send
  ClientUpdates, \* a client updates the task list too
  MaxId,         \* bound on task ids ("t1" .. "tN")
  MaxInputs,     \* bound on messages, goals, calls, updates, pauses and restarts
  MaxVetoes,     \* MaxConsecutiveVetoes
  NoProgress,    \* NoProgressTurns
  DoneWhenRule,  \* require_done_when: "on", "off", or "goal" when not configured
  CleanTree,     \* require_clean_tree
  HasCommand     \* the workspace has a gate command

Statuses == {"pending", "in_progress", "blocked", "done", "failed", "cancelled"}
Sendable == [id : Nat, title : STRING, status : Statuses, dw : BOOLEAN, check : BOOLEAN, note : BOOLEAN]

ASSUME VerifyAssumption ==
  /\ MaxVetoes \in Nat \ {0} /\ NoProgress \in Nat /\ MaxId \in Nat
  /\ Snapshots \subseteq Seq(Sendable)
  /\ \A s \in Snapshots : (\E i, j \in DOMAIN s : i # j /\ s[i].id = s[j].id /\ s[i].id # 0)
                          => \A i \in DOMAIN s : s[i].id # 0
  /\ ClientUpdates \in BOOLEAN
  /\ DoneWhenRule \in {"on", "off", "goal"} /\ CleanTree \in BOOLEAN /\ HasCommand \in BOOLEAN

VARIABLES
  tasks,      \* the last tasks event: its revision and its list
  check,      \* id -> last result of the check "task:<id>"
  proven,     \* ids some passing check event names
  gateCheck,  \* last result of the check "verify.command"
  goal,       \* the projected goal's state
  spoke,      \* since the person's last message: a question, changed, reminded
  rounds,     \* vetoRounds: reasons of the trailing rounds without a tool call
  tree,       \* the workspace as git sees it
  baseline,   \* the tree verify recorded for the session
  verifyOff,  \* the registry disabled verify for the session
  work,       \* what the session's loop is doing
  client,     \* what the client's update_tasks call is doing
  talks,      \* history: vetoed stops in a row since a tool call or a message
  nags,       \* history: vetoes without a goal since the person's last message
  inputs      \* what the person, the client, the model and the machine did so far

verifyVars == <<tasks, check, proven, gateCheck, goal, spoke, rounds, tree, baseline,
                verifyOff, work, client, talks, nags, inputs>>

Ids      == 1 .. MaxId
Open     == {"pending", "in_progress"}
Results  == {"none", "pass", "fail"}
NoJob    == [at |-> "model"]

GoalActive == goal = "set"

---------------------------------------------------------------------------
(* Ids: an id sent is kept; a task sent without one (0) takes the id of an *)
(* earlier task with its title, once; else the next free number.           *)

Sent(inc) == {inc[i].id : i \in DOMAIN inc} \ {0}
Duplicated(inc) == \E i, j \in DOMAIN inc : i # j /\ inc[i].id = inc[j].id /\ inc[i].id # 0
IdsOf(list) == {list[i].id : i \in DOMAIN list}
Highest(ids) == Max(ids \cup {0})

ByTitle(prev, inc, title) ==
  LET at == {i \in DOMAIN prev : prev[i].title = title /\ prev[i].id \notin Sent(inc)}
  IN  IF at = {} THEN 0 ELSE prev[Min(at)].id

(* Mutant: an earlier task's id goes to every task with its title.         *)
TitleTakenNever(inc, i) == FALSE

TitleTaken(inc, i) == \E j \in 1 .. (i - 1) : inc[j].id = 0 /\ inc[j].title = inc[i].title
Fresh(prev, inc, i) ==
  inc[i].id = 0 /\ (ByTitle(prev, inc, inc[i].title) = 0 \/ TitleTaken(inc, i))

TaskIDs(prev, inc) ==
  [i \in DOMAIN inc |->
     IF inc[i].id # 0 THEN inc[i].id
     ELSE IF ~Fresh(prev, inc, i) THEN ByTitle(prev, inc, inc[i].title)
     ELSE Highest(IdsOf(prev) \cup Sent(inc)) + Cardinality({j \in 1 .. i : Fresh(prev, inc, j)})]

ById(list, id) == list[CHOOSE i \in DOMAIN list : list[i].id = id]

(* Merge: ids, then done_when, check and note carried over when left out,  *)
(* and evidence set from a passing check and never from the sender.        *)
Merge(prev, inc, passed) ==
  [rev  |-> prev.rev + 1,
   list |-> [i \in DOMAIN inc |->
     LET id  == TaskIDs(prev.list, inc)[i]
         had == id \in IdsOf(prev.list)
         p   == ById(prev.list, id)
     IN  [id     |-> id,
          title  |-> inc[i].title,
          status |-> inc[i].status,
          dw     |-> inc[i].dw \/ (had /\ p.dw),
          check  |-> inc[i].check \/ (had /\ p.check),
          note   |-> inc[i].note \/ (had /\ p.note),
          ev     |-> inc[i].status = "done"
                     /\ ((had /\ p.status = "done" /\ p.ev) \/ id \in passed)]]]

Fits(prev, inc) == \A i \in DOMAIN inc : TaskIDs(prev, inc)[i] \in Ids

---------------------------------------------------------------------------
VerifyInit ==
  /\ tasks = [rev |-> 0, list |-> <<>>]
  /\ check = [i \in Ids |-> "none"] /\ proven = {} /\ gateCheck = "none"
  /\ goal = "none"
  /\ spoke = [ask |-> FALSE, changed |-> FALSE, reminded |-> FALSE]
  /\ rounds = <<>>
  /\ \E d \in SUBSET Dirt, known \in BOOLEAN :
       /\ tree = [dirty |-> d, built |-> FALSE, moved |-> FALSE]
       /\ baseline = [known |-> known, dirty |-> d]
  /\ verifyOff = FALSE /\ work = [at |-> "idle"] /\ client = NoJob
  /\ talks = 0 /\ nags = 0 /\ inputs = 0

Input == inputs < MaxInputs /\ inputs' = inputs + 1

(* A person's message: the loop runs, and what it answers starts afresh.   *)
Prompt(ask) ==
  /\ work.at # "paused"
  /\ Input
  /\ spoke' = [ask |-> ask, changed |-> FALSE, reminded |-> FALSE]
  /\ rounds' = <<>> /\ talks' = 0 /\ nags' = 0
  /\ work' = CASE work.at \in {"idle", "blocked"} -> NoJob
              [] work.at = "stopping" -> [work EXCEPT !.heard = TRUE]
              [] OTHER -> work
  /\ UNCHANGED <<tasks, check, proven, gateCheck, goal, tree, baseline, verifyOff, client>>

SetGoal ==
  /\ goal # "set"
  /\ Input
  /\ goal' = "set"
  /\ work' = IF work.at = "idle" THEN NoJob ELSE work
  /\ UNCHANGED <<tasks, check, proven, gateCheck, spoke, rounds, tree, baseline, verifyOff,
                 client, talks, nags>>

(* Budget or shutdown pauses the session between turns.  Resume tells the  *)
(* modules, and verify takes what is on disk now as the new start point.   *)
Pause ==
  /\ work.at = "model"
  /\ Input
  /\ work' = [at |-> "paused"]
  /\ UNCHANGED <<tasks, check, proven, gateCheck, goal, spoke, rounds, tree, baseline, verifyOff,
                 client, talks, nags>>

Resume ==
  /\ work.at = "paused"
  /\ work' = NoJob
  /\ IF verifyOff THEN UNCHANGED <<tree, baseline>>
     ELSE /\ baseline' = [known |-> TRUE, dirty |-> tree.dirty]
          /\ tree' = [tree EXCEPT !.moved = FALSE, !.built = FALSE]
  /\ UNCHANGED <<tasks, check, proven, gateCheck, goal, spoke, rounds, verifyOff, client,
                 talks, nags, inputs>>

(* The daemon restarts: baselines and disabled modules were in memory only, *)
(* a session cut off while running comes back paused, and a client's call   *)
(* is gone.                                                                *)
Restart ==
  /\ Input
  /\ baseline' = [baseline EXCEPT !.known = FALSE] /\ verifyOff' = FALSE
  /\ work' = IF work.at \in {"idle", "blocked"} THEN work ELSE [at |-> "paused"]
  /\ client' = NoJob
  /\ UNCHANGED <<tasks, check, proven, gateCheck, goal, spoke, rounds, tree, talks, nags>>

ToolCalled == rounds' = <<>> /\ talks' = 0

(* A tool call that changes the workspace and succeeds.                    *)
ChangeWorkspace ==
  /\ work.at = "model"
  /\ ToolCalled
  /\ spoke' = [spoke EXCEPT !.changed = TRUE]
  /\ \/ \E f \in Dirt : tree' = [tree EXCEPT !.dirty = @ \cup {f}]
     \/ \E b \in BOOLEAN :   \* a commit: with the build output, or taking it out again
          tree' = [dirty |-> {}, moved |-> TRUE, built |-> b]
  /\ Input
  /\ UNCHANGED <<tasks, check, proven, gateCheck, goal, baseline, verifyOff, work, client,
                 nags>>

---------------------------------------------------------------------------
(* task.update by the model: verify's tool gate on the list as it stands,  *)
(* one check after another, and then the merge into the list as it stands  *)
(* by then.                                                                *)

RequireDoneWhen == DoneWhenRule = "on" \/ (DoneWhenRule = "goal" /\ GoalActive)

LacksDoneWhen(inc, ids) ==
  \E i \in DOMAIN inc : ids[i] \notin IdsOf(tasks.list) /\ ~inc[i].dw

(* The tasks whose commands the gate runs: sent as done, with a command in *)
(* the snapshot, and not already done.                                     *)
ToRun(inc, ids) ==
  {i \in DOMAIN inc : /\ inc[i].status = "done" /\ inc[i].check
                      /\ ~(ids[i] \in IdsOf(tasks.list) /\ ById(tasks.list, ids[i]).status = "done")}

TaskCall(inc) ==
  /\ work.at = "model"
  /\ Fits(tasks.list, inc)
  /\ Input /\ ToolCalled
  /\ LET ids == IF Duplicated(inc) THEN [i \in DOMAIN inc |-> inc[i].id] ELSE TaskIDs(tasks.list, inc)
     IN  work' = IF verifyOff THEN [at |-> "update", inc |-> inc]
                 ELSE IF RequireDoneWhen /\ LacksDoneWhen(inc, ids) THEN NoJob
                 ELSE [at |-> "checks", inc |-> inc, ids |-> ids, todo |-> ToRun(inc, ids)]
  /\ UNCHANGED <<tasks, check, proven, gateCheck, goal, spoke, tree, baseline, verifyOff, client,
                 nags>>

(* The gate's next command: a failure, or its timeout, is logged and the  *)
(* call is denied.                                                         *)
RunCheck ==
  /\ work.at = "checks"
  /\ IF work.todo = {}
     THEN /\ work' = [at |-> "update", inc |-> work.inc]
          /\ UNCHANGED <<check, proven>>
     ELSE LET i == Min(work.todo)
              id == work.ids[i]
          IN  \/ /\ check' = [check EXCEPT ![id] = "pass"] /\ proven' = proven \cup {id}
                 /\ work' = [work EXCEPT !.todo = @ \ {i}]
              \/ /\ check' = [check EXCEPT ![id] = "fail"]
                 /\ work' = NoJob /\ UNCHANGED proven
  /\ UNCHANGED <<tasks, gateCheck, goal, spoke, rounds, tree, baseline, verifyOff, client,
                 talks, nags, inputs>>

(* The hook panics or outlives GateTimeout: the registry takes verify out  *)
(* of the session, and the call goes on as if no gate had been asked.      *)
GateHookFails ==
  /\ work.at = "checks"
  /\ verifyOff' = TRUE
  /\ work' = [at |-> "update", inc |-> work.inc]
  /\ UNCHANGED <<tasks, check, proven, gateCheck, goal, spoke, rounds, tree, baseline, client,
                 talks, nags, inputs>>

(* UpdateTasks, in its two steps: read the list and the log, then append.  *)
UpdateRead ==
  /\ work.at = "update"
  /\ work' = IF work.inc = <<>> \/ Duplicated(work.inc) THEN NoJob   \* Merge refuses it
             ELSE [at |-> "append", inc |-> work.inc, prev |-> tasks, passed |-> proven]
  /\ UNCHANGED <<tasks, check, proven, gateCheck, goal, spoke, rounds, tree, baseline, verifyOff,
                 client, talks, nags, inputs>>

UpdateAppend ==
  /\ work.at = "append" /\ Fits(work.prev.list, work.inc)
  /\ tasks' = Merge(work.prev, work.inc, work.passed)
  /\ work' = NoJob
  /\ UNCHANGED <<check, proven, gateCheck, goal, spoke, rounds, tree, baseline, verifyOff, client,
                 talks, nags, inputs>>

(* rho.session.update_tasks: the same, from another goroutine, with no     *)
(* gate.                                                                   *)
ClientRead(inc) ==
  /\ ClientUpdates /\ client = NoJob /\ Input
  /\ inc # <<>> /\ ~Duplicated(inc) /\ Fits(tasks.list, inc)
  /\ client' = [at |-> "append", inc |-> inc, prev |-> tasks, passed |-> proven]
  /\ UNCHANGED <<tasks, check, proven, gateCheck, goal, spoke, rounds, tree, baseline, verifyOff,
                 work, talks, nags>>

ClientAppend ==
  /\ client.at = "append"
  /\ tasks' = Merge(client.prev, client.inc, client.passed)
  /\ client' = NoJob
  /\ UNCHANGED <<check, proven, gateCheck, goal, spoke, rounds, tree, baseline, verifyOff, work,
                 talks, nags, inputs>>

---------------------------------------------------------------------------
(* The stop gate.  A reason is the sentence a veto carries, as what can    *)
(* make two of them differ.                                                *)

OpenTaskReason(list) ==
  LET open == {t \in list : t.status \in Open}
      bare == {t \in list : t.status = "blocked" /\ ~t.note}
  IN  IF open \cup bare = {} THEN {} ELSE {[open |-> {t.id : t \in open \cup bare}]}

(* A task's failure counts while the task is on the list and not cancelled.*)
FailedTasks(list) == {t \in list : t.status # "cancelled" /\ check[t.id] = "fail"}
FailedChecks(list, gate) ==
  {[failed |-> t.id] : t \in FailedTasks(list)} \cup (IF gate = "fail" THEN {[failed |-> 0]} ELSE {})

SessionChanges == IF CleanTree /\ baseline.known THEN tree.dirty \ baseline.dirty ELSE {}
TreeReason == IF SessionChanges = {} THEN {} ELSE {[tree |-> SessionChanges]}
BuildReason == IF CleanTree /\ baseline.known /\ tree.moved /\ tree.built THEN {[built |-> TRUE]} ELSE {}

GateRuns == HasCommand /\ spoke.changed
GateReason(result) == IF GateRuns /\ result = "fail" THEN {[gate |-> "fail"]} ELSE {}
AfterGate(result) == IF GateRuns THEN result ELSE gateCheck

(* A question answered is a finished turn, never under a goal.             *)
AnsweredOnly == ~GoalActive /\ spoke.ask /\ ~spoke.changed

(* remindOnce: everything it can see, once after each message of a person. *)
Reminder(info, result) ==
  IF ~spoke.changed \/ spoke.reminded THEN {}
  ELSE UNION {GateReason(result), FailedChecks(info.tasks, AfterGate(result)) \ {[failed |-> 0]},
              IF GateReason(result) = {} THEN FailedChecks({}, AfterGate(result)) ELSE {},
              TreeReason, BuildReason, IF tree.moved THEN {[branch |-> TRUE]} ELSE {},
              OpenTaskReason(info.tasks)}

(* With a goal, the first objection in this order; the judge comes last,   *)
(* and without a goal in the snapshot it is not asked.                     *)
FirstOf(reasons) == LET some == {i \in DOMAIN reasons : reasons[i] # {}}
                    IN  IF some = {} THEN {} ELSE reasons[Min(some)]

(* Mutant: the tree is not looked at under a goal.                         *)
BeforeJudgeAnyTree(info, result) ==
  FirstOf(<<OpenTaskReason(info.tasks), FailedChecks(info.tasks, gateCheck),
            GateReason(result), BuildReason>>)

BeforeJudge(info, result) ==
  FirstOf(<<OpenTaskReason(info.tasks), FailedChecks(info.tasks, gateCheck),
            GateReason(result), BuildReason, TreeReason>>)

(* The gate's command runs only when nothing before it objected.           *)
GateReached(info) ==
  IF GoalActive THEN OpenTaskReason(info.tasks) = {} /\ FailedChecks(info.tasks, gateCheck) = {}
  ELSE ~AnsweredOnly /\ spoke.changed /\ ~spoke.reminded

(* An answer with no tool call: the log and the task list as the gates     *)
(* will be told of them.                                                   *)
StopBegin ==
  /\ work.at = "model"
  /\ work' = [at |-> "stopping", tasks |-> {tasks.list[i] : i \in DOMAIN tasks.list},
              goal |-> GoalActive, rounds |-> rounds, heard |-> FALSE]
  /\ UNCHANGED <<tasks, check, proven, gateCheck, goal, spoke, rounds, tree, baseline, verifyOff,
                 client, talks, nags, inputs>>

(* Mutant: this round is not counted.                                      *)
StalledLate(rs, reason) ==
  /\ NoProgress >= 2 /\ Len(rs) >= NoProgress
  /\ \A i \in (Len(rs) - NoProgress + 1) .. Len(rs) : rs[i] = reason

(* The same reasons stood for NoProgress rounds, this one included.        *)
StalledBy(rs, reason) ==
  /\ NoProgress >= 2 /\ Len(rs) >= NoProgress - 1
  /\ \A i \in (Len(rs) - NoProgress + 2) .. Len(rs) : rs[i] = reason

(* askStopGate with the veto it was given: the session takes another turn, *)
(* or is blocked because nothing changes or the limit is reached.  The veto*)
(* lands behind whatever the log received meanwhile.                       *)
Vetoed(reason) ==
  /\ rounds' = IF work.heard THEN <<>> ELSE Append(work.rounds, reason)
  /\ talks' = IF work.heard THEN 0 ELSE talks + 1
  /\ spoke' = [spoke EXCEPT !.reminded = TRUE]
  /\ nags' = IF GoalActive THEN nags ELSE nags + 1
  /\ work' = IF StalledBy(work.rounds, reason) \/ Len(work.rounds) + 1 > MaxVetoes
             THEN [at |-> "blocked"] ELSE NoJob

Allowed == work' = [at |-> "idle"] /\ talks' = 0 /\ UNCHANGED <<rounds, spoke, nags>>

StopDecide ==
  /\ work.at = "stopping" /\ ~verifyOff
  /\ \E result \in {"pass", "fail"}, verdict \in {"met", "impossible", "unmet", "no answer"} :
       LET info == work
           runs == GateReached(info) /\ GateRuns
           reason == IF AnsweredOnly THEN {}
                     ELSE IF ~GoalActive THEN Reminder(info, result)
                     ELSE IF BeforeJudge(info, result) # {} THEN BeforeJudge(info, result)
                     ELSE IF info.goal /\ verdict \in {"unmet", "no answer"} THEN {[judge |-> verdict]}
                     ELSE {}
       IN  /\ gateCheck' = IF runs THEN result ELSE gateCheck
           /\ goal' = IF GoalActive /\ info.goal /\ reason = {} THEN verdict ELSE goal
           /\ IF reason = {} THEN Allowed ELSE Vetoed(reason)
  /\ UNCHANGED <<tasks, check, proven, tree, baseline, verifyOff, client, inputs>>

(* The hook fails, or was taken out before: no veto, and the turn is over. *)
StopHookFails ==
  /\ work.at = "stopping"
  /\ verifyOff' = TRUE
  /\ Allowed
  /\ UNCHANGED <<tasks, check, proven, gateCheck, goal, tree, baseline, client, inputs>>

VerifyNext ==
  \/ \E ask \in BOOLEAN : Prompt(ask)
  \/ SetGoal \/ Pause \/ Resume \/ Restart \/ ChangeWorkspace
  \/ \E inc \in Snapshots : TaskCall(inc) \/ ClientRead(inc)
  \/ RunCheck \/ GateHookFails \/ UpdateRead \/ UpdateAppend \/ ClientAppend
  \/ StopBegin \/ StopDecide \/ StopHookFails

VerifySpec == VerifyInit /\ [][VerifyNext]_verifyVars

---------------------------------------------------------------------------
Task == [id : Ids, title : STRING, status : Statuses, dw : BOOLEAN, check : BOOLEAN,
         note : BOOLEAN, ev : BOOLEAN]

VerifyTypeOK ==
  /\ tasks.rev \in Nat /\ \A i \in DOMAIN tasks.list : tasks.list[i] \in Task
  /\ check \in [Ids -> Results] /\ proven \subseteq Ids /\ gateCheck \in Results
  /\ goal \in {"none", "set", "met", "impossible"}
  /\ spoke \in [ask : BOOLEAN, changed : BOOLEAN, reminded : BOOLEAN]
  /\ tree \in [dirty : SUBSET Dirt, built : BOOLEAN, moved : BOOLEAN]
  /\ baseline \in [known : BOOLEAN, dirty : SUBSET Dirt]
  /\ verifyOff \in BOOLEAN
  /\ work.at \in {"idle", "model", "paused", "blocked", "checks", "update", "append", "stopping"}
  /\ client.at \in {"model", "append"}

(* However calls and client updates interleave, the list never holds two   *)
(* tasks under one id, and a task's evidence names a check that did pass   *)
(* under that id (TaskIDs, Merge, UpdateTasks with nothing held).          *)
TasksAreSound ==
  /\ \A i, j \in DOMAIN tasks.list : i # j => tasks.list[i].id # tasks.list[j].id
  /\ \A i \in DOMAIN tasks.list : tasks.list[i].ev =>
       tasks.list[i].status = "done" /\ tasks.list[i].id \in proven

(* A model that only talks is stopped: no more than MaxVetoes vetoed       *)
(* answers in a row and one, or NoProgress of them for one reason.  And    *)
(* with the person watching it is reminded once after each of their        *)
(* messages, over pauses, restarts and gates that are asked again.         *)
TalkEnds ==
  /\ nags <= 1
  /\ talks <= MaxVetoes + 1
  /\ Len(rounds) <= MaxVetoes + 1
  /\ (work.at = "model" /\ NoProgress >= 2 /\ Len(rounds) >= NoProgress) =>
       \E i, j \in (Len(rounds) - NoProgress + 1) .. Len(rounds) : rounds[i] # rounds[j]

(* A goal is declared met only by a stop that went through everything      *)
(* cheaper than the judge: no task of the snapshot open, no check of a     *)
(* live task failing, the gate's last run passed if it ever ran, and       *)
(* nothing the session changed left uncommitted.                           *)
MetIsEarned ==
  [][goal = "set" /\ goal' = "met" =>
       /\ work.at = "stopping" /\ work.goal
       /\ \A t \in work.tasks : t.status \notin Open /\ (t.status = "blocked" => t.note)
       /\ \A t \in work.tasks : t.status # "cancelled" => check[t.id] # "fail"
       /\ gateCheck' # "fail" /\ (spoke.changed /\ HasCommand => gateCheck' = "pass")
       /\ (baseline.known /\ CleanTree) => tree.dirty \subseteq baseline.dirty]_verifyVars
=============================================================================
