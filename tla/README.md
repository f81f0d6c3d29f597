# nabu: a verification project

TLA+ models of nabu, an agent daemon with its clients, checked with TLC and proved about
with TLAPS. It lives beside the code: every definition that models code is mapped to the
lines it translates in `PROJECT.json`, next to the hazards the properties are for, the
disagreements between the documents and the code, and the bugs each property has been
shown to catch.

- [What is here](#what-is-here)
- [The system](#the-system): its parts, and how they interact
- [SessionLoop](#sessionloop-the-agent-loop-of-one-session): the agent loop of one session
- [Delivery](#delivery-from-the-log-to-the-clients): from the log to the clients
- [RunWorkflow](#runworkflow-one-task-run): one task run
- [What decides about a turn](#what-decides-about-a-turn): run `turn`
- [The daemon around the loop](#the-daemon-around-the-loop): run `service`
- [The clients](#the-clients): run `clients`
- [Where the documents and the code disagree](#where-the-documents-and-the-code-disagree)
- [Observed, and not a run](#observed-and-not-a-run)
- [What is only model-checked, and what is not modelled](#what-is-only-model-checked-and-what-is-not-modelled)
- [Plan](#plan)

## What is here

| Module | What it models |
|---|---|
| `SessionLoop`, `SessionLoop_proofs` | one session: every call that starts, cuts off or rewrites its agent loop, the loop, crash and restart; its safety, proved for any number of calls |
| `Delivery`, `Mirror`, `Delivery_proofs` | how a session's events reach its clients; what a client is promised, which `Delivery` implements; its safety and that refinement, proved for any clients, fan-outs and buffers |
| `RunWorkflow`, `RunWorkflow_proofs` | one task run: the transition function and what the runner makes of each step; its safety, proved for any caps |
| `Verify` | task lists, their checks, the stop gate and the goal; proved for any kinds of task and client |
| `ToolCalls` | a reply's tool calls through gates, execution and the end of the session; the isolation of hooks; proved for any gates and batches |
| `Repetition`, `RepeatWatch` | the watch for repeated calls; the watch for a stream that repeats itself |
| `Guard` | the verdict on a tool call; proved for any chains and rules |
| `StuckAsk` | the help of a second model; proved for any number of asks |
| `WorkspaceWatch` | what the model is told that others changed; proved for any files |
| `ModelView` | the request assembled from the log; the blocks of modules; compaction; proved for any number of prompts, notes and restarts |
| `ModelCall` | one call of the provider: slot, attempts, stream, reply; proved for any callers and slots |
| `Turn_proofs` | the proofs about the parts of a turn above |
| `Notifier`, `Requests`, `Asker` | notices to phones; questions to clients, over the notifier; what an asker is promised, which `Requests` implements; all of it proved for any clients, questions and queue |
| `Archive` | logs on disk, open sessions and runtimes while sessions are archived, restored, prompted and swept; proved for any families of sessions and calls |
| `DaemonStart` | commands that start a daemon, daemons that claim the root, shutdown; proved for any number of either |
| `Memory` | memories under concurrent curators and consolidation; proved for any sessions, facts and caps |
| `Service_proofs` | the proofs about the parts of the daemon above |
| `Stats` | statistics of logs that move while they are read |
| `Goals`, `Goals_proofs` | a goal worked as runs; proved for any caps and crashes |
| `RunCrash`, `RunCrash_proofs` | a run's effects and saves, with crashes in between; proved for any caps, tasks and crashes |
| `Watcher` | the GitHub watcher's jobs; proved for any comments, heads and crashes |
| `Phone` | the Android client's outbox and mirror; proved for any prompts, drainers and refreshers |
| `Terminal` | the terminal client: screen, connection and what passes between them; proved for any sessions, events and actions |
| `Clients_proofs` | the proofs about the three clients above |
| `Ordered` | the numbers of a set in their order, for what sorts by time or id |
| `MC_*` | the values the configurations use, and for `MC_Turn`, `MC_Service` and `MC_Clients` the parts put together |

| Configuration | Module | Distinct states | Shows |
|---|---|---|---|
| `session_loop` | `MC_SessionLoop` | 349 thousand | safety of the loop |
| `session_live` | `MC_SessionLoop` | 28 thousand | every call returns |
| `delivery` | `MC_Delivery` | 828 thousand | safety of delivery, and that it implements `Mirror` |
| `delivery_live` | `MC_Delivery` | 434 thousand | every client catches up |
| `run_workflow` | `MC_RunWorkflow` | 1.1 million | safety of a run, and when it ends |
| `turn` | `MC_Turn` | 2.6 million | what decides about a turn |
| `service` | `MC_Service` | 2.8 million | the daemon around the loop |
| `clients` | `MC_Clients` | 4.3 million | the clients and their crashes |
| `lost_prompt`, `deaf_subscriber`, `run_wedged`, `wrong_transcript` | | | a violation each: a document and the code disagree |

`turn`, `service` and `clients` check several components in one run each. The components of a run
share no state and communicate in the code only through calls that each model already has
as a free choice, so the run picks one of them at the start (`part`) and explores it alone:
what it shows is what a run of each would show, at the sum of their sizes and not the
product.

To check a configuration: `tlc -config session_loop.cfg MC_SessionLoop`. To check the
proofs: `tlapm SessionLoop_proofs.tla`, and so for each `_proofs` module
(`Delivery_proofs`, `Clients_proofs`, `Service_proofs` and `Turn_proofs` take some minutes each). A definition whose comment begins with "Mutant"
is a bug the model can be given in place of the definition that follows it;
`PROJECT.json` says which property finds it.

## The system

A daemon (`daemon/`) owns sessions. A session is one conversation with a model that works
in a directory, and an append-only log of events that is the only record of it
(`protocol/spec.md`). Clients connect over a websocket, ask for things by JSON-RPC, and
follow a log from a cursor. The runner (`clients/runs/`) and the watcher
(`clients/github/`) are clients too: they carry a task through planning, work, checks and
a pull request by having the daemon's sessions do the steps.

```
 terminal, phone, watcher ──┐ calls, answers                      ┌── model endpoint
                            ├──> api ──> agent loop ──> modules, tools
 runner ── sessions ────────┘     ^          │ Append
   │ verify.sh, Claude, GitHub    │ events   v
   v                              └──── session store ── files
 run and goal files
```

For each part: its state, its operations, what is hard, what makes it correct, and where
it is modelled.

**Session lifecycle and agent loop** (`daemon/agent`). State: `rs.running`, `cancel`,
`done`, `cancelCompact` per session under `m.mu`, `compactMu` per session,
`Manager.closed`, and the log. Operations: prompt, set a goal, resume, interrupt, stop,
compact, archive, restore, shutdown; one loop goroutine per session that calls the model,
runs tools, summarises and asks the stop gate. Hard: every call runs in a goroutine of its
own, and checks a state under one lock and acts on it under another. Correct: one loop, no
message lost, no end overtaken, running means running, budgets hold, no call hangs; every
tool call has a result. `SessionLoop`, `ToolCalls`, `RepeatWatch`.

**Compaction** (`compaction.go`, `request.go`). State: the range being summarised, the
`summarize` records. It rewrites what later requests hold while messages arrive. Correct:
what a request drops is in a summary, what modules put in is put back, and between two
compactions a request extends the last. `SessionLoop` has the locks, `ModelView` the
contents.

**Session store** (`daemon/session`). State: open sessions, files, archive directory,
subscribers of each session. Hard: a crash in mid-write, archive under a handle that
lives. Correct: one writer of a log, and what was archived together comes back together.
`Archive`; append and subscribe in `Delivery`; recovery is `SessionLoop`'s `Boot`.

**Client requests and fan-out** (`daemon/api`). State: a fan-out per followed session
with its members and pump, a bounded queue per connection, the table of questions put to
clients. Hard: a slow client must hold up nobody and lose nothing; the first of several
answers wins; a timeout races an answer; a subscribe races a question. `Delivery`,
`Requests`.

**Module registry and hooks** (`daemon/module`). State: which module is disabled in which
session, hook goroutines left behind, the task snapshot. Correct: a hook has a deadline
and what it says later is not heard; the strictest gate wins. `ToolCalls`, `Verify`.

**Modules** (`daemon/modules`). What each keeps of a session, rebuilt from the log or lost
with the daemon. *verify*: baselines, checks, the goal (`Verify`). *guard*: rules and
tiers (`Guard`). *loop*: the history of calls (`Repetition`). *claude*: the ask that runs
in the background (`StuckAsk`). *watch*: the snapshots (`WorkspaceWatch`). *notes*,
*skills*, *prompt*: blocks in view, reminders owed (`ModelView`). *memory*: two
directories, cursors (`Memory`). The others (answer, artifact, ask, report, vcs, web) are
single calls that keep nothing.

**Providers** (`daemon/provider`). State: `max_in_flight` slots, the attempt, what has
streamed. Hard: a failure after the first token, a stream that stops. `ModelCall`.

**Notifier** (`daemon/notify`). State: a bounded queue, devices, when each turn began.
It drops what does not fit. Hard: a stop lets go of it
before the sessions it would hear of are paused, and a start has it running before the
sessions that were cut off are. `Notifier`.

**Statistics** (`daemon/stats`, `allLogs`). No state but the logs, which move while they
are read. `Stats`.

**Daemon process** (`daemon/daemon.go`, `cmd/rho`). State: pid file, port file, listener.
Hard: two starts at once, a file left by a daemon that died. `DaemonStart`.

**Task runs** (`clients/runs`). State: the `Run` record, the worktree and its branch, the
request files sessions leave. Hard: six counts, three ways back (retry, re-plan, resume),
files that outlive their session, a crash between an effect and its record.
`RunWorkflow`, `RunCrash`.

**Goals worked as runs** (`goalrunner.go`, `goaltransition.go`). State: the goal file,
the runs it started, the owner's labels. Hard: a run is made, saved and linked in three
saves. `Goals`.

**GitHub watcher** (`clients/github`). State: jobs, marks of what was handled. It saves
after it acts, and the answer of an act may be lost. `Watcher`.

**Protocol library** (`protocol`). Pure: projection of a log, request assembly, cursors,
validation. Projection and assembly are in the modules that use them.

**Terminal client** (`clients/go-tui`, `clients/goclient`). State: the screen's session,
transcript and prompts; the connection's session and cursor; the actions between them.
Attach, replay and stream against the daemon's fan-out are in `Delivery`; the screen
beside the connection in `Terminal`. Rendering is not modelled.

**Android client**. State: outbox, mirror, connection. Hard: answers lost after the
daemon acted, several drainers, a list of sessions that rewrites the mirror's row without
the session's lock. `Phone`.

**Tools and workspace, command line and benchmarks.** File and process I/O, argument
parsing and measurement: not modelled.

## SessionLoop: the agent loop of one session

### How it corresponds to the code

A call is one API request with a goroutine of its own, at `pc[c]`; the loop goroutine
that `ensureRunning` starts on behalf of call `c` is at `lp[c]`. An action is the code
between two points where another goroutine can act: taking a lock, waiting for a
channel, calling the model, running a hook. What is done under `m.mu` is one step, and so
is an append (`Session.mu`).

| In the model | In the code |
|---|---|
| `state`, `turns`, `budget` | what `protocol.Project` makes of the log |
| `msgs`, `before`, `covered` | the user messages in the log, those that precede the last `summarize` record, those in the range of some record |
| `cur`, `cancelled`, `closed` | `rs.running` and whose it is, the loop contexts cancelled, `Manager.closed` |
| `compactMu`, `compacting`, `rng` | `sessionHandle.compactMu`, `rs.cancelCompact`, the range a summary was asked for |
| `p_*`, `g_*`, `r_*` | `PromptWithID`, `SetGoal`, `Resume` |
| `x_*`, `s_*`, `c_*`, `d_*` | `Interrupt` and the part of `Stop` they share, `finish` in a stop, `Compact`, `Shutdown` |
| `top` to `exit` | `runLoop`, `turn`, `maybeCompact`, `afterTurn`, `askStopGate`, `finish`, and the goroutine's end |
| `Crash`, `Exit`, `Boot` | the process dies; it ends after `Shutdown`; `RecoverInterrupted` |

`sent` is not in the code: it records which messages some request has carried.

Left open, so that the model has every behaviour the code has and some more: whether the
context is full, whether a module vetoes, what a tool or a hook returns, when a model call
fails. Modelled elsewhere: archive and restore (`Archive`, `Delivery`), `UpdateTasks`
(`Verify`), `SetOption` and an append that fails (`ToolCalls`).

### What the runs check

`session_loop`: three calls, each of any kind (prompt, goal, resume, interrupt, stop,
compact, shutdown), with one crash and any restarts; a budget of one turn that a resume
may raise to two.

| Property | What it says |
|---|---|
| `OneLoop` | at most one loop goroutine, and it is the one `rs.running` stands for |
| `NothingStranded` | every user message that request assembly drops is in some summary's range |
| `NoLateResult` | a loop that was cut off is gone before the state that ends it is written |
| `RunningIsBacked` | a session in state `running` has a loop, or a call about to record that it has not, through crashes too |
| `BudgetHolds` | no turn is taken beyond the budget |

`TypeOK`, `ShutdownQuiesces` (once `Shutdown` has drained, no loop runs) and
`NoStartUnderSummary` (no loop starts while a requested summary is being written) are
proved below and named in no configuration.

`session_live`: two calls of any kind and one crash, under `LiveSpec`: `CallsReturn`,
no circle of `compactMu`, the wait for `done` and the wait for a summary.

*Bounds.* The operations interact in pairs, on a session some third call has started: a
prompt, then two operations that race. Calls are alike, so symmetry is sound; `session_live`
uses none. Two turns suffice to be within, at and past a budget. A restarted daemon starts
with an empty memory, so a second crash meets nothing the first does not. The theorems do
not depend on the bounds.

*Fairness.* A call and a loop that can go on do (the Go scheduler): a model call ends or
meets its deadline, and so does a hook. A waiter for `compactMu` gets it though others
want it too (strong fairness: after a millisecond `sync.Mutex` hands itself to the one
that waits longest). The process ends once `Shutdown` has returned. Nobody must call,
crash or restart.

### What is proved

`SessionLoop_proofs`, for any set of calls and operations, any budgets and any number of
crashes, from the four named assumptions on the constants (each operation is one of the
seven, `NoCall` is no call, the bounds are numbers, a budget is below `TurnCap`). Each
theorem has the inductive invariant that makes its property hold:

| Theorem | Invariant | What the strengthening says |
|---|---|---|
| `TypeCorrect` | `TypeOK` | |
| `LoopIsUnique` | `LoopInv` | `StartsOnce`: a call starts its loop with its last step, so before it the loop named after it does not exist |
| `MessagesAreKept`, `SummaryIsNotOvertaken` | `SummaryInv` | `MutexHeld`: who stands between lock and unlock holds `compactMu`; `RangeIsAll`: a range is every message there is while a summary is written |
| `ShutdownIsQuiet` | `ShutdownInv` | `ClosedFirst`: a shutdown past its first step has closed the manager; `DownIsEmpty`: no call is under way in a daemon that is down |
| `CutOffTurnsAreOver` | `LateInv` | `TargetStarted`: the loop a call waits for has been started, so it cannot begin once it has ended |
| `RunningIsAnswered` | `BackedInv` | who still answers for a session that says `running`: a cancelled loop that lives has its canceller waiting for it (`CancelAnswered`); so has a loop that leaves without a state change (`ExitAnswered`); a loop whose `finish` read another state than `running` writes nothing (`EndAnswered`); and without a loop some call is about to write (`Answered`) |
| `TurnsArePaid`, `TurnsAreBounded` | `BudgetInv` | `TurnIsPaid`: a loop between the check at the top of `runLoop` and the answer of the model is within the budget it was begun on |

`TurnsArePaid` is `BudgetHolds` on one condition, stated in the theorem: no resume gives a
session less than it has (`BudgetRaised`). `Resume` takes any number, and one that comes
while the loop of another resume is between its check and its answer takes away what that
turn was begun on; without the condition `BudgetHolds` does not follow. The run keeps it
true by its values, since its only budget to resume with is the higher one. What holds
whatever is resumed is `TurnsAreBounded`: a session never takes more turns than the highest
budget it was given. `CallsReturn` is model-checked only.

## Delivery: from the log to the clients

### How it corresponds to the code

An event is its position in the log. A connection is one of a client's slots, used again
once its teardown is over; a fan-out is one `Session.Subscribe` with the pump that empties
its channel.

| In the model | In the code |
|---|---|
| `len`, `archived`, `gen`, `mover` | the log, whether it is in the archive, which `Session` object is the open one, where `archiveOne` or `restoreOne` is |
| `registered`, `members` | `Handler.fanouts` for this session, `fanout.conns` |
| `chan`, `stream` | what the channel of a subscription holds; whether it is fed, closed, or neither, for the object it belongs to is closed (`dead`) |
| `pump`, `held`, `todo`, `at` | where `pump` or `pumpEnded` is, the event it forwards, the connections it still has to write to, the one it has found open |
| `conn`, `out` | `connState.quit` and the socket; `connState.out`, with what is on the wire |
| `serving`, `got` | the call a connection's worker carries out, and what it has read |
| `phase`, `link`, `cursor`, `shown`, `pending` | where `attach` is, its connection, `connectLoop`'s cursor, the transcript, the messages `Client` keeps until it streams |

What the code does between two locks is a step of its own where another goroutine can come
in: looking the session up and joining the fan-out; joining and replying; taking an event,
taking the snapshot of members, seeing `quit` open, queueing; ending a pump, asking whether
the session is archived, dropping each member; closing `quit` and closing the socket;
a connection's end and its teardown, which waits for its worker. `since` is not in the
code: it is the `Session` object a connection's subscribe looked up.

Left out: deltas, questions and replies to other calls, which share the queues (hence
queues of any length); `unsubscribe`, which no client of the repository calls; the choice
of another session (see `Terminal`). What a client has not read when its connection ends is lost, at worst
more than the code loses.

### What is promised, and what the runs check

`Mirror` is the specification a user has in mind: a log that grows and, per client, a copy
of its beginning that grows. `Mirrors` says `Delivery` implements it, with what a client
shows for its copy: nothing is skipped, doubled, reordered or taken back, whatever is
dropped, lost, restarted or archived meanwhile.

`delivery`: one client that may have a new connection while the old one is torn down, two
fan-outs (one ending while the next starts), a channel of one event and a queue of two, a
log of four events (a restore's notice is a fifth), and one trouble: an archive with its
restore, a lost connection, or a restart.
`delivery_live`: two clients on one session, channel and queue of one message each, so that
pumps and connections fall behind; under `LiveSpec`, no archive and no fault.

| Property | What it says |
|---|---|
| `Mirrors` | the refinement of `Mirror` |
| `FanoutIsSound` | a registered fan-out has members, none of them torn down, though a subscribe may run after its connection has ended (`NoPumpLeaks`); and once all is delivered, a client whose subscription stands is in the registered fan-out and, if that is fed, shows the whole log (`FollowersHear`): who missed an event was dropped for it |
| `CatchesUp` | a client that is behind has the whole log again in the end |

The disagreement `NobodyIsDeaf` (below) is what `FollowersHear` leaves out with "if that
is fed".

*Bounds.* A channel of one is full at the second event of a burst and a queue of one or
two between any two replies; the counts 64 and 1024 of the code only make this rarer. Four
events are a burst that overtakes its pump and one event more, by which a gap would show.
A connection is dropped for being behind without any trouble, so that one trouble already
meets fan-outs and connections that are ending. With two troubles and three events (1.5
million states) the same properties hold. Neither run is meant to end in a step: when the
log has grown to `MaxEvents` and everyone has everything, the system rests, and so
deadlock is not looked for; `CatchesUp` says that it does not rest before.

*Fairness.* Pumps, workers and readers go on (goroutines), a client without a connection
dials again for ever (`connectLoop`, `retry`). Nobody need append, archive, restore,
crash or lose a connection.

`TypeOK` and `CursorIsShown` (a client never resumes from an event it does not show, though
a repeated event moves the cursor back) are proved below and named in no configuration.

### What is proved

`Delivery_proofs`, for any clients, slots and fan-outs, any log, any number of troubles and
any buffers, from the three named assumptions (`BuffersAssumption`: a channel and a queue
hold at least one; `BoundsAssumption`: the bounds are numbers; `NoneAssumption`: the values
for "none" are none of the things): `DeliveryTypeCorrect`, `CursorAlwaysShown`,
`FanoutAlwaysSound` (`FanoutIsSound`) and `MirrorsAlways` (the refinement: `Init` maps to
`Mirror`'s initial states, each step to a step of it or to a stutter). One inductive
invariant, `DeliveryInv`, carries them:

| Part | What it says, and why it is needed |
|---|---|
| `LinkInv` | which connection is whose: a client's link is one of its own slots, a live connection is its client's link, and a worker has a connection |
| `ClientInv` | what a client shows is the log up to some event, and what its connection still has to tell it is in turn: kept messages, the wire, the reply being made. `Mirrors` and `CursorIsShown` are read off it |
| `FanInv` | the channel of a fan-out holds consecutive events, its pump the one before them, and only a registered fan-out is fed |
| `SinceInv` | the `Session` object a subscribe looked up is not newer than the open one, and older while the log is archived: a restore's object is nobody's yet |
| `NoPumpLeaks` | a registered fan-out has members, none of them torn down |
| `StandInv` | an open connection that has joined on the open `Session` object stands in the registered fan-out, or among those whose pump is about to drop them |
| `SendInv` | a pump that is to send an event sends it to connections that know the one before: show it, or have it on its way |
| `FlowInv` | a subscriber knows what precedes the next event of its fan-out, and has the base of all that fan-outs which are ending still carry |

`SendInv` alone is not inductive: the next event a pump takes must find its receivers ready
too, and so must every later one, while a second fan-out ends beside the first. `FlowInv`
says so of all that is still to come. `CatchesUp` is model-checked only.

## RunWorkflow: one task run

### How it corresponds to the code

`run` is the `Run` record of `state.go`, without the texts that only prompts carry. `tree`
is the worktree: the request files (`replan-request.md`, `verify-revision.md`) and the
unchecked tasks of `tasks.md` as they lie there (`here`) and as the last commit has them
(`head`), the requests in the branch as last pushed, and whether other files lie there that
no commit has (`loose`). `Transition`, `Resume` and what they call (`Onward`, `Retry`,
`Passed`, `Replan`, `Fail`, `Finish`, `AfterCheck`...) are `transition.go`, arrow by arrow.
The actions are the runner: `Begin` and `Watch` a session's step, `BeginFails` the one that
cannot be begun, `PlanningEnds`, `WorkEnds`, `FixEnds`, `VerdictEnds` and `ReflectEnds` what
`produced` and `replanned` make of one that has ended, `Setup` to `Merge` what `perform`
does itself, `ReviseFails` its error path, `Park` a gate at which Claude does not answer,
`Skip` and `PickUp` the owner.

What a working session leaves (`Leaves`) is any tasks, ticked, added or unticked, any
requests and other files, of all of it any part committed; the runner then counts the
unchecked tasks again, as `tasksLeft` does. `git rm` takes a file the last commit has and
no other (`Removable`).

Two variables are not in the code. `green`: `verify.sh` has passed since the last commit a
session made and since the check was last changed, on the commits alone (`alone`) or with
files beside them that no commit has (`beside`); the runner's own bookkeeping commits do
not count against it. `gates`: Claude's gates passed since the run was last planned, a skip
by the owner counting as a pass.

Sessions, Claude, GitHub and the owner are the environment: what they produce is any
choice that the runner accepts or throws away. CI still pending is a step that changes
nothing. Left out: advice texts, nudges, labels, issue reports and the trimmed history;
pushes by others that touch a request file.
Doing a step, recording it, taking the transition and saving are one action: a crash
between them is in `RunCrash`.

### What the run checks

`run_workflow`, with every cap at one, two tries of each kind and at most one task at a
time:

| Property | What it says |
|---|---|
| `PublishedIsChecked` | what is reviewed for a PR, opened as one or pushed has passed `verify.sh` since its last commit, and not before some fix, revision or new plan; files no commit has may lie beside it (`ChecksWhatItPushes`, violated) |
| `GatesPassed` | tasks, work, fixes and everything after have the plan review and the verify review behind them, through re-plans and resumes |
| `RunEnds` | a run that is asked for, or resumed, ends or is wedged, unless there is no end to work sessions that leave as many tasks as they found |

`RunEnds` has a condition and an excuse, and both are what the code does. Nothing counts
work sessions but the tasks they leave: one that commits a task for each it ticks, or
unticks one, is followed by another for ever (`Advances` is what a session does that is not
of that kind). And at two places every poll meets the same error, and no try is counted
(`Wedged`): at work without a task (`WorkHasATask`, violated), and at `revise` with a
request that git does not know, which is `run_wedged`.

Proved only: `CapsHold` (no count passes its cap and no step its tries, whatever way a run
came), `EndsTruly` (done means a PR and nothing failed; failed means a step to resume at),
`ReasonStands` (the step a run failed at survives the reflection in between), `SkipStays`
(a skip is spent at the gate it was given at), `TypeOK`.

*Bounds.* A cap of one meets every comparison at, below and past it; two tries tell a
retry from the last one; one task at a time tells one left from none, and a session or the
final review that adds one makes the next round. Larger caps repeat the same ways round.

*Fairness.* `RunEnds` assumes that the runner polls for ever and that something other than
waiting happens in the end: a session ends, Claude and CI answer, a slot comes free. The
owner need do nothing. Without `Advances` from some point on nothing is claimed.

### What is proved

`RunWorkflow_proofs`: the safety properties above, for any caps, tries and tasks,
from `CapsAssumption` (numbers; at least one revision, since a resume at `revise` makes
one whatever the cap), `TriesAssumption` and `TasksAssumption` (at least one of each). One
inductive invariant carries them: `WorkflowInv`, the type invariant and `RunInv`. Its core
is `Fits`, what a run needs to be at a step. A run that fails goes through a reflection
and may be resumed where it failed, so `Fits` has to hold of `failedAt` as of `step`; with
it go the counts (`Counts`, and `Below` for a run that has not failed by them) and the
places a skip may be. The lemmas follow the code: one for each way `Transition` goes on,
one for each action. `RunEnds` is model-checked only.

## What decides about a turn

Run `turn`, module `MC_Turn`. Each part is one component that a turn asks.

| Part | How it corresponds to the code |
|---|---|
| `Verify` | `tasks`, `check`, `spoke`, `rounds` are the folds `verify.go`, `stop.go` and `remind.go` make of the log; `work` is where the loop is in a task call or a stop gate, `client` where `UpdateTasks` is between its read and its append |
| `ToolCalls` | `loop` is the place in `runLoop`, `executeTools` and `finish`; a hook that outlives its deadline is a `zombie` and its module is `off`; `cancelled` is the loop's context |
| `Repetition` | `log` is the log since the start; `History`, `Turns`, `Verdict`, `Notices` are recomputed from it at each call as `loop.go` does |
| `Guard` | a command is a chain of segments, each a program, verb, flags and where its paths point; `Classify` and the rules are `guard.go`'s, a family of programs being one member of it |
| `RepeatWatch` | the stream is a word over two letters; `Check` is `repeat.go`'s search at every `Every` letters |
| `StuckAsk` | `waiting` is `Module.waiting`; `hook` tells the hook's look from the call that follows it |
| `WorkspaceWatch` | `last`, `before`, `mine` are the module's snapshots and own writes; `leftover` says that a command has left a process running, which goes on changing files (`LeftoverChanges`); `who` (not in the code) records who changed a file since the last report, `missed` what both changed and the report left out |
| `ModelView` | `events` is the log by kinds; `Assembled` is what `protocol.Assemble` and `request.go` make of it; `hooked` what the hooks of this request saw; `StopVetoed` logs a stop gate's objections, which end a request until the assistant has replied |
| `ModelCall` | `slots` is `p.sem`; `turns[c]` the attempt, what it has streamed, what was shown and logged |

| Property | What it says |
|---|---|
| `TasksAreSound` | however tool calls and client updates interleave, no two tasks share an id, and a task's evidence is a check that passed under that id |
| `TalkEnds` | a model that only talks is stopped after the configured vetoes, and reminded once for each of the person's messages |
| `MetIsEarned` | a goal is met only by a stop that went through tasks, checks, gate and tree |
| `CallsAreSound` | every call has its result before the next request (`NothingIsLeftOpen`), and a deny, a halt or an unanswered ask is heeded (`ANoIsHeeded`) |
| `CirclesAreCaught` | one edit with one result is not run past its limit while nothing else changes the file, and nobody is stopped before being told (`CirclesEnd`); the repeat watch trips when, and only when, it should, and what it keeps is the stream (`WatchIsRight`) |
| `GateIsMonotone` | a command added to a chain never gets it through more easily, and a looser mode is never stricter |
| `ReplyIsSound` | a slot is held only while a call is at the provider, a reader sees one attempt, what was seen is logged, and what runs is whole |
| `HelpIsSound` | the second model is asked as often as was earned, about the stretch its answer stands in, and the answer outlives a summary |
| `ReportsAreRight` | a request names no file that only the agent changed, and leaves out none that only others changed; what a command left running changes after it counts as others' |
| `ViewIsWhole` | notes are current, the last prompt is there word for word, a touched skill has been named once, and nothing said falls out unsummarised |
| `RequestsExtend` | between two compactions a request is the last one and what was logged since, but for the objections at its end: the next has those and perhaps more, or none of them once there is a reply |
| `TurnTypeOK` | the type invariants of the parts |

*Bounds.* Limits are set to the smallest value at which below, at and past differ (vetoes
2, retries 1, identical calls 2). `Verify`: four inputs of a person or client and two task
lists that clash. `Repetition`: a log of eleven, enough to reach a halt after a notice;
`Commands` and `Waiting` are empty, which leaves their branches to larger instances (checked
by hand with one of each). `RepeatWatch`: every stream of twelve over two letters.
`ModelCall`: two callers of one slot, of which one is never sent a chunk (`OneStreams`),
since streams do not meet. `ModelView`: a log of five and one mishap. Some of these parts
start from any state a session can be in (`VerifyInit`, `WsInit`), which replaces a longer
prefix.

*What is excused.* A property that the code does not keep in some corner says so in its own
text: `ReportsAreRight` while a command could not be looked at (`blind`) and for what a
command left running changes after it (`left`), `RequestsExtend` for the objections of a
stop gate, `HelpIsSound` for
an ask overtaken by the person and a block lost in a crash, `ReplyIsSound` for a server that
stops in the middle of a call and says nothing, `ViewIsWhole` for a hook cut off. The
section "Observed, and not a run" has what happens there.

### What is proved

`Turn_proofs` has the safety properties of seven of these parts, each with the inductive
invariant that carries it.

| Part, for any | Theorems | Invariant, and what the strengthening says |
|---|---|---|
| `Verify`: snapshots of tasks, bounds on vetoes, rules (`VerifyAssumption`) | `VerifyTypeCorrect`, `TasksAlwaysSound`, `TalkAlwaysEnds`, `MetIsEarnedAlways` | `VerifyInv`. `Kept`: the list as it is has ids of their own and evidence from checks that passed. `WorkFits`, `ClientFits`: so has the list that each of the two callers read and has yet to append to, and the checks it ran passed; this is what makes their interleavings harmless. `TalkFits`: a session that is not blocked has not used up its vetoes, nor had the last few for one reason |
| `ToolCalls`: gates (at least one), batches, replies, failed appends (`ToolCallsAssumption`) | `ToolTypeCorrect`, `CallsAreCarriedOut` (`CallsAreSound`) | `ToolInv`. `Carries`: what the loop carries at each place. `CallsLeft`: the call in hand is the last one logged and open, and any other open call was left by an append that failed. `Verdict`: what the gates have said so far is what the verdict is made of. `HaltIsKept`: a gate's halt is still to be acted on or has ended the batch |
| `StuckAsk`: pace, allowance, room for answers, restarts (`StuckAskAssumption`) | `StuckTypeCorrect`, `HelpAlwaysSound` (`HelpIsSound`) | `StuckInv`. `AsksMeasured`: every ask in the log was earned when it was logged. `WaitFits`: the ask under way is about a stretch that had earned it, until the person speaks. `KeptFits`: what the last summary retired is in a block behind it, or between the two there is only the person |
| `WorkspaceWatch`: finite set of files, limits, changes (`WsAssumption`) | `WsTypeCorrect`, `ReportsAreAlwaysRight` (`ReportsAreRight`) | `WsInv`. `OwnFits`: what the module counts as the agent's own the agent did touch. `TheirsFit`: what differs from the last look and is not its own, somebody else changed, or what a command left running, or the command under way did and will claim. `LookFits`, `LookedFits`: the same of the look taken before a command |
| `Guard`: chains of commands, rules (`GuardAssumption`) | `GuardTypeCorrect`, `GateIsAlwaysMonotone` (`GateIsMonotone`) | `GuardInv` is types; the work is in the lemmas on the fold over segments: `LongerIsStricter` and one for each mode |
| `ModelCall`: callers, slots, retries, lengths of streams (`ModelCallAssumption`) | `ModelCallTypeCorrect`, `RepliesAreAlwaysSound` (`ReplyIsSound`) | `CallInv`. The slots are exactly the callers at the provider. `ShownFits`: at which places something was shown, and that it is of this attempt. `RanFits`: a call that is not whole is the last part of its stream, so what may run is whole |
| `ModelView`: numbers of prompts, requests, versions of the note, restarts and cut-off hooks (`ViewAssumption`) | `ViewTypeCorrect`, `ViewIsAlwaysWhole` (`ViewIsWhole`), `RequestsAlwaysExtend` (`RequestsExtend`) | `ViewInv`. `SentFits`: the last request is what the log gives up to its end, and nothing was taken out or put before it since. `HookFits`: between hooks and request nothing changes what notes are in view. `BlockFits`: after the last summary there is a block with the last prompt before it, unless a hook was cut off. `CoverFits`: what was said before the last summary is in a summary's range. `RemindFits`: a reminder owed is in the log, with the hooks, queued, or lost with a mishap. `WholeFits`: what the request shows stays so while the log grows |

`Repetition` and `RepeatWatch` (`CirclesAreCaught`) are model-checked only.

## The daemon around the loop

Run `service`, module `MC_Service`.

| Part | How it corresponds to the code |
|---|---|
| `Notifier` in `Requests` | `queue` is `in`, `turnStart` the notifier's map; `req`, `asker`, `channel` are `pendingRequest.state`, the goroutine in `ask`, and `p.answer`; `sending` is between winning and the send. `daemon` is where `Shutdown` and the next start are: `StopNotify` ends the notifier's context first, `NotifierRestart` is the daemon gone (stopped or crashed) and started, `RecoverInterrupted` pauses what was running with the notifier at work already, `Serve` ends the start. `orphans` (not in the code) are the questions a phone still shows whose end went with a daemon |
| `Archive` | the three tables: `file` (the directory), `open` with `loads` (`Store.open`), `rt` (`Manager.rt`); `made` are the handles ever made, `holds` who stands under which handle's lock, `loops` who works |
| `DaemonStart` | `pidFile`, `portFile`, `port`, and where each daemon (`claimPID`, `Run`, `releasePID`) and each command (`EnsureRunning`) is |
| `Memory` | a memory is the set of facts its body holds; `curator` is a session's pass, one action per tool call it makes; `told` its cursor |
| `Stats` | `Of`, `Tree`, `Totals`, `Usage`, `Calls` as operators over logs of events at times; `reading` is `allLogs` on its way |

| Property | What it says |
|---|---|
| `PhonesAreTold` | an end of a turn worth a notice is notified, the pause of a recovery among them; and every request a phone shows is waited for, or its end is in the queue; but for items a full queue dropped, what was queued when a daemon went, and the requests it left on the phones |
| `ShownExactlyOnce` | a connection subscribed while a request is open has been sent it once, by broadcast or by subscribe |
| `AskersAreServed` | `Requests` implements `Asker`: a request settles once, on the first answer or on nobody |
| `ArchiveIsSound` | a session never has two loops over all handles ever made of it; a restore brings back what went with the session |
| `OneDaemonWrites` | one daemon at a time pauses, serves or puts away the root's sessions, and its files go when it goes; but for the race in which one overwrites the other's pid file (`robbed`) |
| `MemoryIsKept` | consolidation loses no fact, whatever is refused and wherever the daemon dies, and the in-progress memory says what a task list says |
| `StatsAddUp` | a tree counts a session once; periods, kinds and days add up; every turn logged before the question is in the answer unless a session was restored meanwhile |
| `ServiceTypeOK` | the type invariants of the parts |

*Bounds.* Two clients, alike, and one question; a queue of two and one restart. The
requests are taken twice (`part`): with both clients and one state change of a session
(`RequestsGoOn`), and with one client and one list of devices over two state changes, which
are a turn's start and its end or the pause of a recovery (`NoticesGoOn`). A session with a
child, three operations by two calls and a crash; three commands, three daemons, one kill
and one stop; two sessions that consolidate a store one over its cap; logs that mix every
kind of event over two days. `Waits` is empty: a question that waits for a client to attach was
checked alone. Once a fault that `MemoryIsKept` excuses has happened the memories are left
(`MemoryGoesOn`), for it says nothing from then on.

### What is proved

`Service_proofs`, first `Requests` with `Notifier`, for any clients, questions, sessions and
size of queue, from `RequestsAssumption` and `NotifierAssumption`: `RequestsTypeCorrect`,
`ShownOnce` (`ShownExactlyOnce`), `AskersServed` (the refinement of `Asker`, step by step)
and `PhonesTold` (`PhonesAreTold`).

- `ShownInv`: a connection that is not subscribed has been sent nothing since.
- `AskInv`: an open request has an asker that waits and no winner, and what is in its
  channel or on the way there is from the winner. The step by which an asker settles maps to
  `Asker`'s only because of it.
- `TellInv`: no start of a turn that the notifier knows, or will learn from its queue, is
  later than that turn's (`StartsFit`); what is owed and waits in the queue will be worth a
  notice when its turn comes, whatever is decided before it (`DueFits`); and an end owed, or
  the close of a request a phone shows, is in the queue, heard, counted as lost, taken along
  by a daemon that went, or still to be said (`EndsFit`, `ClosesFit`). A restart empties the
  queue and forgets every start of a turn, so that a turn it cut off counts as long.

`NotificationsEnd`, that no notification outlives its question, is what the excuse for
`orphans` leaves out; the code does not keep it (see "Observed, and not a run").

A restart abandons, in one step, any of the askers that have asked: `Asker`'s `Abandon` is
about a set of them, which only the instances with three questions tell from one at a time.

`DaemonStart`, for any number of daemons, commands, kills and stops, from
`StartAssumption`: `StartTypeCorrect` and `OneDaemonWritesAlways` (`OneDaemonWrites`). By
`StartInv` a daemon that a file names has not left by itself, whoever has claimed the root
owns the pid file unless robbed, and whoever recovers or serves owns the port file too: two
daemons between claim and release would both be the one the pid file names.

`Memory`, for any users, names, facts and caps, from `MemoryAssumption`:
`MemoryTypeCorrect` and `MemoryIsKeptAlways` (`MemoryIsKept`). `MemoryInv` has two parts on
each consolidation. `Knows`: a pass that plans has in hand the directory as it is, unless
another has overlapped it or it was sent to the wrong store. `PassFits`: what it has yet to
absorb is already in the survivor (`Absorbed`), and some memory stays out of all that it
gives up (`Survivor`), so a death at any point loses nothing and no plan empties a store.

`Archive`, for any finite family tree, calls, operations and crashes, from
`ArchiveAssumption`: `ArchiveTypeCorrect` and `ArchiveIsAlwaysSound` (`ArchiveIsSound`).
`ArcInv` has the types with `CallsFit` (at which places a call of each kind can be, and that
its handle was made); `LoopFits` (a session has one loop over all its handles, the session
with a loop is running, a session forgotten is not); `AloneFits` (a restore that counts as
alone has no call beside it that archives); and `RestoreFits`: whatever went with the
session and is still away is on the restore's own list of what to bring back, from the
listing of the family to its end.

`Stats` is model-checked only.

## The clients

Run `clients`, module `MC_Clients`; `run_wedged` and `wrong_transcript` use two of its
modules alone.

| Part | How it corresponds to the code |
|---|---|
| `Goals` | `goal` is the `Goal` record as saved; `starting` how far the start of a run has got; a run is its end as the goal sees it, `RunWorkflow` being its own workflow |
| `RunCrash` | `mem` and `disk` are the run in memory and as saved, `at` the place in `advance`; `sess`, `files`, `github` the world its effects change; `RunCrash` takes each effect and each save of `RunWorkflow`'s single step apart, on the way from work to merge |
| `Watcher` | `w` is the saved state, `poll` where a poll is; an effect that is `lost` has happened on GitHub or at the daemon, and its record has not |
| `Phone` | `outbox` rows, `drain` each coroutine, `prompts` the calls at the daemon with their look and their append apart; `mirror`, `link`, `fetch` are the copy, the socket and the catch-up; `refresh` is each coroutine that asks for the list of sessions (`refreshSessions` every 15 seconds, `recordSessions` on connecting), which deletes the session's row (`ForgetUnlisted`) or reads it and writes it back (`ReadRow`, `UpsertRow`) with no lock |
| `Terminal` | `wire` is `connectLoop` and `attach`, `screen` the model, `actions` the channel between them, `stray` the goroutines of ended connections; `RestoreFails` is a restore the daemon refuses, under a screen that was reset for it |

| Property | What it says |
|---|---|
| `GoalIsWhole` | a brief names a saved run and no two name one; a round is left with none open; one run goes at a time, but for crashes and reruns |
| `GoalStopsInTime` | rounds, failures and skips stay within what the owner allowed |
| `NothingIsDoneTwice` | no try of a step has two sessions at work, a branch has one pull request, and done means merged |
| `SaidOnce` | one review of a head, one answer to a comment, one run of an issue and each change of it, but for effects lost track of; and handled means answered |
| `PhoneIsSound` | a prompt shown as sent is in the log, once unless two calls overlapped, in the order typed (`PromptsAreKept`); and `MirrorIsWhole` |
| its part `MirrorIsWhole` | the phone's copy is the beginning of the log with nothing missing, its cursor is not past its end, whatever row a refresh writes back, and a phone that is synced with nothing on its way has the whole log; but for a catch-up that failed with pushes behind it or to come (`torn`) and a list older than the session that deleted the copy (`forgotten`) |
| `ScreenIsWhole` | once all is delivered, the screen shows the chosen session, each event once and in order, and every open request of it |
| `ClientsTypeOK` | the type invariants of the parts |

`RunConcludes` (run `run_wedged`, violated without a crash): under weak fairness of the
runner and of the sessions' turns (the runner polls for as long as it lives, a turn ends),
a run ends. `TranscriptIsOwn` (run `wrong_transcript`): what the screen shows is its
session's.

*Bounds.* One crash, lost answer or broken connection in each part, since the record a
second would meet is one the first can leave. Two rounds, two briefs and three homes are a
goal that goes on, starts again and gives up; two tries tell a retry from the last one; two
drainers and two prompts are what can overtake. The phone is taken twice (`part`): its
outbox, on a session nobody else uses and without the list (`PromptsGoOn`); and its mirror,
with two more events, two refreshers, two broken connections or failed catch-ups, and
nothing typed (`MirrorGoesOn`), since a prompt reaches the mirror as an event like any
other. Two sessions, two events and two actions are what the screen can mix up. The terminal
is left once something `ScreenIsWhole` excuses has happened (`TerminalGoesOn`).

### What is proved

`Goals_proofs`, for any caps, briefs, crashes and reruns, from `GoalCapsAssumption`:
`GoalTypeCorrect`, `GoalWhole` (`GoalIsWhole`) and `GoalStops` (`GoalStopsInTime`). The
invariant `GoalsInv` has one part for the goal by itself (`GoalFits`), one for its briefs
(one at most is running, the next of the round there is), one for the link to the saved runs
(`RunsFit`: a brief names a saved run, and a run is started for the next brief only), one
for what the bounds compare (`SeenFits`), and `GoingsFit`, which accounts for the runs that
go: the next brief's, those whose name a crash lost, one crash each, and those the owner
asked for again.

`RunCrash_proofs`, for any tasks, tries, caps and crashes, from `RunCrashAssumption`:
`RunCrashTypeCorrect` and `DoneOnce` (`NothingIsDoneTwice`). A crash puts the saved run in
the place of the one in memory, so `CrashInv` says `RunFits` of both; `AtFits` says at which
places the two agree; `SessFits`, that the one session at work is the one both name; and
`TriesFit` counts sessions that were prompted against tries, one less while the run in memory
or on disk has a try whose session nobody prompted.

`Clients_proofs` has the three clients.

`Watcher`, for any comments, heads, sessions and lost records, from `WatcherAssumption`:
`WatcherTypeCorrect` and `SaidOnceAlways` (`SaidOnce`). `WInv` says what each of the two
jobs has reached (`JobsFit`: posted only if pushed, pushed only if stopped), and counts:
reviews of a head, answers to a comment and runs of an issue are at most one that the saved
state knows of, and one for each record that was lost (`ReviewsFit`, `CommentsFit`,
`IssueFits`).

`Phone`, for any drainers, prompts, events of others and buffer, from `PhoneAssumption`:
`PhoneTypeCorrect`, `PhoneAlwaysSound` (`PhoneIsSound`) and `MirrorAlwaysWhole`
(`MirrorIsWhole`), with any refreshers too. `OutboxInv`: what a row says of
itself the log bears out (`RowsTell`); a drainer, and a call at the daemon, has in hand
nothing that an earlier row is still owed before (`DrainsInOrder`, `CallsInOrder`); a call's
look at the log, apart from its append, stays true unless two calls overlap
(`OneCallAtOnce`). `MirrorInv`: there is an `n` such that the mirror is the first `n` events,
what the catch-up and the socket still bring goes on from there without a gap, and a row
that was read and is to be written back has a cursor within it: an old cursor only makes
the phone ask again for events it has.

`Terminal`, for any sessions, events, prompts and actions, from `TerminalAssumption`:
`TerminalTypeCorrect` and `ScreenIsAlwaysWhole` (`ScreenIsWhole`). `TermInv`: what a
connection has queued is in order and complete past what was fetched, then past the cursor
(`WireFits`); and the screen shows exactly what the connection has handed over, with the
open requests (`Shows`, `Waits`), or the person has chosen another session and nothing of it
is on the screen yet (`ScreenFits`).

## Where the documents and the code disagree

Each is a run that must find a violation; `PROJECT.json` quotes the text.

| Run, property | What happens |
|---|---|
| `lost_prompt`, `PromptAnswered` | a prompt that arrives after the loop has recorded `idle`, or while its last stop gate runs, and before `rs.running` is cleared, starts no loop: no request carries it until the next prompt |
| `deaf_subscriber`, `NobodyIsDeaf` | a subscribe looks a session up, the session is archived and restored, and the subscribe starts its fan-out on the closed `Session` object: everyone who joins it hears nothing |
| `run_wedged`, `RunConcludes` | a fix session leaves `verify-revision.md` uncommitted; `git rm` refuses it after Claude has answered, no try is counted, and the run is at `revise` at every poll. A crash between that commit and the save does the same |
| `wrong_transcript`, `TranscriptIsOwn` | the person picks another session; what the connection still sends of the first lands in the transcript of the second |

## Observed, and not a run

Met while modelling. Where a definition is named, no configuration has it as a property:
naming it in the configuration in brackets, in place of its properties, shows the trace.

*Against what a text says.* Six more disagreements, each a definition that the code breaks:

- `ChecksWhatItPushes` (`run_workflow`): a work or fix session that goes idle leaves a file
  it did not commit; `verify.sh` passes with it there (runner.go:1194), and the push
  (runner.go:1286, 1328) takes the commits without it. The code removes such files for a fix
  that ended blocked, where runner.go:721 says why: "the check would otherwise judge files
  the pull request never gets".
- `WorkHasATask` (`run_workflow`): a work session ticks the last box and asks for a re-plan;
  the refusal sends the run back to work, where no prompt can be made (runner.go:545), at
  every poll. The orchestrated-runs design says of work "One session per unchecked task."
- `MissedIsCaught` (`turn`): the agent and somebody else change one file before a request:
  it is left out, and the snapshot of that moment is what the next request compares with, so
  that it is never named. watch.go:241 says "it is caught on the following turn".
- `RequestsOnlyGrow` (`turn`): a request ends with the objections of a stop gate
  (assemble.go:117), and the next has the assistant's reply in their place. assemble.go:87
  has each request be the one before it plus what was logged since.
- `NotificationsEnd` (`service`): a stop ends the notifier (daemon.go:445) before the requests
  are given up, and the phones keep the question. requests.go:148 says "Closed however the
  wait ends, so the notification never outlives it."
- `NoEventGoesAhead` (`clients`): a list made before the session was deletes its mirror after
  the catch-up (SessionRepository.kt:57), and the next push becomes the mirror's first row.
  The comment on the lock (SessionRepository.kt:39) has one writer per session.

*Session.* `EndedStaysEnded` (`session_loop`): a stop completes the session
between a prompt's check of the state and its `ensureRunning` (manager.go:573).
`NoTurnUnderSummary` (`session_loop`): an interrupt that found no loop records `idle` under a loop started
since, and `Compact` accepts (manager.go:660). In `Archive`: a handle taken while
`archiveOne` is between forgetting the runtime and moving the log (manager.go:1002) keeps a
closed `Session` object and refuses appends until a restart; one torn log makes every
archive fail; restoring a session that is not archived appends a notice; a family archived
in part leaves grandchildren out of reach, and a refused archive may have archived part
(spec 7.19).

*Turn.* `Verify`: a veto about an old message counts as the new message's reminder; a goal
set during a stop in flight leaves the session idle with the goal active; a resume takes a
new baseline and a restart forgets it; a gate hook that fails lets the stop through; a
`done` sent again without its check carries the old one over and runs none. `Guard`:
`guard:no-push` is looked at for `bash` only, while `wait` runs a shell too. `StuckAsk`: an
answer is logged in the new stretch when the person speaks between the hook's look and the
log; a daemon that dies between a summary and the kept block loses it until the next
summary. `WorkspaceWatch`: what a failing scan misses is never reported; a person's edit while a shell command
runs is taken for the agent's. `ModelView`: the blocks of `SessionStart` are logged after the
session can be prompted, so that an early prompt changes the prefix once; a `skill.load`
that failed counts as loaded; a reminder is lost at a pause. `ModelCall`: a stream that ends
without `[DONE]` counts as complete, and a call whose arguments never came runs with `{}`.

*Daemon.* `NoCommandGivesUp` (`service`): two commands start two daemons, and the loser's
`releasePID` removes the winner's files; a command may also dial before the bind after a
stale port file. `NeverSilentlyShort` (`service`): `allLogs` misses a session restored between its
two reads, and counts one archived between them twice in `Totals`; `Usage` leaves out the
last day when the last event is earlier in its day than the first. `Memory`: two sessions
that consolidate at once lose both halves; `memory.forget` looks in the workspace first, so
that consolidating the owner's memories may delete a workspace memory of the same name; one
session's finished list clears another's in-progress memory. `Requests`: a late answer
resumes a session that a budget paused meanwhile; an answer that won may lose to the timer
in `ask`'s `select`.

*Clients.* `DoneIsReviewed` (`run_workflow`): a run planned again after its PR is open
reaches `done` without a final review of the new work. A request file committed by a stopped session
is judged as a later session's claim; a verify-revision.md that a session committed beside a
re-plan request waits in the branch for the next fix. `Goals`: nothing caps
the circle check, pr, failing CI; a skip survives a block at the check; after a crash two
runs may go. `Watcher`: a crash or a lost answer between post and save posts twice, where
watcher.go:486 has it otherwise; an issue may be handed over twice. `Phone`: two calls with
one `client_id` that overlap record the prompt twice; a catch-up cut off with a push waiting
leaves a hole in the mirror, and so does a push after one that failed with the subscription
standing. `Terminal`: a restore that fails leaves the connection on the session before, under
a screen reset for the other (`unrestored`); picking the session already attached leaves its
transcript empty (`rejoined`); an action taken by a goroutine of a dead connection is lost
(`robbed`), where tui.go:56 has it not dropped; a prompt answered elsewhere stays on the
screen.

## What is only model-checked, and what is not modelled

- Proved: the safety of every component a run checks but three, and the refinements of
  `Mirror` and `Asker`. Model-checked only: `Repetition`, `RepeatWatch` and `Stats`, which
  compute by recursion over a log or a stream (the prover has no induction for that);
  and the conjunctions `TurnTypeOK`, `ServiceTypeOK` and `ClientsTypeOK` of `MC_*`, of whose
  parts the proofs have the others. Liveness (`CallsReturn`, `CatchesUp`, `RunEnds`,
  `RunConcludes`) is checked on the instances above: fairness and `ENABLED` are beyond the
  prover.
- A proof is about a component's own specification. The modules that put components
  together (`MC_*`) choose one of them at the start, so each theorem holds of its part there.
- What other processes do (the model endpoint, the `claude` command, GitHub, git, the
  tools) is an outcome chosen freely.
- Data is abstracted to what control depends on: there are no texts and no token counts, and
  time only where a decision compares it.
- Not modelled: modules that keep no state (answer, artifact, ask, report, vcs, web), the
  tools themselves, the transport, pairing and read-only methods of the API, git history of
  memories and search in them, prompts, status and reflection texts of runs, rendering,
  user interfaces, command lines, configuration and benchmarks. They are I/O, wording or
  parsing: no step of theirs meets another's.
- Taken as one step, where the code has more: `Goals.Saved` is `saveGoal` with the labels
  that follow it (goalrunner.go:181-184; a crash between the two is made good at the next
  poll), `Verify.StopDecide` the reads `BeforeStop` makes one after the other
  (verify.go:258-298), so that a change of the tree between two of them is not seen, and
  `Phone.Apply` the rows and the cursor, which a deletion of the session's row in between
  would make fail.
- `Verify` leaves out `Interrupt` (manager.go:649) and `ClearGoal` (manager.go:410): the one
  ends a turn as a pause does, the other takes away what its properties are about.
  `Notifier` leaves out an append that fails in a recovery, and a push the service refuses,
  which is logged and not tried again.
- Excused, and so not shown: an id a full file system or a failed append takes
  (`CallsAreSound`), a handle that stays closed after an archive (`ArchiveIsSound` is about
  loops and families), an action a dead connection takes (`ScreenIsWhole`), a restore during
  a read (`StatsAddUp`), overlapping consolidations (`MemoryIsKept`), a brief worked twice
  after a crash (`GoalIsWhole` counts the runs, it does not forbid the second), blockers
  appended twice to the task file by a crash in `final-review` (`NothingIsDoneTwice`).
- Modelled in part: the components `PROJECT.json` lists as partly, with what each leaves out.

## Plan

In this order:

1. The state machine of `protocol/spec.md` as an abstract specification that `SessionLoop`
   implements but for `EndedStaysEnded`.
2. The composition of `Archive` with `SessionLoop`'s calls: handles of closed logs under every operation.
3. `RunCrash` over the planning steps, and an abstract run (asked, working, done, failed)
   that `RunWorkflow` and `RunCrash` both implement.
