----------------------------- MODULE ModelView ----------------------------
(* What the model is sent: the request assembled from the log (protocol's  *)
(* Assemble), the blocks modules put in it at the start, before a request  *)
(* and after a summary (notes, skills, clock, prompt, memory's index), and *)
(* the two kinds of compaction that take things out of it.  The notes are  *)
(* files that other sessions of the workspace write and sweep meanwhile.   *)
EXTENDS Naturals, Sequences, FiniteSets, SequencesExt, FiniteSetsExt, Ordered

CONSTANTS
  KeepTurns,  \* CompactionConfig.KeepTurns
  MaxView,    \* bound on the log
  MaxSaid,    \* bound on the prompts
  MaxNotes,   \* bound on the versions of the note
  MaxMishaps  \* bound on the restarts and the hooks cut off

ASSUME ViewAssumption ==
  KeepTurns \in Nat /\ MaxView \in Nat /\ MaxSaid \in Nat /\ MaxNotes \in Nat /\ MaxMishaps \in Nat

VARIABLES
  events,   \* the session's log after its first event: [k, notes, mods, lo, hi]
  at,       \* where the session's loop, or its compaction, is
  begun,    \* whether Create has logged the blocks of SessionStart
  note,     \* the note's file: 0 for none, its version, or Torn while it is written
  pending,  \* reminders.pending of the session, one skill's
  hooked,   \* what BeforeRequest's hooks returned, not yet logged
  range,    \* the range of the summary being written
  sent,     \* history: the last request since a compaction
  others,   \* another session of the workspace: whether it writes the note; the versions written
  mishaps   \* history: their number; whether one left out a block, or a reminder

viewVars == <<events, at, begun, note, pending, hooked, range, sent, others, mishaps>>

Torn == MaxNotes + 1
Notes == 0 .. Torn

Entry(k) == [k |-> k, notes |-> 0, mods |-> {}, lo |-> 0, hi |-> 0]
Replies == {"reply", "touch", "load", "write"} \* a reply, in the last three with a call and its result
Touches == {"touch", "more"}                   \* "more": another call of the same reply
LogResults == {"touch", "load", "write", "more"}
Spoken == {"prompt", "reply"} \cup LogResults
Where(l, ks) == {i \in DOMAIN l : l[i].k \in ks}
LastOf(is) == Max(is \cup {0})

(* The request: the prefix blocks since the last summary, the summary, and *)
(* the conversation since, results in a cleared range stubbed.             *)
IsCleared(l, i) == \E c \in Where(l, {"clear"}) : l[c].lo <= i /\ i <= l[c].hi /\ l[i].k \in LogResults
InTurn(l, s) == {i \in DOMAIN l : i > s /\ l[i].k \in Spoken \cup {"notes", "reminder"}}
Since(l) ==
  LET is == InOrder(InTurn(l, LastOf(Where(l, {"summary"}))))
  IN  [p \in DOMAIN is |-> [i |-> is[p], stub |-> IsCleared(l, is[p])]]

(* Mutant: suffix blocks come last, wherever they were logged.             *)
SuffixLast(l) ==
  LET suffix(p) == l[p.i].k \in {"notes", "reminder"}
      other(p) == ~suffix(p)
  IN  SelectSeq(Since(l), other) \o SelectSeq(Since(l), suffix)

Conversation(l) == Since(l)

(* The stop gates' objections that no reply has followed: they end the     *)
(* request, as one message.                                                *)
OutstandingVetoes(l) == {i \in Where(l, {"veto"}) : \A j \in Where(l, Replies) : j < i}

Assembled(l) ==
  LET s == LastOf(Where(l, {"summary"}))
  IN  [prefix |-> {i \in Where(l, {"prefix"}) : i > s}, summary |-> s, body |-> Conversation(l),
       vetoes |-> OutstandingVetoes(l)]

NothingHooked == [notes |-> 0, shows |-> FALSE, reminders |-> 0]
NothingSent == [prefix |-> {}, summary |-> 0, body |-> <<>>, vetoes |-> {}, upto |-> 0, begun |-> FALSE]

---------------------------------------------------------------------------
ViewInit ==
  /\ events = <<>> /\ at = "top" /\ begun = FALSE
  /\ note = 0 /\ pending = 0 /\ hooked = NothingHooked
  /\ range = <<0, 0>> /\ sent = NothingSent
  /\ others = [writing |-> FALSE, wrote |-> 0]
  /\ mishaps = [n |-> 0, block |-> FALSE, reminder |-> FALSE]

AppendAll(es) == Len(events) + Len(es) <= MaxView /\ events' = events \o es
AppendOne(e) == AppendAll(<<e>>)

(* Create logs the blocks of SessionStart after the session is in the      *)
(* store, where a client finds it and may prompt it.                       *)
SessionStart ==
  /\ ~begun /\ begun' = TRUE
  /\ AppendOne([Entry("prefix") EXCEPT !.mods = {"skills", "clock", "memory"}])
  /\ UNCHANGED <<at, note, pending, hooked, range, sent, others, mishaps>>

(* A prompt waits while a summary is written (compactMu).                  *)
PromptWithID ==
  /\ at \notin {"summarising", "summarised"} /\ Cardinality(Where(events, {"prompt"})) < MaxSaid
  /\ AppendOne(Entry("prompt"))
  /\ UNCHANGED <<at, begun, note, pending, hooked, range, sent, others, mishaps>>

(* Mutant: a block from before the summary still counts as seen.           *)
InViewAll(l) == LastOf(Where(l, {"notes"}))

(* The last notes block since the last summary, if there is one.           *)
InView(l) == LET i == LastOf(Where(l, {"notes"})) IN IF i > LastOf(Where(l, {"summary"})) THEN i ELSE 0

(* The hooks before a request: the notes, if they differ from the block in *)
(* view (no notes is said only to replace one), and the skills' reminders. *)
BeforeRequest ==
  /\ at = "top" /\ Where(events, {"prompt"}) # {} /\ at' = "hooked"
  /\ LET v == InView(events)
     IN  hooked' = [notes |-> note, reminders |-> pending,
                    shows |-> IF v = 0 THEN note # 0 ELSE events[v].notes # note]
  /\ pending' = 0
  /\ UNCHANGED <<events, begun, note, range, sent, others, mishaps>>

(* The blocks are logged and the request is assembled from the log.        *)
Request ==
  /\ at = "hooked" /\ at' = "model"
  /\ AppendAll((IF hooked.shows THEN <<[Entry("notes") EXCEPT !.notes = hooked.notes]>> ELSE <<>>)
               \o [i \in 1 .. hooked.reminders |-> Entry("reminder")])
  /\ sent' = LET a == Assembled(events')
             IN  [prefix |-> a.prefix, summary |-> a.summary, body |-> a.body, vetoes |-> a.vetoes,
                  upto |-> Len(events'), begun |-> begun]
  /\ UNCHANGED <<begun, note, pending, hooked, range, others, mishaps>>

(* The model's call fails, or the turn is interrupted: no reply.           *)
NoReply ==
  /\ at = "model" /\ at' = "top" /\ hooked' = NothingHooked
  /\ UNCHANGED <<events, begun, note, pending, range, sent, others, mishaps>>

(* A call touches files the skill covers: a reminder is queued, unless the *)
(* log has one, or a load of the skill, or one is queued.                  *)
Settled(l) == Where(l, {"load", "reminder"}) # {}
(* Mutant: a reminder already queued is queued again.                      *)
ToolResultAgain ==
  /\ pending' = IF Settled(events) THEN pending ELSE pending + 1
  /\ mishaps' = [mishaps EXCEPT !.reminder = FALSE]

ToolResult ==
  /\ pending' = IF Settled(events) \/ pending > 0 THEN pending ELSE pending + 1
  /\ mishaps' = [mishaps EXCEPT !.reminder = FALSE]
Touch ==
  /\ at = "calls" /\ OutstandingVetoes(events) = {}
  /\ AppendOne(Entry("more")) /\ ToolResult
  /\ UNCHANGED <<at, begun, note, hooked, range, sent, others>>

(* The model's own notes.write and notes.delete.                           *)
OwnNote ==
  \/ others.wrote < MaxNotes /\ note' = others.wrote + 1 /\ others' = [others EXCEPT !.wrote = @ + 1]
  \/ note # 0 /\ note' = 0 /\ UNCHANGED others

(* The reply, and its first call: skill.load counts as loading, whatever   *)
(* came of it.                                                             *)
ModelReply ==
  /\ at = "model" /\ at' = "calls" /\ hooked' = NothingHooked
  /\ \E k \in Replies :
       /\ AppendOne(Entry(k))
       /\ IF k = "touch" THEN ToolResult ELSE UNCHANGED <<pending, mishaps>>
       /\ IF k = "write" THEN OwnNote ELSE UNCHANGED <<note, others>>
  /\ UNCHANGED <<begun, range, sent>>

(* A stop gate objects to a reply without calls: the session takes another *)
(* turn, or is blocked until it is prompted.                               *)
StopVetoed ==
  /\ at = "calls" /\ OutstandingVetoes(events) = {}
  /\ LET r == LastOf(Where(events, Replies))
     IN  events[r].k = "reply" /\ \A i \in Where(events, LogResults) : i < r
  /\ AppendOne(Entry("veto"))
  /\ UNCHANGED <<at, begun, note, pending, hooked, range, sent, others, mishaps>>

(* maybeCompact after the turn: nothing, stage 0, or stage 1.              *)
TurnDone ==
  /\ at = "calls" /\ at' = "top"
  /\ UNCHANGED <<events, begun, note, pending, hooked, range, sent, others, mishaps>>

(* Stage 0: the results before the last KeepTurns replies, from the first  *)
(* to the last that is not cleared already.                                *)
KeepFrom(l) ==
  Max({i \in Where(l, Replies) : Cardinality({j \in Where(l, Replies) : j >= i}) >= KeepTurns} \cup {0})
Clearing(l) ==
  LET old == {i \in Where(l, LogResults) : i < KeepFrom(l) /\ ~IsCleared(l, i)}
  IN  IF old = {} THEN <<>> ELSE <<[Entry("clear") EXCEPT !.lo = Min(old), !.hi = Max(old)]>>
ClearResults ==
  /\ at = "calls" /\ at' = "top" /\ AppendAll(Clearing(events))
  /\ sent' = IF events' = events THEN sent ELSE NothingSent
  /\ UNCHANGED <<begun, note, pending, hooked, range, others, mishaps>>

(* RangeEnd of the last summary.                                           *)
CompactedThrough(l) == LET s == LastOf(Where(l, {"summary"})) IN IF s = 0 THEN 0 ELSE l[s].hi

(* Mutant: the recent turns are left out of the range.                     *)
RangeKeeping(l) == <<CompactedThrough(l) + 1, IF KeepFrom(l) = 0 THEN Len(l) ELSE KeepFrom(l) - 1>>

(* Stage 1, between turns or asked for: all that no summary covers.        *)
RangeOf(l) == <<CompactedThrough(l) + 1, Len(l)>>
BeginSummary ==
  /\ at = "top" /\ at' = "summarising"
  /\ Len(events) - CompactedThrough(events) >= 2
  /\ range' = RangeOf(events)
  /\ UNCHANGED <<events, begun, note, pending, hooked, sent, others, mishaps>>

(* What modules' own calls log meanwhile (memory's curator saves what it    *)
(* learned) is behind the range and left out here, as it is of requests.   *)
SummaryWritten ==
  /\ at = "summarising" /\ at' = "summarised"
  /\ AppendOne([Entry("summary") EXCEPT !.lo = range[1], !.hi = range[2]]) /\ range' = <<0, 0>> /\ sent' = NothingSent
  /\ UNCHANGED <<begun, note, pending, hooked, others, mishaps>>
SummaryFails ==
  /\ at = "summarising" /\ at' = "top"
  /\ events' \in {events, events \o Clearing(events)} /\ Len(events') <= MaxView
  /\ range' = <<0, 0>> /\ sent' = IF events' = events THEN sent ELSE NothingSent
  /\ UNCHANGED <<begun, note, pending, hooked, others, mishaps>>

(* The prefix blocks go back, the person's latest prompt with them; a hook *)
(* may be cut off.                                                         *)
AfterCompaction ==
  /\ at = "summarised" /\ at' = "top"
  /\ \E cut \in {{}, {"prompt"}} :
       /\ cut # {} => mishaps.n < MaxMishaps
       /\ AppendOne([Entry("prefix") EXCEPT !.mods = {"skills", "clock", "memory", "prompt"} \ cut,
                                            !.hi = LastOf(Where(events, {"prompt"}))])
       /\ mishaps' = [mishaps EXCEPT !.n = IF cut = {} THEN @ ELSE @ + 1, !.block = cut # {}]
  /\ UNCHANGED <<begun, note, pending, hooked, range, sent, others>>

---------------------------------------------------------------------------
(* Another session of the workspace writes the note: the file is emptied   *)
(* and then written.                                                       *)
OtherWrites ==
  /\ ~others.writing /\ others.wrote < MaxNotes
  /\ note' = Torn /\ others' = [writing |-> TRUE, wrote |-> others.wrote + 1]
  /\ UNCHANGED <<events, at, begun, pending, hooked, range, sent, mishaps>>
OtherWrote ==
  /\ others.writing
  /\ note' = (IF note = Torn THEN others.wrote ELSE note) /\ others' = [others EXCEPT !.writing = FALSE]
  /\ UNCHANGED <<events, at, begun, pending, hooked, range, sent, mishaps>>

(* It deletes the note, or sweeps it as old: the sweep removes what it has *)
(* found old whatever the file holds by then.                              *)
OtherRemoves ==
  /\ note # 0 /\ note' = 0
  /\ UNCHANGED <<events, at, begun, pending, hooked, range, sent, others, mishaps>>

(* The session is stopped or paused: its reminder is dropped (SessionEnd). *)
DropReminder ==
  /\ at = "top" /\ pending > 0 /\ pending' = 0
  /\ mishaps' = [mishaps EXCEPT !.reminder = TRUE]
  /\ UNCHANGED <<events, at, begun, note, hooked, range, sent, others>>

(* The daemon dies: the log and the files stay, as they are.               *)
DaemonRestarts ==
  /\ mishaps.n < MaxMishaps
  /\ at' = "top" /\ pending' = 0 /\ begun' = TRUE /\ hooked' = NothingHooked /\ range' = <<0, 0>>
  /\ others' = [others EXCEPT !.writing = FALSE]
  /\ mishaps' = [n |-> mishaps.n + 1, block |-> mishaps.block \/ at = "summarised",
                 reminder |-> mishaps.reminder \/ pending > 0 \/ (at = "hooked" /\ hooked.reminders > 0)]
  /\ UNCHANGED <<events, note, sent>>

ViewNext ==
  \/ SessionStart \/ PromptWithID \/ BeforeRequest \/ Request \/ NoReply \/ ModelReply \/ Touch
  \/ StopVetoed \/ TurnDone \/ ClearResults \/ BeginSummary \/ SummaryWritten
  \/ SummaryFails \/ AfterCompaction \/ OtherWrites \/ OtherWrote \/ OtherRemoves
  \/ DropReminder \/ DaemonRestarts

ViewSpec == ViewInit /\ [][ViewNext]_viewVars

---------------------------------------------------------------------------
ViewTypeOK ==
  /\ Len(events) \in 0 .. MaxView
  /\ at \in {"top", "hooked", "model", "calls", "summarising", "summarised"}
  /\ note \in Notes /\ pending \in 0 .. 1 /\ begun \in BOOLEAN
  /\ others.wrote \in 0 .. MaxNotes /\ mishaps.n \in 0 .. MaxMishaps

(* The notes in the request are the notes on disk when its hooks ran.      *)
NotesAreCurrent ==
  LET shown == {p \in DOMAIN sent.body : events[sent.body[p].i].k = "notes"}
  IN  hooked.notes = IF shown = {} THEN 0 ELSE events[sent.body[Max(shown)].i].notes

(* The person's latest prompt is in it word for word, also after a summary *)
(* (unless a crash or a cut-off hook left the block out).                  *)
PromptIsKept ==
  LET p == LastOf({i \in Where(events, {"prompt"}) : i <= sent.upto})
  IN  \/ \E x \in DOMAIN sent.body : sent.body[x].i = p
      \/ \E i \in sent.prefix : "prompt" \in events[i].mods /\ events[i].hi = p
      \/ mishaps.block

(* A skill whose files were touched has been named, and once only.         *)
SkillIsNamed ==
  /\ Cardinality(Where(events, {"reminder"})) <= 1
  /\ Where(events, Touches) # {} => Settled(events) \/ mishaps.reminder

(* What was said and done is in the request or was before a summariser.    *)
NothingFallsOut ==
  \A i \in Where(events, Spoken) : i <= sent.upto =>
    \/ \E x \in DOMAIN sent.body : sent.body[x].i = i
    \/ \E s \in Where(events, {"summary"}) : events[s].lo <= i /\ i <= events[s].hi

(* Whatever other sessions write and whenever the history is compacted,    *)
(* each request shows the model what it ought to know.                     *)
ViewIsWhole == at = "model" => NotesAreCurrent /\ PromptIsKept /\ SkillIsNamed /\ NothingFallsOut

(* Between two compactions each request is the one before it plus what was *)
(* logged since, so a provider's prompt cache holds: nothing before its    *)
(* end changes, once Create has logged its blocks.  Only the objections of *)
(* the stop gates, which end it, are not kept: they stand until a reply is *)
(* logged, and all of them are gone then.                                  *)
RequestsExtend ==
  [][sent' # sent /\ sent.begun /\ sent' # NothingSent
     => /\ sent'.prefix = sent.prefix /\ sent'.summary = sent.summary
        /\ IsPrefix(sent.body, sent'.body)
        /\ IF \E i \in Where(events, Replies) : i > sent.upto
           THEN sent'.vetoes \cap sent.vetoes = {}
           ELSE sent.vetoes \subseteq sent'.vetoes]_viewVars

(* assemble.go:87-90: a suffix context stays where it was appended, "so    *)
(* each request is the one before it plus what was logged since, and a     *)
(* provider's prompt cache can resume at its end".  One that ended with    *)
(* objections is not: the next has the reply, or a prompt, in their place. *)
Messages(st) ==
  st.body \o (IF st.vetoes = {} THEN <<>> ELSE <<[i |-> Min(st.vetoes), stub |-> FALSE]>>)
RequestsOnlyGrow ==
  [][sent' # sent /\ sent.begun /\ sent' # NothingSent => IsPrefix(Messages(sent), Messages(sent'))]_viewVars
=============================================================================
