------------------------------- MODULE Memory -----------------------------
(* The memory module: what sessions of one workspace save and forget in    *)
(* two directories (the owner's and the workspace's), the curator's pass   *)
(* at a compaction and at a session's end, the consolidation of an index   *)
(* over its cap, and the in-progress memory.  Every write is a tool call,  *)
(* which a gate may refuse, and nothing is locked between two of them.     *)
EXTENDS Naturals, Sequences, FiniteSets

CONSTANTS
  Users,      \* sessions of the workspace
  Named,      \* how many names memories have
  IndexCap,   \* maxIndexLines
  MaxMerges,  \* maxConsolidationPerPass
  MaxFacts,   \* bound on the facts learned
  MaxTold,    \* bound on the events of a session
  MaxPasses,  \* bound on the passes begun
  MaxDeaths   \* bound on the daemon's deaths

ASSUME MemoryAssumption ==
  /\ {Named, MaxMerges, MaxFacts, MaxTold, MaxPasses, MaxDeaths} \subseteq Nat
  /\ IndexCap \in 0 .. Named /\ IndexCap <= MaxFacts

VARIABLES
  memories, \* the two directories: the facts each name's body holds, {} for no file
  progress, \* the in-progress memory: "none", or "open" or "stray" for what it says
  curator,  \* each session's pass
  told,    \* each session's log, and its entry in Module.cursors
  facts,    \* history: how many were learned, which were given up on purpose
  faults    \* history: what nothing guards against; whether the store was emptied; counts

memoryVars == <<memories, progress, curator, told, facts, faults>>

Names == 1 .. Named
NoMemories == [n \in Names |-> {}]
Existing(own) == {n \in Names : own[n] # {}}
Held == UNION {memories[sc][n] : sc \in {"global", "ws"}, n \in Names}
NoPass == [at |-> "off", ends |-> FALSE, last |-> 0, own |-> NoMemories,
        merges |-> <<>>, absorbing |-> {}, forgets |-> {}, room |-> 0]

---------------------------------------------------------------------------
(* The owner's directory is full: a name more and it is over its cap.      *)
MemoryInit ==
  /\ memories = [global |-> [n \in Names |-> IF n <= IndexCap THEN {n} ELSE {}], ws |-> NoMemories]
  /\ progress = "none"
  /\ curator = [s \in Users |-> NoPass]
  /\ told = [s \in Users |-> [log |-> 0, cursor |-> 0]]
  /\ facts = [learned |-> IndexCap, retired |-> {}]
  /\ faults = [overlap |-> FALSE, wrongStore |-> FALSE, emptied |-> FALSE, deaths |-> 0, passes |-> 0]

(* A save replaces the file of that name; a forget removes it, looking in  *)
(* the workspace's directory first.  A plan another session is working     *)
(* from may be stale after either.                                         *)
Store(n, body, sc) == [memories EXCEPT ![sc][n] = body]
ForgottenIn(n) == IF memories.ws[n] # {} THEN "ws" ELSE "global"
Forgotten(n) == Store(n, {}, ForgottenIn(n))
Planning(s) == curator[s].at \in {"planning", "merging"}
Stale(s) == \E t \in Users \ {s} : Planning(t)

(* A new fact is saved; what the name said before is given up.             *)
Learn(s, n, sc) ==
  /\ facts.learned < MaxFacts
  /\ facts' = [learned |-> facts.learned + 1, retired |-> facts.retired \cup memories[sc][n]]
  /\ memories' = Store(n, {facts.learned + 1}, sc)
  /\ faults' = [faults EXCEPT !.overlap = @ \/ Stale(s)]

(* The session goes on; the model itself saves or forgets.                 *)
Hears(s) ==
  /\ curator[s].at = "off" /\ told[s].log < MaxTold
  /\ told' = [told EXCEPT ![s].log = @ + 1]
  /\ UNCHANGED <<memories, progress, curator, facts, faults>>
RunSave(s) ==
  /\ curator[s].at = "off"
  /\ \E n \in Names, sc \in {"global", "ws"} : Learn(s, n, sc)
  /\ UNCHANGED <<progress, curator, told>>
RunForget(s) ==
  /\ curator[s].at = "off"
  /\ \E n \in Names :
       /\ memories[ForgottenIn(n)][n] # {}
       /\ facts' = [facts EXCEPT !.retired = @ \cup memories[ForgottenIn(n)][n]]
       /\ memories' = Forgotten(n)
  /\ faults' = [faults EXCEPT !.overlap = @ \/ Stale(s)]
  /\ UNCHANGED <<progress, curator, told>>

---------------------------------------------------------------------------
(* A pass begins: before a compaction, or at the session's end, over what  *)
(* was said since the last one.  With nothing new there is none.           *)
After(c) == IF c.ends THEN [NoPass EXCEPT !.at = "progress", !.ends = TRUE] ELSE NoPass
Curate(s) ==
  /\ curator[s].at = "off" /\ faults.passes < MaxPasses
  /\ faults' = [faults EXCEPT !.passes = @ + 1]
  /\ \E ends \in BOOLEAN :
       LET c == [NoPass EXCEPT !.at = "asking", !.ends = ends, !.last = told[s].log]
       IN  /\ ends \/ told[s].log > told[s].cursor
           /\ curator' = [curator EXCEPT ![s] = IF told[s].log > told[s].cursor THEN c ELSE After(c)]
  /\ UNCHANGED <<memories, progress, told, facts>>

(* The model answers with a memory, or fails; the cursor moves either way. *)
(* What would be written over the in-progress memory is skipped.           *)
(* Mutant: nothing is skipped.                                            *)
SkipsNothing(n) == FALSE

SkipsProgress(n) == n = "progress"
PassAnswered(s) ==
  /\ curator[s].at = "asking"
  /\ told' = [told EXCEPT ![s].cursor = curator[s].last]
  /\ \/ \* no answer: the pass is over
        /\ curator' = [curator EXCEPT ![s] = After(@)]
        /\ UNCHANGED <<memories, progress, facts, faults>>
     \/ \* nothing to save, or the save is refused
        /\ curator' = [curator EXCEPT ![s].at = "looking"]
        /\ UNCHANGED <<memories, progress, facts, faults>>
     \/ /\ \E n \in Names, sc \in {"global", "ws"} : Learn(s, n, sc)
        /\ curator' = [curator EXCEPT ![s].at = "looking"]
        /\ UNCHANGED progress
     \/ /\ progress' = IF SkipsProgress("progress") THEN progress ELSE "stray"
        /\ curator' = [curator EXCEPT ![s].at = "looking"]
        /\ UNCHANGED <<memories, facts, faults>>

(* The index is over its cap, in the owner's directory: the model is asked *)
(* what to merge and what to forget.                                       *)
Consolidate(s) ==
  /\ curator[s].at = "looking"
  /\ curator' = [curator EXCEPT ![s] =
       IF Cardinality(Existing(memories.global)) > IndexCap
       THEN [@ EXCEPT !.at = "planning", !.own = memories.global] ELSE After(@)]
  /\ UNCHANGED <<memories, progress, told, facts, faults>>

(* A plan that would leave nothing is refused.  The names it gives up need *)
(* not exist, and a merge may absorb its own target.                       *)
MergePlans == [into : Names, absorb : SUBSET Names \ {{}}]
Plans == {p \in [merges : {<<>>} \cup {<<m>> : m \in MergePlans}, forgets : SUBSET Names] :
            p.merges # <<>> \/ p.forgets # {}}
Gone(p) == p.forgets \cup UNION {p.merges[i].absorb : i \in DOMAIN p.merges}

(* Mutant: what merges absorb is not counted.                              *)
WouldEmptyMore(p, own) == Cardinality(p.forgets) >= Cardinality(Existing(own))

WouldEmpty(p, own) == Cardinality(Gone(p)) >= Cardinality(Existing(own))
ParsePlan(s) ==
  /\ curator[s].at = "planning"
  /\ \/ curator' = [curator EXCEPT ![s] = After(@)]   \* no plan, an empty or a refused one
     \/ \E p \in Plans :
          /\ ~WouldEmpty(p, curator[s].own)
          /\ curator' = [curator EXCEPT ![s] =
               [@ EXCEPT !.at = "merging", !.merges = p.merges, !.forgets = p.forgets, !.room = MaxMerges]]
  /\ UNCHANGED <<memories, progress, told, facts, faults>>

(* A merge: the survivor is written, and only then what it absorbs goes.   *)
(* A target that is not there, or a refused save, leaves all as it is.     *)
Target(s) == Head(curator[s].merges)
Body(s) == UNION {curator[s].own[n] : n \in Target(s).absorb \cup {Target(s).into}}

(* Mutant: the survivor absorbs itself.                                    *)
AbsorbsAll(m) == m.absorb

Absorbs(m) == m.absorb \ {m.into}
WriteMerged(s) ==
  /\ curator[s].at = "merging" /\ curator[s].merges # <<>>
  /\ \/ /\ Target(s).into \in Existing(curator[s].own)
        /\ memories' = Store(Target(s).into, Body(s), "global")
        /\ curator' = [curator EXCEPT ![s] =
             [@ EXCEPT !.merges = <<>>, !.absorbing = Absorbs(Target(s)), !.own[Target(s).into] = Body(s)]]
        /\ faults' = [faults EXCEPT !.overlap = @ \/ Stale(s)]
     \/ /\ curator' = [curator EXCEPT ![s].merges = <<>>] /\ UNCHANGED <<memories, faults>>
  /\ UNCHANGED <<progress, told, facts>>

(* forgetIfPresent, for a name among those the pass began with; the call   *)
(* may be refused, and removes the workspace's memory if that has one.     *)
ForgetIfPresent(s, n) ==
  IF n \notin Existing(curator[s].own) \/ memories[ForgottenIn(n)][n] = {}
  THEN UNCHANGED <<memories, faults>>
  ELSE \/ UNCHANGED <<memories, faults>>
       \/ /\ memories' = Forgotten(n)
          /\ faults' = [faults EXCEPT
               !.overlap = @ \/ Stale(s), !.wrongStore = @ \/ ForgottenIn(n) = "ws",
               !.emptied = @ \/ (Existing(memories.global) # {} /\ Existing(memories'.global) = {})]
ForgetAbsorbed(s) ==
  /\ curator[s].at = "merging" /\ curator[s].merges = <<>> /\ curator[s].absorbing # {}
  /\ LET n == CHOOSE x \in curator[s].absorbing : TRUE
     IN  /\ ForgetIfPresent(s, n)
         /\ curator' = [curator EXCEPT ![s].absorbing = @ \ {n}, ![s].own[n] = IF memories' = memories THEN @ ELSE {}]
  /\ UNCHANGED <<progress, told, facts>>

(* Then what no longer holds goes, a few names at most.                    *)
ForgetNext(s) ==
  /\ curator[s].at = "merging" /\ curator[s].merges = <<>> /\ curator[s].absorbing = {}
  /\ IF curator[s].forgets = {} \/ curator[s].room = 0
     THEN /\ curator' = [curator EXCEPT ![s] = After(@)] /\ UNCHANGED <<memories, facts, faults>>
     ELSE LET n == CHOOSE x \in curator[s].forgets : TRUE
          IN  /\ ForgetIfPresent(s, n)
              /\ facts' = IF memories' = memories THEN facts
                          ELSE [facts EXCEPT !.retired = @ \cup memories[ForgottenIn(n)][n]]
              /\ curator' = [curator EXCEPT ![s].forgets = @ \ {n},
                                            ![s].own[n] = IF memories' = memories THEN @ ELSE {},
                                            ![s].room = IF memories' = memories THEN @ ELSE @ - 1]
  /\ UNCHANGED <<progress, told>>

(* At the session's end: what its task list leaves open is written, or the *)
(* memory of it cleared; a session without a list says nothing.            *)
RecordProgress(s) ==
  /\ curator[s].at = "progress"
  /\ progress' \in {progress, "open", "none"}
  /\ curator' = [curator EXCEPT ![s] = NoPass]
  /\ UNCHANGED <<memories, told, facts, faults>>

(* The daemon dies: the files stay, passes and cursors are gone.           *)
MemoryCrash ==
  /\ faults.deaths < MaxDeaths /\ faults' = [faults EXCEPT !.deaths = @ + 1]
  /\ curator' = [s \in Users |-> NoPass]
  /\ told' = [s \in Users |-> [told[s] EXCEPT !.cursor = 0]]
  /\ UNCHANGED <<memories, progress, facts>>

MemoryNext ==
  \/ \E s \in Users :
       \/ Hears(s) \/ RunSave(s) \/ RunForget(s) \/ Curate(s) \/ PassAnswered(s) \/ Consolidate(s)
       \/ ParsePlan(s) \/ WriteMerged(s) \/ ForgetAbsorbed(s) \/ ForgetNext(s) \/ RecordProgress(s)
  \/ MemoryCrash

MemorySpec == MemoryInit /\ [][MemoryNext]_memoryVars

---------------------------------------------------------------------------
MemoryTypeOK ==
  /\ \A n \in Names : memories.global[n] \subseteq 1 .. MaxFacts /\ memories.ws[n] \subseteq 1 .. MaxFacts
  /\ \A s \in Users : curator[s].at \in {"off", "asking", "looking", "planning", "merging", "progress"}
  /\ facts.learned \in 0 .. MaxFacts /\ progress \in {"none", "open", "stray"}

(* Consolidating loses no fact: what was learned and not replaced or given *)
(* up is in some memory, whatever calls are refused and wherever the       *)
(* daemon dies, and never is the store emptied.  Two things undo that,     *)
(* which the module does not look for: another session that writes between *)
(* the pass's look and its last call, and a workspace memory of the same   *)
(* name.  And the in-progress memory says what a task list says.           *)
MemoryIsKept ==
  /\ ~faults.overlap /\ ~faults.wrongStore =>
       1 .. facts.learned \subseteq Held \cup facts.retired /\ ~faults.emptied
  /\ progress # "stray"
=============================================================================
