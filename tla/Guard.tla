------------------------------- MODULE Guard -------------------------------
(***************************************************************************)
(* The guard module's verdict on a tool call (daemon/modules/guard/        *)
(* guard.go): what a call is, how it is rated, the rules in their order,   *)
(* and what the permission mode makes of a call no rule matches.           *)
(*                                                                         *)
(* A shell command is the sequence of its segments; a segment is its       *)
(* program, its verb, its flags and where its path arguments point.  The   *)
(* families of programs are represented by one member each.                *)
(***************************************************************************)
EXTENDS Naturals, Sequences, FiniteSets, SequencesExt

CONSTANTS
  Segments,    \* the command segments a chain is made of
  Rulesets,    \* what the "rules" of the configuration may hold
  MaxSegments  \* bound on a chain

Low == 0
Medium == 1
High == 2

(* What rulesFromConfig lets through: a list, each of its verdicts known.  *)
Decisions == {"allow", "ask", "deny"}
RulesRead(list) ==
  Len(list) \in Nat /\ DOMAIN list = 1 .. Len(list) /\ \A i \in DOMAIN list : list[i].decision \in Decisions

ASSUME GuardAssumption == MaxSegments \in Nat /\ \A list \in Rulesets : RulesRead(list)

VARIABLES
  call,   \* the call the model makes: [tool, op, path, segments]
  permissionMode,   \* the session's permission mode
  labels, \* the session's labels
  rules   \* the rules as Init left them

guardVars == <<call, permissionMode, labels, rules>>

Tools  == {"bash", "wait", "edit", "read", "git", "artifact"}

AlwaysDangerous == {"sudo"}
TargetDependent == {"rm"}
MediumRisk      == {"git", "go"}
ToolTiers == [read |-> Low, edit |-> Medium]

---------------------------------------------------------------------------
(* rewritesHistory: git that can destroy work or history.                  *)
RewritesHistory(seg) ==
  LET Has(flags) == seg.flags \cap flags # {} IN
  \/ seg.verb \in {"update-ref", "rebase", "filter-branch", "filter-repo"}
  \/ seg.verb = "reset" /\ Has({"--hard"})
  \/ seg.verb = "push" /\ Has({"--force", "--force-with-lease", "-f", "+"})
  \/ seg.verb = "branch" /\ Has({"--force", "-D", "-f"})
  \/ seg.verb = "checkout" /\ Has({"-B", "--"})
  \/ seg.verb = "switch" /\ Has({"-C", "--force-create"})
  \/ seg.verb = "clean" /\ Has({"--force", "-f"})
  \/ seg.verb = "restore" /\ ~Has({"--staged", "-S"})

(* publishes: a git push, or a gh command that writes to GitHub.           *)
Publishes(seg) ==
  \/ seg.program = "git" /\ seg.verb = "push"
  \/ seg.program = "gh" /\ \/ seg.verb \in {"pr create", "pr merge", "issue comment", "release create"}
                           \/ seg.verb = "api" /\ seg.flags \cap {"-X POST", "--field", "--input"} # {}

(* escapesWorkspace, of a segment's path arguments.                        *)
EscapesWorkspace(seg) == seg.paths \cap {"outside", "home"} # {}

SegmentTier(seg) ==
  IF \/ seg.program \in AlwaysDangerous
     \/ seg.program = "git" /\ RewritesHistory(seg)
     \/ seg.program \in TargetDependent /\ EscapesWorkspace(seg) THEN High
  ELSE IF seg.program \in TargetDependent \cup MediumRisk THEN Medium ELSE Low

(* Mutant: a chain is what it ends with.                                   *)
ClassifyLast(segs) == IF segs = <<>> THEN Low ELSE SegmentTier(Last(segs))

(* classifyCommand: a chain is its worst segment.                          *)
ClassifyCommand(segs) ==
  IF segs = <<>> THEN Low
  ELSE CHOOSE t \in {SegmentTier(segs[i]) : i \in DOMAIN segs} :
         \A i \in DOMAIN segs : SegmentTier(segs[i]) <= t

(* inspect and classify; wait is judged as the shell it runs.              *)
ToolOf(c) == IF c.tool = "wait" THEN "bash" ELSE c.tool
InWorkspace(c) == c.path # "outside"

Classify(c) ==
  IF ~InWorkspace(c) THEN High
  ELSE IF ToolOf(c) = "bash" THEN ClassifyCommand(c.segments)
  ELSE IF c.tool = "git" THEN (IF c.op = "commit" THEN Medium ELSE Low)
  ELSE IF c.tool \in DOMAIN ToolTiers THEN ToolTiers[c.tool] ELSE Low

---------------------------------------------------------------------------
AnyCall == [tool |-> "", program |-> "", path |-> "", minRisk |-> Low]
Rule(decision, match) == [decision |-> decision, match |-> match]

(* DefaultRules, which Init takes when none are configured.                *)
DefaultRules ==
  << Rule("ask", [AnyCall EXCEPT !.tool = "bash", !.minRisk = High]),
     Rule("ask", [AnyCall EXCEPT !.path = "outside"]) >>
Configured(list) == IF list = <<>> THEN DefaultRules ELSE list

(* Rule.matches: every criterion that is given holds; a command pattern is *)
(* the name of a program somewhere in the command.                         *)
Matches(rule, c) ==
  /\ rule.match.tool \in {"", ToolOf(c)}
  /\ rule.match.program = "" \/ \E i \in DOMAIN c.segments : c.segments[i].program = rule.match.program
  /\ rule.match.path \in {"", c.path}
  /\ Classify(c) >= rule.match.minRisk

FirstMatch(list, c) == SelectInSeq(list, LAMBDA r : Matches(r, c))

DefaultVerdict(m, c) == IF m = "auto" /\ Classify(c) # High THEN "allow" ELSE "ask"

(* GateTool: the label first, then bypass, then the rules in their order.  *)
GuardVerdict(c, m, ls, list) ==
  IF /\ "guard:no-push" \in ls /\ c.tool = "bash"
     /\ \E i \in DOMAIN c.segments : Publishes(c.segments[i]) THEN "deny"
  ELSE IF m = "bypass" THEN "allow"
  ELSE IF FirstMatch(list, c) # 0 THEN list[FirstMatch(list, c)].decision
  ELSE DefaultVerdict(m, c)

---------------------------------------------------------------------------
NoCall == [tool |-> "none", op |-> "none", path |-> "none", segments |-> <<>>]

GuardInit == call = NoCall /\ permissionMode = "ask" /\ labels = {} /\ rules = DefaultRules

(* A call, in a session with or without the label, under a configuration.  *)
MakeCall ==
  /\ call = NoCall
  /\ call' \in [tool : Tools, op : {"none", "commit"}, path : {"none", "inside", "outside"}, segments : {<<>>}]
  /\ call'.op # "none" => call'.tool = "git"
  /\ call'.path # "none" => call'.tool \in {"edit", "read", "artifact"}
  /\ labels' \in {{}, {"guard:no-push"}}
  /\ \E list \in Rulesets : rules' = Configured(list)
  /\ UNCHANGED permissionMode

(* The model makes the command longer.                                     *)
Chain(seg) ==
  /\ ToolOf(call) = "bash" /\ Len(call.segments) < MaxSegments
  /\ call' = [call EXCEPT !.segments = Append(@, seg)]
  /\ UNCHANGED <<permissionMode, labels, rules>>

(* The person lets more through: ask, auto, bypass.                        *)
Loosen ==
  /\ call # NoCall /\ permissionMode' = [ask |-> "auto", auto |-> "bypass", bypass |-> "bypass"][permissionMode] /\ permissionMode # "bypass"
  /\ UNCHANGED <<call, labels, rules>>

GuardNext == MakeCall \/ Loosen \/ \E seg \in Segments : Chain(seg)

GuardSpec == GuardInit /\ [][GuardNext]_guardVars

---------------------------------------------------------------------------
Strictness(v) == [allow |-> 0, ask |-> 1, deny |-> 2][v]
Now == Strictness(GuardVerdict(call, permissionMode, labels, rules))

GuardTypeOK ==
  /\ call.tool \in Tools \cup {"none"} /\ call.segments \in Seq(Segments) /\ Len(call.segments) <= MaxSegments
  /\ permissionMode \in {"ask", "auto", "bypass"} /\ labels \subseteq {"guard:no-push"}
  /\ GuardVerdict(call, permissionMode, labels, rules) \in Decisions

(* Under the built-in rules one more command in a chain never gets the     *)
(* chain through more easily; and under any rules a looser mode never      *)
(* makes the gate stricter, while a session that may not publish stays     *)
(* refused in every mode.                                                  *)
GateIsMonotone ==
  [][ call # NoCall =>
      /\ rules = DefaultRules /\ permissionMode' = permissionMode => Now' >= Now
      /\ permissionMode' # permissionMode => Now' <= Now /\ (labels # {} /\ Now = 2 /\ rules = DefaultRules => Now' = 2) ]_guardVars
=============================================================================
