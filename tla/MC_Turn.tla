------------------------------ MODULE MC_Turn ------------------------------
(* What decides about a turn, for TLC: the parts run one at a time, each   *)
(* in an instance of its own.  They share no state, so that a behaviour of *)
(* all of them is one of each.                                             *)
EXTENDS Verify, ToolCalls, Repetition, Guard, RepeatWatch, StuckAsk, WorkspaceWatch, ModelView, ModelCall

VARIABLE part

MCT(id, title, status, ck, dw) ==
  [id |-> id, title |-> title, status |-> status, check |-> ck, dw |-> dw, note |-> FALSE]
MCSnapshots == {
  << MCT(0, "x", "in_progress", TRUE, TRUE) >>,
  << MCT(0, "x", "done", TRUE, TRUE) >>,
  << MCT(0, "x", "done", FALSE, FALSE), MCT(0, "x", "blocked", FALSE, FALSE) >>,
  << MCT(1, "y", "cancelled", FALSE, FALSE) >> }

MCGates == <<"loop", "guard">>

MCS(p, v, f, a) == [program |-> p, verb |-> v, flags |-> f, paths |-> a]
MCSegments == {
  MCS("cat", "", {}, {"outside"}), MCS("go", "test", {}, {}),
  MCS("rm", "", {"-rf"}, {"inside"}), MCS("rm", "", {}, {"home"}), MCS("sudo", "", {}, {}),
  MCS("git", "status", {}, {}), MCS("git", "push", {}, {}), MCS("git", "push", {"--force"}, {}),
  MCS("git", "restore", {"--staged"}, {}), MCS("git", "restore", {}, {}),
  MCS("gh", "pr create", {}, {}), MCS("gh", "api", {}, {}), MCS("gh", "api", {"--field"}, {}) }
MCRulesets == {
  << >>,
  << Rule("allow", [AnyCall EXCEPT !.program = "go"]), Rule("deny", [AnyCall EXCEPT !.minRisk = High]) >>,
  << Rule("deny", [AnyCall EXCEPT !.path = "inside"]), Rule("allow", [AnyCall EXCEPT !.tool = "bash"]) >> }

turnVars == <<verifyVars, toolVars, repetitionVars, guardVars, watchVars, askVars, wsVars, viewVars, modelCallVars>>

TurnInit ==
  /\ part \in {"verify", "tools", "repetition", "guard", "stream", "stuck", "workspace", "view", "call"}
  /\ VerifyInit /\ ToolInit /\ RepetitionInit /\ GuardInit /\ WatchInit /\ StuckInit /\ WsInit /\ ViewInit /\ ModelCallInit
  /\ part # "verify" => tree.dirty = {} /\ baseline.known
  /\ part # "workspace" => disk = [f \in Paths |-> 0]

Only(p, A) == part = p /\ A /\ UNCHANGED part

(* Of two callers for one slot, the second is never sent a chunk.          *)
OneStreams == ModelCallNext /\ turns'["k"].at # "streaming"

TurnNext ==
  \/ /\ Only("verify", VerifyNext)
     /\ UNCHANGED <<toolVars, repetitionVars, guardVars, watchVars, askVars, wsVars, viewVars, modelCallVars>>
  \/ /\ Only("tools", ToolNext)
     /\ UNCHANGED <<verifyVars, repetitionVars, guardVars, watchVars, askVars, wsVars, viewVars, modelCallVars>>
  \/ /\ Only("repetition", RepetitionNext)
     /\ UNCHANGED <<verifyVars, toolVars, guardVars, watchVars, askVars, wsVars, viewVars, modelCallVars>>
  \/ /\ Only("guard", GuardNext)
     /\ UNCHANGED <<verifyVars, toolVars, repetitionVars, watchVars, askVars, wsVars, viewVars, modelCallVars>>
  \/ /\ Only("stream", WatchNext)
     /\ UNCHANGED <<verifyVars, toolVars, repetitionVars, guardVars, askVars, wsVars, viewVars, modelCallVars>>
  \/ /\ Only("stuck", StuckNext)
     /\ UNCHANGED <<verifyVars, toolVars, repetitionVars, guardVars, watchVars, wsVars, viewVars, modelCallVars>>
  \/ /\ Only("workspace", WsNext)
     /\ UNCHANGED <<verifyVars, toolVars, repetitionVars, guardVars, watchVars, askVars, viewVars, modelCallVars>>
  \/ /\ Only("view", ViewNext)
     /\ UNCHANGED <<verifyVars, toolVars, repetitionVars, guardVars, watchVars, askVars, wsVars, modelCallVars>>
  \/ /\ Only("call", OneStreams)
     /\ UNCHANGED <<verifyVars, toolVars, repetitionVars, guardVars, watchVars, askVars, wsVars, viewVars>>

TurnSpec == TurnInit /\ [][TurnNext]_<<part, turnVars>>

TurnTypeOK ==
  /\ VerifyTypeOK /\ ToolTypeOK /\ RepetitionTypeOK /\ GuardTypeOK /\ WatchTypeOK
  /\ StuckTypeOK /\ WsTypeOK /\ ViewTypeOK /\ ModelCallTypeOK

(* Neither calls nor a stream goes round in circles unseen, and neither is *)
(* cut off before it does: the loop module's watch (loop.go) and the one   *)
(* on what streams (repeat.go).                                            *)
CirclesAreCaught == CirclesEnd /\ WatchIsRight
=============================================================================
