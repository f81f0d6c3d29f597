----------------------------- MODULE ModelCall -----------------------------
(***************************************************************************)
(* One model call of a turn: the provider's slots, attempts and stream     *)
(* (provider/openai.go), the calls it recovers from the reasoning          *)
(* (recover.go), and what the turn makes of the reply (agent/runner.go     *)
(* turn): the second ask with the room the server named, what is logged of *)
(* a failed call, and which of the calls are run.                          *)
(***************************************************************************)
EXTENDS Naturals, Sequences, FiniteSets, SequencesExt

CONSTANTS
  Callers,      \* sessions whose turns use one provider
  MaxInFlight,  \* its slots
  Retries,      \* attempts after the first
  MaxChunks     \* bound on what one attempt streams

ASSUME ModelCallAssumption == MaxInFlight \in Nat \ {0} /\ Retries \in Nat

VARIABLES
  slots,  \* the callers that hold a slot (p.sem)
  turns   \* where each caller's turn is

modelCallVars == <<slots, turns>>

(* parts is the Response as it arrives: pieces of the answer and of the    *)
(* thinking, among it a call written out there, and calls of the model's,  *)
(* each as far as it came.  ran are the places of the calls that ran.      *)
Idle == [at |-> "idle", ask |-> 1, attempt |-> 1, parts |-> << >>, finish |-> "none",
         shown |-> {}, logged |-> {}, ran |-> {}]
Streamed == {"answer", "thinking", "leak"}
CallParts == {"begun", "half", "whole"}

Has(parts, ks) == \E i \in DOMAIN parts : parts[i] \in ks
CallsOf(parts) == {i \in DOMAIN parts : parts[i] \in CallParts}
InCall(c) == turns[c].at \in {"sent", "streaming", "backoff"}
Set(c, r) == turns' = [turns EXCEPT ![c] = r]

ModelCallInit == slots = {} /\ turns = [c \in Callers |-> Idle]

TurnStarts(c) ==
  /\ turns[c].at = "idle"
  /\ Set(c, [Idle EXCEPT !.at = "waiting"]) /\ UNCHANGED slots

(* Complete: a slot first, held until it returns.                          *)
Acquires(c) ==
  /\ turns[c].at = "waiting" /\ Cardinality(slots) < MaxInFlight
  /\ slots' = slots \cup {c} /\ Set(c, [turns[c] EXCEPT !.at = "sent"])

(* readStream: a chunk.  The answer and the thinking are shown as they     *)
(* come; a call is only put together.                                      *)
Grown(parts) ==
  {Append(parts, k) : k \in Streamed \cup {"begun"}} \cup
  (IF parts = << >> THEN {} ELSE {Append(Front(parts), k) :
     k \in CASE Last(parts) = "begun" -> {"half", "whole"}
            [] Last(parts) = "half" -> {"whole"} [] OTHER -> {}})
Streams(c) ==
  /\ turns[c].at \in {"sent", "streaming"}
  /\ \E parts \in Grown(turns[c].parts) :
       /\ Len(parts) <= MaxChunks
       /\ \A i \in DOMAIN parts : parts[i] \in {"begun", "half"} => i = Len(parts)
       /\ Set(c, [turns[c] EXCEPT !.at = "streaming", !.parts = parts,
                    !.shown = IF Last(parts) \in Streamed
                              THEN @ \cup {<<turns[c].ask, turns[c].attempt>>} ELSE @])
  /\ UNCHANGED slots

(* recoverLeakedCalls: only of a reply without a call, only from the       *)
(* thinking, which is left without what was a call.                        *)
Recovered(parts) ==
  IF CallsOf(parts) = {} /\ Has(parts, {"leak"})
  THEN Append([i \in DOMAIN parts |-> IF parts[i] = "leak" THEN "thinking" ELSE parts[i]], "whole")
  ELSE parts

(* The stream is over: it was done, its cap cut it off, or it ended        *)
(* without a word, which counts as done when there was any data.           *)
Completes(c) ==
  /\ turns[c].at = "streaming"
  /\ \E f \in {"done", "length", "unsaid"} :
       /\ f = "done" => ~Has(turns[c].parts, {"begun", "half"})
       /\ LET back == Recovered(turns[c].parts)
          IN Set(c, [turns[c] EXCEPT !.at = "reply", !.parts = back,
                       !.finish = IF back # turns[c].parts THEN "recovered" ELSE f])
  /\ slots' = slots \ {c}

(* An attempt fails.  Again after a pause, with the slot, when the fault   *)
(* may pass and nothing was shown; else Complete returns what had arrived. *)
Failures == {"refused", "busy", "room", "timeout", "broken"}
Retryable(how) == how \in {"busy", "broken"}
(* Mutant: also after something was shown.                                 *)
RetryAnyway(t, how) == Retryable(how) /\ t.attempt <= Retries
MayRetry(t, how) == Retryable(how) /\ t.attempt <= Retries /\ <<t.ask, t.attempt>> \notin t.shown
AttemptFails(c, how) ==
  /\ turns[c].at = "sent" \/ (turns[c].at = "streaming" /\ how \in {"timeout", "broken"})
  /\ IF MayRetry(turns[c], how)
     THEN Set(c, [turns[c] EXCEPT !.at = "backoff"]) /\ UNCHANGED slots
     ELSE Set(c, [turns[c] EXCEPT !.at = "failed", !.finish = how]) /\ slots' = slots \ {c}

TriesAgain(c) ==
  /\ turns[c].at = "backoff"
  /\ Set(c, [turns[c] EXCEPT !.at = "sent", !.attempt = @ + 1, !.parts = << >>]) /\ UNCHANGED slots

(* The server named the room it has, when it refused: asked once more.     *)
AskedAgain(c) ==
  /\ turns[c].at = "failed" /\ turns[c].finish = "room" /\ turns[c].ask = 1
  /\ Set(c, [turns[c] EXCEPT !.at = "waiting", !.ask = 2, !.attempt = 1, !.parts = << >>,
               !.logged = @ \cup {"asked again"}])
  /\ UNCHANGED slots

(* partialReply: a failed call is described by what had arrived.           *)
CallFailed(c) ==
  /\ turns[c].at = "failed" /\ ~(turns[c].finish = "room" /\ turns[c].ask = 1)
  /\ Set(c, [turns[c] EXCEPT !.at = "over",
               !.logged = @ \cup {"failed"} \cup {k \in {"partial"} : turns[c].parts # << >>}])
  /\ UNCHANGED slots

(* The watch trips on the answer: the call is given up, what came before   *)
(* the repeats is logged, and no call in it runs.                          *)
StopRepeating(c) ==
  /\ turns[c].at = "streaming" /\ Has(turns[c].parts, {"answer"})
  /\ Set(c, [turns[c] EXCEPT !.at = "over", !.logged = @ \cup {"message", "partial"}])
  /\ slots' = slots \ {c}

(* The reply is logged, and its calls run in order, but for a last one     *)
(* that the cap cut off.                                                   *)
RunCalls(t) ==
  LET all == CallsOf(t.parts) IN IF t.finish = "length" /\ all # {} THEN all \ {Max(all)} ELSE all
ReplyLogged(c) ==
  /\ turns[c].at = "reply"
  /\ Set(c, [turns[c] EXCEPT !.at = "over", !.ran = RunCalls(turns[c]), !.logged = @ \cup {"message"}])
  /\ UNCHANGED slots

(* An interrupt ends the call wherever it is; what was shown is gone.      *)
CallInterrupted(c) ==
  /\ turns[c].at = "waiting" \/ InCall(c)
  /\ Set(c, [turns[c] EXCEPT !.at = "over", !.logged = @ \cup {"interrupted"}]) /\ slots' = slots \ {c}

NextTurn(c) == turns[c].at = "over" /\ Set(c, Idle) /\ UNCHANGED slots

ModelCallNext ==
  \E c \in Callers :
    \/ TurnStarts(c) \/ Acquires(c) \/ Streams(c) \/ Completes(c) \/ TriesAgain(c) \/ AskedAgain(c)
    \/ CallFailed(c) \/ StopRepeating(c) \/ ReplyLogged(c) \/ CallInterrupted(c) \/ NextTurn(c)
    \/ \E how \in Failures : AttemptFails(c, how)

ModelCallSpec == ModelCallInit /\ [][ModelCallNext]_modelCallVars

---------------------------------------------------------------------------
ModelCallTypeOK ==
  /\ slots \subseteq Callers
  /\ \A c \in Callers : turns[c].ask \in 1..2 /\ turns[c].attempt \in 1..(Retries + 1)
                        /\ turns[c].parts \in Seq(Streamed \cup CallParts)

(* A slot is held by those whose call is at the provider, a pause between  *)
(* attempts included, and by nobody else; a reader sees one attempt of a   *)
(* turn; what a reader saw of a turn nobody interrupted, the log has or    *)
(* tells of; and a call that runs is whole, unless the server stopped in   *)
(* the middle of it and said nothing (openai.go Complete and readStream,   *)
(* recover.go, runner.go turn).                                            *)
ReplyIsSound ==
  /\ slots = {c \in Callers : InCall(c)} /\ Cardinality(slots) <= MaxInFlight
  /\ \A c \in Callers : LET t == turns[c] IN
     /\ Cardinality(t.shown) <= 1
     /\ t.at = "over" /\ "interrupted" \notin t.logged /\ t.shown # {} =>
          t.logged \cap {"message", "partial"} # {}
     /\ t.ran \subseteq CallsOf(t.parts) /\ \A i \in t.ran : t.parts[i] # "whole" => t.finish = "unsaid"
     /\ t.at = "over" /\ t.finish = "recovered" => t.ran = {Len(t.parts)} /\ ~Has(t.parts, {"leak"})
=============================================================================
