--------------------------- MODULE MC_SessionLoop ---------------------------
(* Instances of SessionLoop for TLC. *)
EXTENDS SessionLoop, TLC

MCAllOps      == AllOps
MCPrompts     == {"prompt"}
MCStopPrompt  == {"stop", "prompt"}
MCInterrupted == {"prompt", "interrupt", "compact"}

MCUnlimited == {0}
MCRaise     == {2}

(* Calls are told apart by nothing but what they do. *)
CallSymmetry == Permutations(Calls)
=============================================================================
