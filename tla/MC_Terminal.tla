---------------------------- MODULE MC_Terminal ----------------------------
(* The terminal client alone, for the divergence it has.                   *)
EXTENDS Terminal

MCPromptOf == [p \in {"p"} |-> "s"]
=============================================================================
