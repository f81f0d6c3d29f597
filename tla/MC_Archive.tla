---------------------------- MODULE MC_Archive -----------------------------
(* A session and its child, for TLC.                                       *)
EXTENDS Archive

MCParent == [r |-> None, k |-> "r"]
=============================================================================
