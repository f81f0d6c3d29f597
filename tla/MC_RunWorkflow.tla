--------------------------- MODULE MC_RunWorkflow ---------------------------
(* RunWorkflow for TLC: its constants are numbers, given in the .cfg files. *)
EXTENDS RunWorkflow
=============================================================================
