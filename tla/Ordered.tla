------------------------------ MODULE Ordered ------------------------------
(* The numbers of a set in their order: rows by the time they were made,   *)
(* events by their ids.                                                    *)
EXTENDS Naturals, FiniteSets

InOrder(S) == [k \in 1 .. Cardinality(S) |-> CHOOSE e \in S : Cardinality({f \in S : f <= e}) = k]
=============================================================================
