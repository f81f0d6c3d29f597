---------------------------- MODULE MC_Delivery ----------------------------
(* Instances of Delivery for TLC. *)
EXTENDS Delivery, TLC

(* Clients are told apart by nothing, nor are their slots, nor the fan-outs. *)
DeliverySymmetry == Permutations(Clients) \cup Permutations(Fanouts) \cup Permutations(Slots)
=============================================================================
