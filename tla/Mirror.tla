------------------------------- MODULE Mirror -------------------------------
(***************************************************************************)
(* What a client that follows a session is promised, whatever becomes of   *)
(* its connection: a log that grows, and for each client a copy of its     *)
(* beginning that grows too (protocol/spec.md 4 and 7.6).                  *)
(***************************************************************************)
EXTENDS Naturals

CONSTANT Clients
VARIABLES len, seen

Init == len = 1 /\ seen = [k \in Clients |-> {}]

Grow == len' = len + 1 /\ UNCHANGED seen

(* A client shows the log up to some event, and nothing it showed is gone. *)
Catch(k) ==
  /\ \E n \in 1..len : /\ seen[k] \subseteq 1..n
                       /\ seen' = [seen EXCEPT ![k] = 1..n]
  /\ UNCHANGED len

Next == Grow \/ \E k \in Clients : Catch(k)

Spec == Init /\ [][Next]_<<len, seen>>
=============================================================================
