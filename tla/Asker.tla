------------------------------- MODULE Asker -------------------------------
(***************************************************************************)
(* What a daemon-to-client request promises whoever asked (spec 7.18): it  *)
(* settles once, on the first answer a client gave while it was open, or   *)
(* on nobody.                                                              *)
(***************************************************************************)
CONSTANTS Clients, Questions, Nobody
VARIABLES winner,   \* the client whose answer came first, or Nobody
          outcome   \* "asked" until it settles: then a client, or "unanswered"

AskerInit == winner = [q \in Questions |-> Nobody] /\ outcome = [q \in Questions |-> "asked"]

Win(q, c) ==
  /\ outcome[q] = "asked" /\ winner[q] = Nobody
  /\ winner' = [winner EXCEPT ![q] = c] /\ UNCHANGED outcome

Settle(q) ==
  /\ outcome[q] = "asked"
  /\ \/ outcome' = [outcome EXCEPT ![q] = "unanswered"]
     \/ winner[q] # Nobody /\ outcome' = [outcome EXCEPT ![q] = winner[q]]
  /\ UNCHANGED winner

(* The daemon stops, and with it everyone who is asking; what is asked     *)
(* later is asked of the next one.                                         *)
Abandon ==
  /\ \E asking \in SUBSET {q \in Questions : outcome[q] = "asked"} :
       outcome' = [q \in Questions |-> IF q \in asking THEN "unanswered" ELSE outcome[q]]
  /\ UNCHANGED winner

AskerSpec ==
  AskerInit /\ [][(\E q \in Questions, c \in Clients : Win(q, c)) \/ (\E q \in Questions : Settle(q))
                  \/ Abandon]_<<winner, outcome>>
=============================================================================
