---------------------------- MODULE ExchangeLedger ----------------------------
(***************************************************************************)
(* What a chat endpoint promises about an exchange, whatever its mode: the *)
(* question and the answer are stored together or not at all and then stay *)
(* as they are; a client told "created" finds both; a client whose message *)
(* was refused finds neither.  Only an internal error, or a connection     *)
(* that breaks before the answer arrives, leaves the client in doubt.      *)
(***************************************************************************)
CONSTANTS Exchanges, Roles

VARIABLES
    stored,    \* the messages of each exchange that the conversation holds
    outcome    \* what the client has been told

Outcomes == {"pending", "created", "refused", "unknown"}

Init ==
    /\ stored = [e \in Exchanges |-> {}]
    /\ outcome = [e \in Exchanges |-> "pending"]

Tell(e, news) ==
    /\ outcome[e] = "pending"
    /\ outcome' = [outcome EXCEPT ![e] = news]
    /\ UNCHANGED stored

Record(e) ==
    /\ outcome[e] = "pending"
    /\ stored[e] = {}
    /\ stored' = [stored EXCEPT ![e] = Roles]
    /\ UNCHANGED outcome

Confirm(e) == stored[e] = Roles /\ Tell(e, "created")
Refuse(e) == stored[e] = {} /\ Tell(e, "refused")
Lose(e) == Tell(e, "unknown")

Next == \E e \in Exchanges : Record(e) \/ Confirm(e) \/ Refuse(e) \/ Lose(e)

Spec == Init /\ [][Next]_<<stored, outcome>>
=============================================================================
