---------------------------- MODULE DeliveryLedger ----------------------------
(***************************************************************************)
(* What the simulator's publisher promises its caller: every message it    *)
(* was given is pending until it is, once and for all, sent or dropped.    *)
(***************************************************************************)
EXTENDS Naturals

VARIABLES
    submitted, \* how many messages were submitted; they are numbered from 1
    sent,      \* the numbers of those that were sent
    dropped    \* the numbers of those that were given up

Pending == (1..submitted) \ (sent \cup dropped)

Init == submitted = 0 /\ sent = {} /\ dropped = {}

(* A full buffer gives up one pending message for the new one.             *)
Submit ==
    /\ submitted' = submitted + 1
    /\ \/ UNCHANGED dropped
       \/ \E n \in Pending : dropped' = dropped \cup {n}
    /\ UNCHANGED sent

Deliver ==
    /\ \E n \in Pending : sent' = sent \cup {n}
    /\ UNCHANGED <<submitted, dropped>>

GiveUp ==
    /\ \E lost \in SUBSET Pending : dropped' = dropped \cup lost
    /\ UNCHANGED <<submitted, sent>>

Next == Submit \/ Deliver \/ GiveUp

Spec == Init /\ [][Next]_<<submitted, sent, dropped>>
=============================================================================
