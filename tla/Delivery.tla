------------------------------ MODULE Delivery ------------------------------
(***************************************************************************)
(* What the write-behind buffers of the gateway promise about the items    *)
(* they are given, usage records (UsageHistory) and metrics events         *)
(* (MetricsEngine): an item is taken or refused when it is offered, an     *)
(* item that was taken is stored at most once or is given up, and nothing  *)
(* changes afterwards.                                                     *)
(***************************************************************************)
CONSTANT Items

VARIABLE status

Statuses == {"new", "held", "refused", "stored", "lost"}
Settled == {"refused", "stored", "lost"}

(* The items of S, all of them in state "from", move to state "to". *)
Move(S, from, to) ==
    /\ S # {} /\ \A i \in S : status[i] = from
    /\ status' = [i \in Items |-> IF i \in S THEN to ELSE status[i]]

Init == status = [i \in Items |-> "new"]

Next ==
    \/ \E i \in Items : Move({i}, "new", "held") \/ Move({i}, "new", "refused")
    \/ \E S \in SUBSET Items : Move(S, "held", "stored") \/ Move(S, "held", "lost")

Spec == Init /\ [][Next]_status

(* The outcome of an item is final: it is not stored a second time, and a  *)
(* stored item is not reported lost.                                       *)
OutcomeIsFinal ==
    [][\A i \in Items : status[i] \in Settled => status'[i] = status[i]]_status
=============================================================================
