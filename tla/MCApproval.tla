------------------------------ MODULE MCApproval ------------------------------
(* Instances of Approval: one or two asks, racing deciders, a few faults.    *)
EXTENDS Approval

CONSTANTS a0, a1, a2, d2

MCTypes == [a \in Asks |-> IF a = a0 THEN "slash_confirm" ELSE "command"]

FirstCoversSecond == {<<a1, a2>>}
NoneCovers == {}
NonePatterned == {}

(* Two scenes: the one card of a0, with every race and fault; or the two      *)
(* commands a1 and a2, with one user and no fault.                            *)
Raised == {a \in Asks : ask[a] # "idle"}
OneScene ==
    \/ Raised \subseteq {a0}
    \/ /\ Raised \subseteq {a1, a2}
       /\ faults = 0
       /\ dpc[d2] = "idle"

MCNext == Next /\ OneScene'
MCSpec == Init /\ [][MCNext]_vars /\ Fairness
=============================================================================
