--------------------------- MODULE ApprovalPromise ---------------------------
(***************************************************************************)
(* What the approval machinery promises to everybody who looks at one      *)
(* approval: it is opened once, and it is concluded at most once, with one *)
(* verdict that never changes afterwards.  Who concludes it (a user, the   *)
(* expiry sweep), how many of them race, and which of them fail half-way   *)
(* is not visible here.                                                    *)
(***************************************************************************)
CONSTANT Asks

VARIABLE verdict

Open    == "pending"
Final   == {"approved", "denied", "expired"}

Init == verdict = [a \in Asks |-> "none"]

Raise(a) ==
    /\ verdict[a] = "none"
    /\ verdict' = [verdict EXCEPT ![a] = Open]

Conclude(a) ==
    /\ verdict[a] = Open
    /\ \E v \in Final : verdict' = [verdict EXCEPT ![a] = v]

Next == \E a \in Asks : Raise(a) \/ Conclude(a)

Spec == Init /\ [][Next]_verdict
=============================================================================
