----------------------------- MODULE RpcPromise -----------------------------
(***************************************************************************)
(* What POST /api/agents/:id/rpc promises its caller, whatever goes on     *)
(* behind it: every call is answered at most once, and it is answered with *)
(* a result only if the plugin produced one for that very call.            *)
(***************************************************************************)
CONSTANTS Calls, Failures, NoAnswer

VARIABLES answer, produced

vars == <<answer, produced>>

Init ==
    /\ answer = [k \in Calls |-> NoAnswer]
    /\ produced = {}

Produce(k) ==
    /\ produced' = produced \cup {k}
    /\ UNCHANGED answer

Answer(k, a) ==
    /\ answer[k] = NoAnswer
    /\ a = "result" => k \in produced
    /\ answer' = [answer EXCEPT ![k] = a]
    /\ UNCHANGED produced

Next == \E k \in Calls :
            \/ Produce(k)
            \/ \E a \in Failures \cup {"result"} : Answer(k, a)

Spec == Init /\ [][Next]_vars
=============================================================================
