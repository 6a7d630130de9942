----------------------------- MODULE ReplayLog -----------------------------
(***************************************************************************)
(* What the replay buffer of a member is for: the newest bufferSize events *)
(* pushed since it was last thrown away, oldest first.                     *)
(***************************************************************************)
EXTENDS Naturals, Sequences

CONSTANTS Events, bufferSize

VARIABLE log

Init == log = <<>>

Push(e) ==
    log' = IF Len(log) < bufferSize THEN Append(log, e)
                                    ELSE Append(Tail(log), e)

Discard == log' = <<>>

Next == Discard \/ \E e \in Events : Push(e)

Spec == Init /\ [][Next]_log
=============================================================================
