------------------------------ MODULE MCUnread ------------------------------
(* Two users and an agent that sends; one request of each kind beside the sends. *)
EXTENDS Unread, TLC
CONSTANTS user, other, agent, m1, m2, r1, c1, p1

SentByAgent == [m \in Messages |-> agent]
ReadByUser == [r \in Reads |-> user]
RecallsSecond == [c \in Recalls |-> m2]
PatchesSecond == [p \in Patches |-> m2]
=============================================================================
