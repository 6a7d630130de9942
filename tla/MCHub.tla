------------------------------- MODULE MCHub -------------------------------
(* Two or three connections of one member: the owner, or the agent. *)
EXTENDS Hub, TLC
CONSTANTS c1, c2, c3, agent, owner, notes

AgentMember == [c \in Conns |-> agent]
UserMember == [c \in Conns |-> owner]
MCOwner == agent :> owner
Symmetry == Permutations(Conns)
=============================================================================
