------------------------------ MODULE MCHubRpc ------------------------------
EXTENDS HubRpc, TLC
CONSTANTS c1, c2, k1, k2, agent, owner

MCMember == [c \in Conns |-> agent]
MCOwner == agent :> owner
MCAgentOf == [k \in Calls |-> agent]
Symmetry == Permutations(Conns) \cup Permutations(Calls)
=============================================================================
