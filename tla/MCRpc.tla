------------------------------- MODULE MCRpc -------------------------------
EXTENDS Rpc, TLC
CONSTANTS k1, k2, agent, other

OneAgent == [k \in Calls |-> agent]
=============================================================================
