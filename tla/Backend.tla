------------------------------- MODULE Backend -------------------------------
(***************************************************************************)
(* The HTTP handlers together: mini programs, friendships, conversations,  *)
(* agents and their keys, accounts and tokens, over one database, one      *)
(* Redis and one server process, whose restart ends whatever is under way. *)
(***************************************************************************)
EXTENDS MpData, Rooms, Sessions

backendVars == <<handlerVars, mpVars, peopleVars, sessionVars>>

Init == HandlersInit /\ MpInit /\ RoomsInit /\ SessionsInit

\* A handler that ends with the process may have left members untold.
ServerRestarts ==
    /\ MpRestart
    /\ missed' = missed \cup (Viewers \X DOMAIN rooms)
    /\ UNCHANGED <<roomless, rooms, plugin, app, twice, store, loads, heard, twins, away, sessionVars>>

Next ==
    \/ MpNext /\ UNCHANGED <<peopleVars, sessionVars>>
    \/ PeopleNext /\ UNCHANGED <<mpVars, sessionVars>>
    \/ (\E r \in Requests : SessionStep(r)) /\ UNCHANGED <<mpVars, peopleVars>>
    \/ ServerRestarts

Spec == Init /\ [][Next]_backendVars

\* What the components rely on of each other's rows: owners exist, members are users or
\* agents that were made, and a row of mini_program_data is one of its kind.
TypeOK == DataTypeOK /\ PeopleTypeOK
=============================================================================
