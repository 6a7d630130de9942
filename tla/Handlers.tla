------------------------------ MODULE Handlers ------------------------------
(***************************************************************************)
(* What the HTTP handlers over the database have in common.  A request is  *)
(* a goroutine that runs one handler, statement by statement; the requests *)
(* of a behaviour are fixed at its start and begin in any order.  Between  *)
(* two statements a handler keeps what it read in snap; the other requests *)
(* run meanwhile.                                                          *)
(***************************************************************************)
EXTENDS Integers, Sequences, FiniteSets

CONSTANTS
    Users,          \* users.id
    Requests,       \* the requests of a behaviour; ids of what they create
    Jobs,           \* the ways to hand out the requests: functions to records with op, user
    Nothing         \* no row, no value

ASSUME NothingAssumption == Nothing \notin Requests

VARIABLES
    job,        \* what each request is for
    pc,         \* where its handler is
    snap        \* what its handler read

handlerVars == <<job, pc, snap>>

HandlersInit ==
    /\ job \in Jobs
    /\ pc = [r \in Requests |-> "new"]
    /\ snap = [r \in Requests |-> Nothing]

Is(r, op, at) == job[r].op = op /\ pc[r] = at
Goto(r, at) == pc' = [pc EXCEPT ![r] = at]
Keep(r, what) == snap' = [snap EXCEPT ![r] = what]
=============================================================================
