---------------------------- MODULE RingBuffer ----------------------------
(***************************************************************************)
(* dispatchBuffer (hub/hub.go), one member's replay buffer: a fixed array  *)
(* used as a ring, with the index of its oldest element and the number of  *)
(* elements. push and getAfter hold its mutex, so each is one step. Module *)
(* Dispatch drives it.                                                     *)
(***************************************************************************)
EXTENDS Naturals, Sequences

CONSTANTS
    Events,     \* what may be pushed
    bufferSize, \* capacity of the ring (1000 in the code)
    Empty       \* the zero value of a cell

ASSUME BufferSizeAssumption == bufferSize \in Nat \ {0}
ASSUME EmptyAssumption == Empty \notin Events

VARIABLES msgs, head, count

ringVars == <<msgs, head, count>>

Cells == 0..(bufferSize - 1)

\* Where the i-th element, counted from zero, is.
At(i) == (head + i) % bufferSize

Fresh ==
    /\ msgs = [i \in Cells |-> Empty]
    /\ head = 0
    /\ count = 0

\* The new element goes behind the last; a full ring gives up its oldest.
push(e) ==
    /\ msgs' = [msgs EXCEPT ![At(count)] = e]
    /\ IF count < bufferSize
       THEN count' = count + 1 /\ UNCHANGED head
       ELSE head' = (head + 1) % bufferSize /\ UNCHANGED count

\* The buffer leaves Hub.buffers; the next sender makes a new one.
Discard ==
    /\ msgs' = [i \in Cells |-> Empty]
    /\ head' = 0
    /\ count' = 0

\* The elements in the order getAfter visits them, and those it returns.
FromStart == [i \in 1..count |-> msgs[i - 1]]
Visited == [i \in 1..count |-> msgs[At(i - 1)]]

getAfter(Newer) == SelectSeq(Visited, LAMBDA e : e \in Newer)

RingNext == Discard \/ \E e \in Events : push(e)

RingSpec == Fresh /\ [][RingNext]_ringVars

---------------------------------------------------------------------------
(* Properties *)

\* No element visited is a cell that was never written, also when the ring
\* has wrapped round.
RingSound ==
    /\ msgs \in [Cells -> Events \cup {Empty}]
    /\ head \in Cells
    /\ count \in 0..bufferSize
    /\ head # 0 => count = bufferSize
    /\ \A i \in 0..(count - 1) : msgs[i] # Empty

(***************************************************************************)
(* Resume must find the newest events in the order they were pushed: what  *)
(* getAfter visits is exactly the log of module ReplayLog, at the wrap and *)
(* at the first overwrite too.                                             *)
(***************************************************************************)
Log == INSTANCE ReplayLog WITH log <- Visited
IsReplayLog == Log!Spec
=============================================================================
