---------------------------- MODULE MCDispatch ----------------------------
(* Instances of Dispatch: one or two connections, two events. *)
EXTENDS Dispatch, TLC
CONSTANTS c1, c2, e1, e2
Symmetry == Permutations(Conns) \cup Permutations(Events)
=============================================================================
