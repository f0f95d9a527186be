------------------------------ MODULE MCFleet ------------------------------
(* A small instance of Fleet for TLC. *)
EXTENDS Fleet, TLC

CONSTANT t1

\* Two slots: calls with one requestId are not kept apart by the quota alone.
TwoSlots == [t \in Tokens |-> 2]

Symmetry == Permutations(Calls) \cup Permutations(Gateways) \cup Permutations(RequestIds)
=============================================================================
