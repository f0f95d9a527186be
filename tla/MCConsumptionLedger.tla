------------------------- MODULE MCConsumptionLedger ------------------------
(* A small instance of ConsumptionLedger for TLC. *)
EXTENDS ConsumptionLedger, TLC

CONSTANTS t1, t2

SmallLimit == t1 :> 1 @@ t2 :> Unlimited

Symmetry == Permutations(Calls) \cup Permutations(RequestIds)
=============================================================================
