------------------------- MODULE MCRedisConsumption -------------------------
(* A small instance of RedisConsumption for TLC. *)
EXTENDS RedisConsumption, TLC

CONSTANT t1

SmallLimit == t1 :> 1

TwoLimit == t1 :> 2

Symmetry == Permutations(Calls) \cup Permutations(RequestIds)
=============================================================================
