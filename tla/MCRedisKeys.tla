----------------------------- MODULE MCRedisKeys -----------------------------
(***************************************************************************)
(* Small instance of RedisKeys.                                            *)
(***************************************************************************)
EXTENDS RedisKeys, TLC

CONSTANTS c1, c2, c3

Symmetry == Permutations(Clients)
=============================================================================
