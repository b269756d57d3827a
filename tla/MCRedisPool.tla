----------------------------- MODULE MCRedisPool -----------------------------
(***************************************************************************)
(* Small instance of RedisPool.                                            *)
(***************************************************************************)
EXTENDS RedisPool

CONSTANTS t1, t2, k1, k2, k3
=============================================================================
