-------------------------- MODULE MCConnectionPool ---------------------------
(***************************************************************************)
(* Small instances of ConnectionPool.                                      *)
(***************************************************************************)
EXTENDS ConnectionPool

CONSTANTS t1, t2, t3, c1, c2, c3
=============================================================================
