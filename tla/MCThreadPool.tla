---------------------------- MODULE MCThreadPool ----------------------------
(***************************************************************************)
(* Small instances of ThreadPool.                                          *)
(***************************************************************************)
EXTENDS ThreadPool

CONSTANTS w1, w2, a, b, c
=============================================================================
