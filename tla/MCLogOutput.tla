----------------------------- MODULE MCLogOutput -----------------------------
(***************************************************************************)
(* Small instance of LogOutput.                                            *)
(***************************************************************************)
EXTENDS LogOutput

CONSTANTS d1, d2
=============================================================================
