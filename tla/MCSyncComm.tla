------------------------------ MODULE MCSyncComm -----------------------------
(***************************************************************************)
(* Small instances of SyncComm.                                            *)
(***************************************************************************)
EXTENDS SyncComm

CONSTANTS k1, k2, c1, c2, c3, r1, r2
=============================================================================
