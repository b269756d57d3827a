------------------------------ MODULE MCAsyncMQ ------------------------------
(***************************************************************************)
(* Small instance of AsyncMQ: one request of each of two clients.          *)
(***************************************************************************)
EXTENDS AsyncMQ, TLC

CONSTANTS c1, c2, q1, q2

TwoKeys == 1..2
Owner == (q1 :> c1) @@ (q2 :> c2)
=============================================================================
