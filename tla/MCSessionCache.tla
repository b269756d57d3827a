--------------------------- MODULE MCSessionCache ----------------------------
(***************************************************************************)
(* Small instances of SessionCache on its own.                             *)
(***************************************************************************)
EXTENDS SessionCache, TLC

CONSTANTS k1, k2, k3, k4, s1, s2

KeySymmetry == Permutations(Keys) \cup Permutations(Sessions)
=============================================================================
