---------------------------- MODULE MCZkRegistry -----------------------------
(***************************************************************************)
(* Small instance of ZkRegistry: two providers, which are alike.           *)
(***************************************************************************)
EXTENDS ZkRegistry, TLC

CONSTANTS p1, p2

ProviderSymmetry == Permutations(Providers)
=============================================================================
