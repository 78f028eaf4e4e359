----------------------------- MODULE MCWarmPool -----------------------------
(***************************************************************************)
(* WarmPool on small instances.                                            *)
(***************************************************************************)
EXTENDS WarmPool, TLC

CONSTANTS c1, k1, k2, k3, k4

KidSymmetry == Permutations(Kids)
=============================================================================
