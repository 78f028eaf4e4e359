------------------------- MODULE MCWorkflowLifecycle -------------------------
(***************************************************************************)
(* WorkflowLifecycle on small instances.                                   *)
(***************************************************************************)
EXTENDS WorkflowLifecycle, TLC

CONSTANTS r1, r2, hA, hB

Symmetry == Permutations(Requests) \cup Permutations(Hashes)
=============================================================================
