------------------------------ MODULE MCChildReap ------------------------------
(***************************************************************************)
(* ChildReap on small instances.                                           *)
(***************************************************************************)
EXTENDS ChildReap, TLC

CONSTANTS a, b, p1, p2, p3

\* PIDs are alike, and so are the handles.
Alike == Permutations(Pids) \cup Permutations(Handles)
=============================================================================
