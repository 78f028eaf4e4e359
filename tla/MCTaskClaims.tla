---------------------------- MODULE MCTaskClaims ----------------------------
(***************************************************************************)
(* TaskClaims on small instances.                                          *)
(***************************************************************************)
EXTENDS TaskClaims, TLC

CONSTANTS w1, w2, t1, t2

\* Every node suits every task.
FitAll == Workers \X Tasks

\* t1 asks for a node that no worker is on: only a direct queue can serve it.
FitAway == Workers \X (Tasks \ {t1})

\* Two workers that every task suits are alike.
Alike == Permutations({w1, w2})
=============================================================================
