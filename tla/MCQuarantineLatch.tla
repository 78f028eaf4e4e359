------------------------- MODULE MCQuarantineLatch -------------------------
(* Instances of QuarantineLatch for TLC. *)
EXTENDS QuarantineLatch
CONSTANTS w1, w2, process, monitor, operator
TwoWorkers == [a \in Agents |-> IF a = process THEN w1 ELSE w2]
OneWorker == [a \in Agents |-> w1]
=============================================================================
