------------------------------- MODULE MCCudaTask -------------------------------
(* Children of one task, as in production, and of two; three tasks over all.  *)
EXTENDS CudaTask

MCLimits == {1, 2}
=============================================================================
