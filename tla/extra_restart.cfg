\* Not a run of the project: an instance on which the comment of
\* _reserve_gpu_restart_attempt does not hold.
CONSTANTS
  MaxGens = 4
  MaxAttempts = 1
  MaxFaults = 0
  MaxClears = 1
SPECIFICATION Spec
CHECK_DEADLOCK FALSE
INVARIANT QuarantineBeforeNext
