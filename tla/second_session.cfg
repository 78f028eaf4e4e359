\* Not a run of the project: an instance on which the comment in
\* _quarantine_unsafe_process_group does not hold.
CONSTANTS
  MaxGens = 3
  MaxAttempts = 2
  MaxFaults = 2
  MaxClears = 0
SPECIFICATION Spec
CHECK_DEADLOCK FALSE
INVARIANT FailsClosed
