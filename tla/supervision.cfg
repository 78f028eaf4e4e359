\* The instance stops when its last generation is over.
CONSTANTS
  MaxGens = 3
  MaxAttempts = 1
  MaxFaults = 2
  MaxClears = 1
SPECIFICATION FairSpec
CHECK_DEADLOCK FALSE
INVARIANTS
  OneGeneration
  SessionIsAccounted
  RestartsAreBounded
PROPERTIES
  OnlyTheDeadAreReplaced
  WorkerIsServed
