CONSTANTS
  MaxGens = 2
  MaxAttempts = 1
  MaxFaults = 0
  MaxClears = 0
SPECIFICATION FairSpec
CHECK_DEADLOCK FALSE
PROPERTIES
  ExpectedWorkerRuns
