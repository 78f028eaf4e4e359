CONSTANTS
  Limits <- MCLimits
  Trials = 5
  MinPasses = 1
  MaxGiven = 3
SPECIFICATION Spec
CHECK_DEADLOCK FALSE
INVARIANTS
  SkippedReferenceIsExcluded
