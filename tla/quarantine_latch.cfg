CONSTANTS
  w1 = w1
  w2 = w2
  process = process
  monitor = monitor
  operator = operator
  Workers = {w1, w2}
  Agents = {process, monitor}
  WorkerOf <- TwoWorkers
  Monitors = {monitor}
  Blind = {monitor}
  Operator = operator
  MaxEvents = 2
  MaxAttempts = 1
  MaxFaults = 1
SPECIFICATION Spec
INVARIANTS
  ClearedStaysCleared
  AdmissionIsClosed
  OnePagePerGeneration
