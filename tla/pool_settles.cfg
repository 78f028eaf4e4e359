SPECIFICATION FairSpec
CONSTANTS
    c1 = c1
    k1 = k1
    k2 = k2
    k3 = k3
    k4 = k4
    None = None
    Callers = {c1}
    Kids = {k1, k2, k3}
    PoolSize = 1
    MaxFailures = 2
    MaxGen = 2
CHECK_DEADLOCK FALSE
PROPERTIES
    RecoveryEnds
    PoolRefills
