SPECIFICATION Spec
CONSTANTS
    c1 = c1
    k1 = k1
    k2 = k2
    k3 = k3
    k4 = k4
    None = None
    Callers = {c1}
    Kids = {k1, k2, k3, k4}
    PoolSize = 2
    MaxFailures = 2
    MaxGen = 2
SYMMETRY KidSymmetry
CHECK_DEADLOCK FALSE
PROPERTIES
    OrdinaryEndIsContained
