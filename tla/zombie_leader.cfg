SPECIFICATION Spec
CONSTANTS
    a = a
    b = b
    p1 = p1
    p2 = p2
    p3 = p3
    Outer = Outer
    None = None
    Handles = {a, b}
    Pids = {p1, p2, p3}
    MaxBorn = 3
    MaxMisses = 1
SYMMETRY Alike
CHECK_DEADLOCK FALSE
INVARIANT CrashIsAudited
