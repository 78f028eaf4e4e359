SPECIFICATION Spec
CONSTANTS
    w1 = w1
    w2 = w2
    t1 = t1
    t2 = t2
    Gpu = Gpu
    None = None
    Workers = {w1}
    Tasks = {t1}
    Children = {}
    Fits <- FitAll
    SlowRedis = FALSE
    MaxClaims = 1
    MaxStarts = 2
CHECK_DEADLOCK FALSE
INVARIANT ProcessingIsClaimed
