SPECIFICATION FairSpec
CONSTANTS
    w1 = w1
    w2 = w2
    t1 = t1
    t2 = t2
    Gpu = Gpu
    None = None
    Workers = {w1}
    Tasks = {t1, t2}
    Children = {}
    Fits <- FitAway
    SlowRedis = FALSE
    MaxClaims = 2
    MaxStarts = 2
CHECK_DEADLOCK FALSE
PROPERTY ClaimIsResolved
