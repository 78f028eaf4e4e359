SPECIFICATION Spec
CONSTANTS
    w1 = w1
    w2 = w2
    t1 = t1
    t2 = t2
    Gpu = Gpu
    None = None
    Workers = {w1}
    Tasks = {t1, t2}
    Children = {t2}
    Fits <- FitAway
    SlowRedis = TRUE
    MaxClaims = 3
    MaxStarts = 3
CHECK_DEADLOCK FALSE
INVARIANTS
    ClaimOwnsTask
    ClaimIsRecoverable
    PendingIsQueued
    ExecutionIsFenced
PROPERTIES
    NoStartAfterFence
