SPECIFICATION FairSpec
CONSTANTS
    r1 = r1
    r2 = r2
    hA = hA
    hB = hB
    Requests = {r1}
    Hashes = {hA}
    LastStage = 2
    Deletable = {1, 2}
CHECK_DEADLOCK FALSE
PROPERTIES
    NoSuccessAfterFence
    EveryParentEnds
    EveryWaitEnds
