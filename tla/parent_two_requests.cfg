SPECIFICATION Spec
CONSTANTS
    r1 = r1
    r2 = r2
    hA = hA
    hB = hB
    Requests = {r1, r2}
    Hashes = {hA}
    LastStage = 1
    Deletable = {}
SYMMETRY Symmetry
CHECK_DEADLOCK FALSE
INVARIANTS
    FirstCommitWins
    ActiveIsFollowed
    AnswerIsTheOutcome
    PendingChildHasParent
