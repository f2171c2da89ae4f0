SPECIFICATION Spec
CONSTANTS
    MsgIds = {2, 3, 4, 5, 6, 7, 8, 9}
    IdsPerSecond = 2
    StoredMax = 2
    SkewAhead = 1
    SkewBehind = 1
    MaxBreaches = 3
    MaxDelay = 1
    MaxTime = 4
INVARIANTS
    NoReplay
    DeafnessBounded
    ReplayInv
