CONSTANTS
    c1 = c1
    c2 = c2
    c3 = c3
    c4 = c4
    Cmds = {c1, c2, c3}
    Op <- Ops
    Size <- Sizes
    Linked <- Chains
    Bad <- Rejects
    MaxBatch = 3
    MaxQueue = 2
SPECIFICATION Spec
CHECK_DEADLOCK FALSE
INVARIANT TypeOK
INVARIANT ExactlyOneAnswer
INVARIANT ClosedIsHonest
INVARIANT OrderWhileRunning
INVARIANT BatchWellFormed
INVARIANT BatchingTransparent
