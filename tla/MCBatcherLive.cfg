CONSTANTS
    c1 = c1
    c2 = c2
    c3 = c3
    c4 = c4
    Cmds = {c1, c3, c4}
    Op <- Ops
    Size <- Sizes
    Linked <- Chains
    Bad <- Rejects
    MaxBatch = 3
    MaxQueue = 1
SPECIFICATION FairSpec
CHECK_DEADLOCK FALSE
PROPERTY EveryoneAnswered
PROPERTY CloseReturns
