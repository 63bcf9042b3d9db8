CONSTANTS
    p1 = p1
    p2 = p2
    Partitions = {p1, p2}
    Log <- TwoLogs
    Poison <- NoRecord
    Outputs <- TwoOutputs
    Panics <- NoRecord
    Broken <- OneRefused
    MaxInFlight = 1
    MaxQueue = 1
SPECIFICATION FairSpec
PROPERTY OthersCommit
