CONSTANTS
    c1 = c1
    c2 = c2
    p1 = p1
    p2 = p2
    Consumers = {c1}
    Partitions = {p1, p2}
    Log <- TwoLogs
SPECIFICATION FairSpec
INVARIANT TypeOK
INVARIANT NoLoss
INVARIANT NothingStranded
INVARIANT TrackedAboveCommitted
INVARIANT LagIsBacklog
PROPERTY ImplementsAtLeastOnce
PROPERTY EventuallyDrained
