CONSTANTS
    p1 = p1
    p2 = p2
    Partitions = {p1}
    Log <- OneLog
    Poison <- OnePoison
    Outputs <- OneOutput
    Panics <- OnePanic
    Broken = {}
    MaxInFlight = 2
    MaxQueue = 2
SPECIFICATION Spec
INVARIANT TypeOK
INVARIANT ReadIsSettledOrPending
PROPERTY ImplementsAtLeastOnce
PROPERTY FirstApplicationInOrder
