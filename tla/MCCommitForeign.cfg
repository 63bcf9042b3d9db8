CONSTANTS
    c1 = c1
    c2 = c2
    p1 = p1
    p2 = p2
    Consumers = {c1, c2}
    Partitions = {p1}
    Log <- ShortLog
SPECIFICATION Spec
PROPERTY CommitsOwnPartitions
