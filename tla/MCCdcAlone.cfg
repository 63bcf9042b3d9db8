CONSTANTS
    i1 = i1
    i2 = i2
    a = a
    b = b
    Instances = {i1}
    Events = {1, 2, 3, 4}
    Parts = {a, b}
    Route <- Alternating
    BatchSize = 3
    MaxTimestamp = 5
    Source = "prefix"
    Overrides = {}
    MaxGhosts = 0
    Obscurable = {}
SPECIFICATION FairSpec
PROPERTY CursorNeverRegresses
PROPERTY EveryEventPublished
