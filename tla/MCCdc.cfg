CONSTANTS
    i1 = i1
    i2 = i2
    a = a
    b = b
    Instances = {i1, i2}
    Events = {1, 2, 3}
    Parts = {a, b}
    Route <- Alternating
    BatchSize = 2
    MaxTimestamp = 3
    Source = "shuffled"
    Overrides = {2}
    MaxGhosts = 2
    Obscurable = {a}
SPECIFICATION Spec
SYMMETRY Interchangeable
INVARIANT TypeOK
INVARIANT NoGap
