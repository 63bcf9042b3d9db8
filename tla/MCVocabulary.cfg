CONSTANTS
    MaxSmall = 127
    MaxBig = 16383
    MaxScale = 2
    TopScale = 2
    MaxTimeout = 3
    TBMaxBatch = 3
    TBMaxEvents = 2
    DefaultInFlight = 4
    ScratchSize = 2
    MaxPool = 2
    Buffers = {1, 2, 3, 4, 5, 6, 7, 8, 9, 10, 11, 12}
    Configs <- AllConfigs
    Samples <- FewPayloads
    Usual <- Good
    Payloads <- AllPayloads
    Windows <- AllWindows
SPECIFICATION Spec
CHECK_DEADLOCK FALSE
INVARIANT TypeOK
INVARIANT OldConfigLoads
INVARIANT CommandFits
INVARIANT AmountExact
INVARIANT DepthExact
INVARIANT OneVocabulary
INVARIANT BodiesIntact
