SPECIFICATION Spec
CONSTANTS
    Hashes <- Graph
    Parents <- GraphParents
    Sequencers <- GraphSequencers
    WellFormed <- GraphWellFormed
    InDag <- Dag
    Callers <- TwoCallers
    Batches <- SyncBatches
    MaxBufferSiza = 2
    MaxCalls = 3
    MayStop = TRUE
    Nil = Nil
INVARIANTS
    NoCallerBlockedForever
CHECK_DEADLOCK FALSE
