SPECIFICATION FairSpec
CONSTANTS
    Hashes <- Graph
    Parents <- GraphParents
    Sequencers <- GraphSequencers
    WellFormed <- GraphWellFormed
    InDag <- Dag
    Callers <- TwoCallers
    Batches <- SyncBatches
    MaxBufferSiza = 2
    MaxCalls = 3
    MayStop = TRUE
    Nil = Nil
INVARIANTS
    TypeOK
    BufferWithinBound
    AddedOnce
    LastParentFirst
PROPERTIES
    WaitingCallersGetOn
CHECK_DEADLOCK FALSE
