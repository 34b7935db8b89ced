SPECIFICATION Spec
CONSTANTS
    TxTypes <- ThreeTypes
    ConfirmBatches <- TwoBatches
    MaxEvents = 3
    MaxStops = 2
INVARIANTS
    TypeOK
    EveryTxIsCounted
    BenchmarksAreRecent
CHECK_DEADLOCK FALSE
