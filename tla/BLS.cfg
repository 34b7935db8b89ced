SPECIFICATION Spec
CONSTANTS
    Holders <- TwoHolders
    Msgs <- TwoMsgs
    Order = 5
    Digest <- Digests
    MaxWire = 6
    MaxBatch = 2
    One = One
    Bad = Bad
    Nil = Nil
INVARIANTS
    TypeOK
    AggregatesVerify
    ForgeryNeedsASignature
