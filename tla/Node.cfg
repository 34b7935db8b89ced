SPECIFICATION Spec
CONSTANTS
    Clients <- TwoClients
    Requests <- RpcRequests
    ArchiveModes = {TRUE, FALSE}
    CreateOutcomes = {TRUE, FALSE}
    VerifyOutcomes = {TRUE, FALSE}
    MaxSwitches = 2
    P2PEnabled = {TRUE, FALSE}
    RPCEnabled = {TRUE, FALSE}
    Nil = Nil
CHECK_DEADLOCK FALSE
INVARIANTS
    TypeOK
    AcknowledgedAreSubmitted
    NothingSubmittedInArchiveMode
    RpcServesOnlyWhileOgRuns
