SPECIFICATION Spec
CONSTANTS
    Replicas <- FourReplicas
    Payloads = {p1}
    Proposable = {p1}
    MaxRound = 1
    TimerRounds = {0}
    Byzantine = {}
    ByzantineKinds = {}
    ByzantineTricks = {}
    Outsider = Outsider
    Stoppable = {3}
    VerifyOutcomes = {TRUE, FALSE}
    SignOutcomes = {TRUE, FALSE}
    Nil = Nil
    Empty = Empty
INVARIANTS
    RoundsAreEnteredByCertificate
PROPERTIES
    VoteRecordIsImplemented
