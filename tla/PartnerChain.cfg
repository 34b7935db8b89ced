SPECIFICATION Spec
CONSTANTS
    Replicas <- FourReplicas
    Payloads = {p1}
    Proposable = {p1}
    MaxRound = 3
    TimerRounds = {}
    Byzantine = {2}
    ByzantineKinds = {"Proposal"}
    ByzantineTricks = {}
    Outsider = Outsider
    Stoppable = {}
    VerifyOutcomes = {TRUE}
    SignOutcomes = {TRUE}
    Nil = Nil
    Empty = Empty
INVARIANTS
    HeldQCsAreBacked
    AgreementWithoutTimeouts
PROPERTIES
    VotesAreForTheCurrentRound
    VoteRecordIsImplemented
