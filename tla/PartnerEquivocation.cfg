SPECIFICATION Spec
CONSTANTS
    Replicas <- FourReplicas
    Payloads = {p1, p2}
    Proposable = {p1}
    MaxRound = 2
    TimerRounds = {}
    Byzantine = {2}
    ByzantineKinds = {"Proposal", "Vote", "String"}
    ByzantineTricks = {}
    Outsider = Outsider
    Stoppable = {}
    VerifyOutcomes = {TRUE}
    SignOutcomes = {TRUE}
    Nil = Nil
    Empty = Empty
CHECK_DEADLOCK FALSE
INVARIANTS
    TypeOK
    OneCertifiedBlockPerRound
    VotesAreForTheLeadersBlock
