SPECIFICATION Spec
CONSTANTS
    Replicas <- FourReplicas
    Payloads = {p1}
    Proposable = {p1}
    MaxRound = 3
    TimerRounds = {1}
    Byzantine = {2}
    ByzantineKinds = {"Proposal", "Timeout"}
    ByzantineTricks = {}
    Outsider = Outsider
    Stoppable = {}
    VerifyOutcomes = {TRUE}
    SignOutcomes = {TRUE}
    Nil = Nil
    Empty = Empty
INVARIANTS
    Agreement
