SPECIFICATION FairSpec
CONSTANTS
    Replicas <- FourReplicas
    Payloads = {p1}
    Proposable = {p1}
    MaxRound = 2
    TimerRounds = {0}
    Byzantine = {3}
    ByzantineKinds = {}
    ByzantineTricks = {}
    Outsider = Outsider
    Stoppable = {}
    VerifyOutcomes = {TRUE}
    SignOutcomes = {TRUE}
    Nil = Nil
    Empty = Empty
CHECK_DEADLOCK FALSE
PROPERTIES
    RunningReplicasReachTheLastRound
