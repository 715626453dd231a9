SPECIFICATION FairSpec
CONSTANTS
    g1 = g1
    g2 = g2
    c1 = c1
    Guardians = {g1, g2}
    Clients = {c1}
    MaxConfigs = 3
    MaxTime = 2
    MaxFailures = 1
INVARIANTS
    ChainOfTrust NoFork
PROPERTIES
    OnlyForward Converges
CHECK_DEADLOCK FALSE
