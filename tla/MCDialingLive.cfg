SPECIFICATION FairSpec
CONSTANTS
    alice = alice
    bob = bob
    Clients = {alice, bob}
    Calls = {k1, k2}
    IntentMax = 1
    MaxRound = 3
    MaxSeed = 1
    DialRound <- EarlyRounds
    Callers = {alice}
    Removers = {}
    Readers = {alice}
    Punctual = TRUE
    MaxCrashes = 0
    MaxFailures = 0
    Nil = Nil
PROPERTIES
    CallDelivered
CHECK_DEADLOCK FALSE
