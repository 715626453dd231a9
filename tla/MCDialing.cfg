SPECIFICATION Spec
CONSTANTS
    alice = alice
    bob = bob
    Clients = {alice, bob}
    Calls = {k1}
    IntentMax = 1
    MaxRound = 2
    MaxSeed = 2
    DialRound <- EarlyRounds
    Callers = {alice}
    Removers = {alice}
    Readers = {}
    Punctual = TRUE
    MaxCrashes = 1
    MaxFailures = 1
    Nil = Nil
INVARIANTS
    NoGhostCall  ForwardSecret
CHECK_DEADLOCK FALSE
