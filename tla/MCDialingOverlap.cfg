SPECIFICATION Spec
CONSTANTS
    alice = alice
    bob = bob
    Clients = {alice, bob}
    Calls = {k1}
    IntentMax = 2
    MaxRound = 2
    MaxSeed = 1
    DialRound <- EarlyRounds
    Callers = {alice}
    Removers = {}
    Readers = {alice}
    Punctual = FALSE
    MaxCrashes = 1
    MaxFailures = 0
    Nil = Nil
INVARIANTS
    SessionKeysAgree TokenMatchesCall
CHECK_DEADLOCK FALSE
