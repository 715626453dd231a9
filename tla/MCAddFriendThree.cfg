SPECIFICATION Spec
CONSTANTS
    alice = alice
    bob = bob
    carol = carol
    Clients = {alice, bob, carol}
    MaxRound = 2
    DialRounds = {0}
    Budget <- TwoFriends
    Overlap = TRUE
    Removers = {}
    MaxCrashes = 1
    MaxSaves = 0
    MaxFailures = 0
    Nil = Nil
INVARIANTS
     Consent RequestConserved
CHECK_DEADLOCK FALSE
