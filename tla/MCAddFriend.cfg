SPECIFICATION Spec
CONSTANTS
    alice = alice
    bob = bob
    carol = carol
    Clients = {alice, bob}
    MaxRound = 4
    DialRounds = {0, 1, 2}
    Budget <- OneRequest
    Overlap = FALSE
    Removers = {alice, bob}
    MaxCrashes = 0
    MaxSaves = 1
    MaxFailures = 1
    Nil = Nil
INVARIANTS
    KeysAgree FriendHasKey 
CHECK_DEADLOCK FALSE
