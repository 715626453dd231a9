SPECIFICATION FairSpec
CONSTANTS
    c1 = c1
    m1 = m1
    m2 = m2
    Clients = {c1}
    Mixers = {m1, m2}
    Service = "AddFriend"
    MaxRound = 2
    MaxMixing = 2
    MaxFailures = 1
    MaxCrashes = 1
    TTL = 1
    MaxTime = 1
INVARIANTS
    RoundIsFresh MailboxIsKept OnTimeIsServed
CHECK_DEADLOCK FALSE
PROPERTIES
    MixAnswered
