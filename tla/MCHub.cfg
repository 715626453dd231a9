SPECIFICATION FairSpec
CONSTANTS
    Conns = {c1}
    QueueSize = 2
    MaxRound = 2
    MaxReplies = 1
    MaxGone = 1
    Nil = Nil
INVARIANTS
    NoPanic NothingIsMissed
PROPERTIES
    NothingIsHeldUp
CHECK_DEADLOCK FALSE
