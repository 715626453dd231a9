SPECIFICATION FairSpec
CONSTANTS
    N = 2
    Batches <- SmallBatches
    NumMailboxes = 1
    NoiseCounts <- SmallNoise
    MaxFailures = 1
    Nil = Nil
INVARIANTS
    NoiseIsIncluded RepliesMatch
PROPERTIES
    KeepsPromise RoundEnds
CHECK_DEADLOCK FALSE
