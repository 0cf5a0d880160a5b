SPECIFICATION FairSpec
CONSTANTS
    Rows = {1,2}
    NoRow = NoRow
    Workers = {w1, w2}
    Chunks = 2
    MaxAttempts = 2
    Claim = 1
    Retry = 1
    MaxLosses = 1
CHECK_DEADLOCK FALSE
INVARIANT LiveClaimIsExclusive
INVARIANT ChunksInOrder
 
PROPERTY ImplementsOutbox
