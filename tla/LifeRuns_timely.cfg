SPECIFICATION FairSpec
CONSTANTS
    Inputs = {1,2}
    Runs = {r1, r2}
    NoRun = NoRun
    Lease = 2
    Heartbeat = 1
    Timely = TRUE
    WebWakes = TRUE
    OwnerCancels = TRUE
    LoadFaults = FALSE
    OwnerWipes = FALSE
CHECK_DEADLOCK FALSE
INVARIANT LiveTaskKeepsItsRun
INVARIANT ExecutorsOverlapOnlyByCancel
INVARIANT ConsumedForAReason
 
 
PROPERTY QueueDrains
