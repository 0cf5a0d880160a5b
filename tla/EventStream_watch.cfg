SPECIFICATION FairSpec
CONSTANTS
    MaxSeq = 2
    MaxRuns = 2
    Capacity = 2
    Page = 1
    MaxAttempts = 2
    MaxFaults = 1
CHECK_DEADLOCK FALSE
INVARIANT MissesOnlyTheWindow
 
INVARIANT RunningIsReachable
 
