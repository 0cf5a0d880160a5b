SPECIFICATION FairSpec
CONSTANTS
    NumJobs = 3
    MaxJobs = 2
    Spawners = {s1, s2}
    Waiters = {w1}
    Browser = FALSE
CHECK_DEADLOCK FALSE
INVARIANT SlotsBoundTasks
INVARIANT NoLostWakeup
PROPERTY FinalStays
PROPERTY AllSettle
