SPECIFICATION FairSpec
CONSTANTS
    NumJobs = 2
    MaxJobs = 2
    Spawners = {s1}
    Waiters = {w1}
    Browser = TRUE
CHECK_DEADLOCK FALSE
PROPERTY AllSettle
