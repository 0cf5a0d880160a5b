SPECIFICATION Spec
CONSTANTS
    Tasks = {t1, t2, t3}
    NoTask = NoTask
    Runs = {r1, r2, r3}
    NoRun = NoRun
    Overlap = FALSE
    Interleave = FALSE
    MaxFaults = 1
    MaxRestarts = 1
SYMMETRY Symmetry
CHECK_DEADLOCK FALSE
 
INVARIANT CancelStopsTheRun
INVARIANT NeverStuck
 
