SPECIFICATION Spec
CONSTANTS
    Loops = {l1, l2}
    Owner = Owner
    MaxVersion = 3
    MaxRequests = 2
    MaxGen = 3
    MaxFaults = 0
    InOrder = TRUE
    QuietResets = FALSE
CHECK_DEADLOCK FALSE
INVARIANT FlushedIsDurable
