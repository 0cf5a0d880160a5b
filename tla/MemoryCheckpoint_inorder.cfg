SPECIFICATION FairSpec
CONSTANTS
    Loops = {l1, l2}
    Owner = Owner
    MaxVersion = 3
    MaxRequests = 2
    MaxGen = 3
    MaxFaults = 1
    InOrder = TRUE
    QuietResets = TRUE
CHECK_DEADLOCK FALSE
INVARIANT FlushedIsDurable
INVARIANT NewestIsDurable
PROPERTY StaleNeverWins
PROPERTY PendingIsTaken
