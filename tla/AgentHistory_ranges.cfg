SPECIFICATION HistorySpec
CONSTANTS
    MaxMessages = 7
    MaxIds = 5
    MaxCalls = 2
    MinUserTurns = 2
    OpenRefs = FALSE
    AnySets = FALSE
CHECK_DEADLOCK FALSE
 
INVARIANT NothingForgotten
 
