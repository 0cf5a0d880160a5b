SPECIFICATION FairSpec
CONSTANTS
    Messages = {1,2}
    Tokens = {0,1,2}
    MaxIterations = 3
    ContinuationLimit = 1
    MaxMalformed = 2
    MaxRePrompts = 1
    Drafts = FALSE
    SlowProgress = FALSE
    Overlap = FALSE
    NoFlow = NoFlow
CHECK_DEADLOCK FALSE
 
INVARIANT AnswerCoversAccepted
INVARIANT FinalMeansDone
INVARIANT CancelReachesRun
 
