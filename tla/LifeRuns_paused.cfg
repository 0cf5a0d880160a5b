SPECIFICATION Spec
CONSTANTS
    Inputs = {1,2}
    Runs = {r1, r2}
    NoRun = NoRun
    Lease = 2
    Heartbeat = 1
    Timely = FALSE
    WebWakes = TRUE
    OwnerCancels = TRUE
    LoadFaults = TRUE
    OwnerWipes = TRUE
SYMMETRY RunSymmetry
CHECK_DEADLOCK FALSE
INVARIANT AtMostOneRunning
INVARIANT CompletedIsAnswered
PROPERTY OutcomeIsFinal
