CONSTANTS
    MaxAttempts = 2
    MaxSignals = 1
    UsesDirect = TRUE
    None = None
SPECIFICATION FairSpec
INVARIANTS
    RegisteredLives
PROPERTIES
    WaitEnds
CHECK_DEADLOCK FALSE
