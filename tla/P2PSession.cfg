CONSTANTS
    left = left
    right = right
    Party = {left, right}
    MAX_SKIP = 10
    MAX_SKIP_SESSION = 20
    MaxTexts = 2
    MaxLinks = 3
    MaxCrashes = 1
    Faults = {"session"}
    NoState = NoState
SYMMETRY Interchangeable
SPECIFICATION Spec
INVARIANTS
    InOrderAtMostOnce
    StoredRootsInStep
    NextMessageOpens
CHECK_DEADLOCK FALSE
