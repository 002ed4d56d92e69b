SPECIFICATION FairSpec
CONSTANTS
    a = a
    b = b
    Party = {a, b}
    None = None
    Settings <- Surroundings
    Addresses = {1, 2, 3}
    MaxOffers = 3
INVARIANTS
    GraceKeepsTogether
PROPERTIES
    NothingHangs
    DirectIsRetried
CHECK_DEADLOCK FALSE
