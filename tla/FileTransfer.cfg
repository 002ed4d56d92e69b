SPECIFICATION FairSpec
CONSTANTS
    a = a
    b = b
    f1 = f1
    f2 = f2
    None = None
    Party = {a, b}
    Transfer = {f1, f2}
    From <- Callers
    Size <- Sizes
    CHUNK_SIZE = 2
    MAX_FILE_SIZE = 3
    RelayCapacity = 1
    DirectCapacity = 1
INVARIANTS
    ReceivedWhole
    NothingLingers
PROPERTIES
    SendsEndTruly
CHECK_DEADLOCK FALSE
