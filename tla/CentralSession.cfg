SPECIFICATION FairSpec
CONSTANTS
    l1 = l1
    l2 = l2
    r1 = r1
    o1 = o1
    Task <- MCTask
    Kind <- MCKind
    Settings <- MCSettings
    None = None
INVARIANTS
    OneSession
PROPERTIES
    LogoutLeavesNothing
    EveryCallEnds
