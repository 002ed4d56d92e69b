CONSTANTS
    ann = ann
    bob = bob
    r1 = r1
    r2 = r2
    Node = {ann, bob, r1, r2}
    Seeker <- Users
    Nonce <- AnnAnswers
    Hour = {1}
    TtlMax = 3
    RouteMax = 3
    Network <- TwoNetworks
    None = None
SPECIFICATION FairSpec
INVARIANTS
    RoutesLead
    OneRoute
PROPERTIES
    TheyMeet
    NobodyHangs
CHECK_DEADLOCK FALSE
