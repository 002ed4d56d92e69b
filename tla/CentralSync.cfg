CONSTANTS
    Scenario <- MCScenarios
    PageLimit = 1
SPECIFICATION FairSpec
INVARIANTS
    NothingSkipped
    
PROPERTIES
    PostsArrive
CHECK_DEADLOCK FALSE
