SPECIFICATION FairSpec
CONSTANTS
    Made <- MCMade
    Invited = {3}
    Pictured = {1}
    AtFirst <- MCAtFirst
    Settings <- MCSettings
    None = None
INVARIANTS
    GoesWhereMeant
    ShownIsOpen
PROPERTIES
    FetchesSettle
