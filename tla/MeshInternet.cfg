SPECIFICATION FairSpec
CONSTANTS
    hub = hub
    second = second
    third = third
    plain = plain
    Url = {hub, second, third, plain}
    PEERS_MAX = 2
    ValidUrl = {hub, second, third}
    Settings <- MCSettings
    LINKS = 2
    FirstPause = 1
    LastPause = 3
    FloatLimit = 5
    DialTime = 2
    GreetTime = 1
    CloseTime = 1
    KnownMax = 4
    MaxRuns = 2
INVARIANTS
    NoStrayLink
    NothingUnlearned
PROPERTIES
    BacksOff
    AnswersAreReached
CHECK_DEADLOCK FALSE
