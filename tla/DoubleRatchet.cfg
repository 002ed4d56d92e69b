\* Four messages each way; limits small enough for refused gaps and evicted keys.
CONSTANTS
    MAX_SKIP = 2
    MAX_SKIP_SESSION = 1
    MaxSeals = 4
SPECIFICATION Spec
INVARIANTS
    TypeOK
    AtMostOnce
    SealKeysUnique
    RootsInStep
    RecentMessagesOpen
    StoredIsResumed
PROPERTIES
    ImplementsChannel
