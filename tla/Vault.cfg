CONSTANTS
    old = old
    new = new
    Password = {old, new}
    Migrations <- MCMigrations
    Diverged = 3
    WipeEnabled = TRUE
    Threshold = 2
    MaxSalts = 3
    MaxCrashes = 2
    NoFile = NoFile
    Zeroed = Zeroed
SYMMETRY Interchangeable
SPECIFICATION Spec
INVARIANTS
    StrandedOnlyByTheseCrashes
    SchemaComplete
    GuessesLimited
CHECK_DEADLOCK FALSE
