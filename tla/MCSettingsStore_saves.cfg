\* Two settings, four changes, two restarts, flash writes that may fail.
CONSTANTS
    NumIds = 2
    MaxValue = 2
    Registries <- MCRegistries
    FlashMayFail = TRUE
    MaxSets = 4
    MaxCrash = 2
SPECIFICATION FairSpec
INVARIANTS
    TypeOK
    NothingInvented
    DurableUnlessExposed
PROPERTIES
    ChangesSaved
CHECK_DEADLOCK FALSE
