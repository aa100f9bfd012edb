\* The same store, on a flash whose writes do not fail.
CONSTANTS
    NumIds = 2
    MaxValue = 2
    Registries <- MCRegistries
    FlashMayFail = FALSE
    MaxSets = 3
    MaxCrash = 1
SPECIFICATION Spec
INVARIANTS
    PowerCutSafe
CHECK_DEADLOCK FALSE
