\* A ring that wraps, two sessions and one reset.
CONSTANTS
    MaxSessions = 2
    RecCapacity = 3
    StageN = 2
    BatchRecs = 2
    DirRefreshRecs = 3
    RecSize = 2
    Word = 16
    FlashMayFail = FALSE
    MaxRec = 6
    MaxSeq = 3
    MaxDrop = 1
    MaxCrash = 1
SPECIFICATION Spec
INVARIANTS
    ListTruthful
