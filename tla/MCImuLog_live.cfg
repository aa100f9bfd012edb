\* Two stopping threads, failing flash writes, no reset; under fairness.
CONSTANTS
    MaxSessions = 2
    RecCapacity = 2
    StageN = 1
    BatchRecs = 1
    DirRefreshRecs = 2
    RecSize = 2
    Word = 6
    FlashMayFail = TRUE
    MaxRec = 4
    MaxSeq = 2
    MaxDrop = 0
    MaxCrash = 0
SPECIFICATION FairSpec
INVARIANTS
    ListTruthful
PROPERTIES
    CommandsFinish
