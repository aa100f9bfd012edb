\* A three-cell ring, two slots, three sessions per epoch, one reset.
CONSTANTS
    MaxSessions = 2
    RecCapacity = 3
    StageN = 2
    BatchRecs = 2
    DirRefreshRecs = 3
    RecSize = 2
    Word = 16
    FlashMayFail = FALSE
    MaxRec = 5
    MaxSeq = 3
    MaxDrop = 1
    MaxCrash = 1
SPECIFICATION Spec
INVARIANTS
    TypeOK
    SurvivorsIntact
    SessionsDisjoint
    OnlyRunningOpen
    LossBounded
PROPERTIES
    DropJustified
    CatalogueSpec
