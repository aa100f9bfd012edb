\* Two caps, a halving, a drop too many at two, a counter that wraps at three.
CONSTANTS
    Settings <- TwoCaps
    DefaultHz = 833
    DropLimit = 1
    MaxShift = 1
    CalmStep = 1
    CalmMax = 2
    ProbeMemory = 2
    DropMod = 3
    MaxBurst = 2
SPECIFICATION FairSpec
INVARIANTS
    TypeOK
    LinkFitsWork
    
PROPERTIES
    Recovers
