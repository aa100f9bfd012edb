\* Two slots, counters that wrap at four, six samples, any earlier run.
CONSTANTS
    RingN = 2
    CounterMod = 4
    Chunk = 1
    MaxSamples = 6
SPECIFICATION FairSpec
INVARIANTS
    TypeOK
PROPERTIES
    QueueSpec
    AllHanded
CHECK_DEADLOCK FALSE
