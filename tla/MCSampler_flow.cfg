\* A ring of one, a look at every second sample, warnings every two rounds.
CONSTANTS
    RingN = 1
    PollInterval = 2
    WarnEvery = 2
    MaxConfigs = 4
    MaxDrops = 2
SPECIFICATION FairSpec
INVARIANTS
    TypeOK
    LossesTold
PROPERTIES
    SamplesFlow
    NeverSilentlyStarved
