\* Two settings, every command, a queue of two, three writes over one connection.
CONSTANTS
    c1 = c1
    c2 = c2
    Configs = {c1, c2}
    QueueDepth = 2
    HostCommands = {"stop", "start", "detached", "erase", "volt"}
    MayFail = TRUE
    MaxWrites = 3
    MaxLinks = 1
SYMMETRY ConfigSymmetry
SPECIFICATION Spec
INVARIANTS
    TypeOK
    AppliedIsCurrent
    SensorFollowsUpdates
    SettledSessionEndsWithLink
PROPERTIES
    DetachedSurvives
CHECK_DEADLOCK FALSE
