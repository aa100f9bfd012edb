\* Two sessions of three units, chunks of two, two dumps and one resume each.
CONSTANTS
    s1 = s1
    s2 = s2
    Sessions = {s1, s2}
    Newest = s2
    Length = 3
    Chunk = 2
    Credits = 1
    MaxResumes = 1
    MaxDumps = 2
    MaxLinks = 2
SPECIFICATION FairSpec
INVARIANTS
    TypeOK
    HostHasSession
PROPERTIES
    EraseLosesNothing
    DumpListens
CHECK_DEADLOCK FALSE
