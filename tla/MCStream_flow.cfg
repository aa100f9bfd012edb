\* A FIFO of two, packets of two, two subscriptions; counters about to wrap.
CONSTANTS
    FifoN = 2
    PktMax = 2
    CallMax = 2
    MsgN = 1
    Credits = 1
    CounterMod = 8
    Start = 7
    MaxSamples = 3
    MaxSubs = 2
    MaxMsgs = 1
SPECIFICATION FairSpec
INVARIANTS
    TypeOK
    StreamInOrder
    LossReported
PROPERTIES
    StreamFlows
