CONSTANTS
    LastBlock = 3
    RetryNum = 3
    MaxCalls = 2
    MaxFaults = 4
SPECIFICATION FairSpec
INVARIANTS
    TypeOK
    BlocksInOrder
    LosslessSucceeds
PROPERTY TransfersEnd
