CONSTANTS
    Files <- MCFiles
    SigLen = 2
    SectorLen = 3
    SlotLen = 6
    Erased = 1000
    Corrupted = 1
    Overwritten = 5000
    BlockLen = 3
    Pad = 2
    ZeroBlock = 3
    AlteredLens = {0, 6, 9}
    MaxFaults = 2
SPECIFICATION FairSpec
INVARIANTS
    TypeOK
    StaysInImage
    UnharmedNotRefused
PROPERTIES
    UpdatesFirmware
    TransferEnds
\* A device that has erased its own firmware stops for good.
CHECK_DEADLOCK FALSE
