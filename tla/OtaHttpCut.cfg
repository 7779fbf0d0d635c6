CONSTANTS
    Files <- MCFiles
    SigLen = 2
    BUF_SIZE = 3
    SectorLen = 2
    SlotLen = 5
    Erased = 1000
    Corrupted = 0
    Overwritten = 5000
    OTA2_ADDR = 6
    FlashLen = 12
    Unset = 65535
    Elsewhere = 4
    HeaderReads = 2
    CutHeaders = TRUE
SPECIFICATION FairSpec
INVARIANTS
    BootsCompleteImage
