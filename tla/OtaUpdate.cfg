CONSTANTS
    Files <- MCFiles
    SigLen = 2
    BUF_SIZE = 3
    SectorLen = 2
    SlotLen = 5
    Erased = 1000
    Corrupted = 0
    Overwritten = 5000
SPECIFICATION FairSpec
INVARIANTS
    TypeOK
    CommitsServedImage
    ProgrammedOnce
    UndamagedNotRefused
PROPERTIES
    RunningImageUntouched
    UpdatesFirmware
    UpdateEnds
