CONSTANTS
    Page = 16
    Wrap = 65536
    FlashSize = 48
    ImageLen = 33
    MaxLen = 33
SPECIFICATION FairSpec
INVARIANTS
    TypeOK
    BytesInPlace
PROPERTY CallsReturn
