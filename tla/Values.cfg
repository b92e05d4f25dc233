SPECIFICATION Spec
CONSTANTS
    NsPerMs = 2
    MsPerSec = 8
    Radix = 2
    TimeMax = 3
    GmTimeMax = 2
    YearMax = 1
    UtcOffsets = {0, 1}
INVARIANTS IInv ReadersAgree
PROPERTIES NotRefused Kept TornRefused
CHECK_DEADLOCK FALSE
