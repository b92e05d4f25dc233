SPECIFICATION Spec
CONSTANTS
    NsPerMs = 2
    MsPerSec = 8
    Radix = 2
    TimeMax = 3
    GmTimeMax = 2
    YearMax = 1
    UtcOffsets = {0, 1}
INVARIANT FitsPackedMax
CHECK_DEADLOCK FALSE
