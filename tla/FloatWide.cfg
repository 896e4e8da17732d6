SPECIFICATION MSpec
CONSTANTS
    F16 <- MC16
    F32 <- MC32
    F64 <- MC64
    F128 <- MC128
    I32 = 2
    I64 = 7
    FB = 2
    GMulAdd = 3
    GSqrt = 3
    Drop64 = 2
    Drop32 = 4
    GExtDiv = 4
    GExtSqrt = 4
    HalfWord = 2
    LongestShift = 18
    Jobs <- MCJobs
    Globals <- MCGlobals
    Stored <- MCStored
    Target = "b"
INVARIANTS
    WideIsExact
    ExtIsExact
    WordsAgree
CHECK_DEADLOCK FALSE
