SPECIFICATION CSpec
CONSTANTS
    F16 <- MC16
    F32 <- MC32
    F64 <- MC64
    I32 = 10
    I64 = 15
    FB = 4
    Operands <- MCOperands
    RmFields <- MCRmFields
    Follows <- MCFollows
    Arguments <- MCArguments
    CallModes <- MCCallModes
    ResumesCall <- MCResumesCall
INVARIANTS
    ContextSaved
    DirtyIsSummarized
    CallsAreExact
PROPERTY ImplementsIeee
CHECK_DEADLOCK FALSE
