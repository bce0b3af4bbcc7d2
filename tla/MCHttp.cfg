SPECIFICATION FairSpec
CONSTANTS
    Requests <- MCRequests
    MaxRequests = 2
    Window = 2
INVARIANTS
    TypeOK
    Framed
    NeverUnasked
    OnlyOddRangesSpin
    ClosedForCause
    BlocksOwingNothing
PROPERTIES
    Answered
CHECK_DEADLOCK FALSE
