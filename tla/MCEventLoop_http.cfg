SPECIFICATION FairSpec
CONSTANTS
    NoClient = NoClient
    Fd = {5, 6, 7}
    SftClient = {s1}
    HttpClient = {h1}
    HangUps = {"fin"}
    Backwards = FALSE
    MaxTicks = 0
INVARIANTS
    ResumeSafe
PROPERTIES
    HangupReleased
    EveryConnectionAccepted
CHECK_DEADLOCK FALSE
