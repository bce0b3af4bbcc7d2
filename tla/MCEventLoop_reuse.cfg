SPECIFICATION Spec
CONSTANTS
    NoClient = NoClient
    Fd = {5, 6, 7}
    SftClient = {s1}
    HttpClient = {h1}
    HangUps = {"fin"}
    Backwards = TRUE
    MaxTicks = 0
INVARIANT OwnSession
CHECK_DEADLOCK FALSE
