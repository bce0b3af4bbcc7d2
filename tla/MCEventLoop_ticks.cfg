SPECIFICATION Spec
CONSTANTS
    NoClient = NoClient
    Fd = {5, 6, 7}
    SftClient = {s1}
    HttpClient = {h1}
    HangUps = {"fin", "rst"}
    Backwards = TRUE
    MaxTicks = 2
INVARIANT Tracked
CHECK_DEADLOCK FALSE
