SPECIFICATION Spec
CONSTANTS
    NoClient = NoClient
    Fd = {5, 6, 7}
    SftClient = {s1, s2}
    HttpClient = {h1}
    HangUps = {"fin", "rst"}
    Backwards = FALSE
    MaxTicks = 2
INVARIANT HoldsItsFile
CHECK_DEADLOCK FALSE
