SPECIFICATION Spec
CONSTANTS
    NoClient = NoClient
    Fd = {5, 6, 7}
    SftClient = {s1, s2, s3}
    HttpClient = {}
    HangUps = {"fin", "rst"}
    Backwards = FALSE
    MaxTicks = 0
SYMMETRY ClientSymmetry
INVARIANTS
    TypeOK
    ResumeSafe
    HoldsItsFile
    OwnSession
CHECK_DEADLOCK FALSE
