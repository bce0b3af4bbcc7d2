SPECIFICATION FairSpec
CONSTANTS
    Sizes = {0, 1, 3, 4, 7}
    Max = 4
    Stop = 1
    Window = 3
    Afters = {"close", "get", "stay"}
INVARIANTS
    TypeOK
    NothingLost
    StoredWasSent
    CompleteIsStored
    BlocksOwingNothing
PROPERTIES
    UploadCompletes
    Delivers
CHECK_DEADLOCK FALSE
