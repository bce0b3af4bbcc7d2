SPECIFICATION FairSpec
CONSTANTS
    Sizes = {0, 1, 3, 4, 7}
    Max = 4
    Stop = 1
    Window = 2
INVARIANTS
    TypeOK
    NothingLost
    EveryByteInPlace
    SuccessMeansFetched
    BlocksOwingNothing
PROPERTIES
    DownloadEnds
    Delivers
CHECK_DEADLOCK FALSE
