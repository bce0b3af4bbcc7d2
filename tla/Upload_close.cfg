SPECIFICATION FairSpec
CONSTANTS
    Sizes = {2}
    Max = 4
    Stop = 1
    Window = 3
    Afters = {"close"}
INVARIANT SuccessMeansStored
CHECK_DEADLOCK FALSE
