SPECIFICATION FairSpec
CONSTANTS
    Sizes = {2}
    Max = 4
    Stop = 1
    Window = 3
    Afters = {"get"}
PROPERTY EveryRequestAnswered
CHECK_DEADLOCK FALSE
