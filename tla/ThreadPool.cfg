SPECIFICATION FairSpec
CONSTANTS
    Worker = {w1, w2}
    Submitter = {a, b}
    Task = {t1, t2, t3}
    NoWorker = NoWorker
    NoTask = NoTask
INVARIANTS
    TypeOK
    Accounted
PROPERTIES
    AwakeWorkerDrains
    ShutdownEnds
CHECK_DEADLOCK FALSE
