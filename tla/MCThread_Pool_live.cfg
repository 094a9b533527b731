CONSTANTS
    Workers = {w1, w2, w3}
    Tasks = {t1, t2, t3}
    IOTasks = {t2}
    EndlessTasks = {t3}
    ThrowingTasks = {}
    NoWorker = NoWorker
    NoTask = NoTask
    MinThread = 1
    MaxThread = 3
    BatchSize = 2
    HardwareCore = 2
    WordSize = 64
CHECK_DEADLOCK FALSE
SPECIFICATION FairSpec
PROPERTIES CommittedTaskStarts DestructorReturns
