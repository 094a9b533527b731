CONSTANTS
    Workers = {w1, w2, w3, w4, w5}
    Tasks = {t1}
    IOTasks = {}
    EndlessTasks = {}
    ThrowingTasks = {}
    NoWorker = NoWorker
    NoTask = NoTask
    MinThread = 1
    MaxThread = 5
    BatchSize = 4
    HardwareCore = 2
    WordSize = 64
CONSTRAINT UntilStop
CHECK_DEADLOCK FALSE
SPECIFICATION FairSpec
PROPERTY ShrinksBack
