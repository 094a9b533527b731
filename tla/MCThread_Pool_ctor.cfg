CONSTANTS
    Workers = {w1, w2, w3, w4, w5, w6}
    Tasks = {t1}
    IOTasks = {}
    EndlessTasks = {}
    ThrowingTasks = {t1}
    NoWorker = NoWorker
    NoTask = NoTask
    MinThread = 6
    MaxThread = 12
    BatchSize = 6
    HardwareCore = 6
    WordSize = 64
SYMMETRY WorkerSymmetry
CHECK_DEADLOCK FALSE
SPECIFICATION Spec
INVARIANT TypeOK
