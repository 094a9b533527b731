CONSTANTS
    Workers = {w1, w2, w3, w4, w5, w6, w7}
    Tasks = {t1, t2}
    IOTasks = {t2}
    EndlessTasks = {}
    ThrowingTasks = {}
    NoWorker = NoWorker
    NoTask = NoTask
    MinThread = 2
    MaxThread = 6
    BatchSize = 4
    HardwareCore = 2
    WordSize = 64
SYMMETRY WorkerSymmetry
CHECK_DEADLOCK FALSE
SPECIFICATION Spec
INVARIANTS CountersExact ThreadNumExact KeepsMinThread KeepsMaxThread DestroyedIsQuiet
PROPERTY ImplementsExecutor
