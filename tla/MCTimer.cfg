SPECIFICATION FairSpec
CONSTANTS
    Requests = {r1, r2}
    Waits = {1, 2}
    Removing = {r1}
    ExecutorGiven = FALSE
    MaxCallers = 1
    MaxTime = 3
    NoHandler = NoHandler
    NoAlarm = NoAlarm

CHECK_DEADLOCK FALSE
INVARIANTS TypeOK NothingLost
PROPERTIES PassCatchesUp ImplementsAlarms DueFires RemovalReturns
