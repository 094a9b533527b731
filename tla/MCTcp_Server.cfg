SPECIFICATION FairSpec
CONSTANTS
    Connections = {c1, c2}
    Fds = {1}
    SubReactors = 2
    Readers = {r1, r2}
    Timeout = 2
    MaxRequests = 1
    MaxTasks = 2
    Checker = checker
    NoConnection = NoConnection
    NoUser = NoUser
INVARIANTS TypeOK FallsOnlyToMishaps RegistryExact EvictedInTime
PROPERTIES EvictsOnlySilent GoneClientForgotten
CONSTRAINT UntilReuse
CHECK_DEADLOCK FALSE
