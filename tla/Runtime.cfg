SPECIFICATION FairSpec
CONSTANTS
    Clients = {c1, c2}
    Submitters = {c1, c2}
    MaxConnections = 1
    NumWorkers = 2
    MaxQueueSize = 1
    MaxTasks = 2
CHECK_DEADLOCK FALSE
INVARIANTS LeasesExclusive FreeSlotsHaveTakers TasksOnce WakeupsSuffice TaskConnectionLives
PROPERTIES LeaseIsClean CloseEndsWaits TasksEnd
