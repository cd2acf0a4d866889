\* Two listener tasks, a caller that stops and signals them, two connections
CONSTANTS
    i1 = i1
    i2 = i2
    s1 = s1
    none = none
    NoTask = none
    Task <- TwoTasks
    Stopper <- OneStopper
    MaxConn = 2
SPECIFICATION FairSpec
CHECK_DEADLOCK FALSE
INVARIANTS
    TypeOK
    ListenerHasTask
    ActiveHasListener
PROPERTIES
    StopReturns
    CancelledStops
