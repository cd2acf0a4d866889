SPECIFICATION FairSpec
CONSTANTS
    Messages = {m1, m2}
    Spawned = {f1}
    Loop = loop
    Nobody = nobody
    MaxFaults = 2
    MaxCrashes = 1
INVARIANTS
    TypeOK
    OneDialer
PROPERTIES
    LeavesQueueSent
    CrashKeeps
    
CHECK_DEADLOCK FALSE
