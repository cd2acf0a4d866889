SPECIFICATION Spec
CONSTANTS
    Messages = {m1, m2}
    Spawned = {f1}
    Loop = loop
    Nobody = nobody
    MaxFaults = 1
    MaxCrashes = 0
INVARIANT
    QueuedIsKept
CHECK_DEADLOCK FALSE
