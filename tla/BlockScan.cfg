\* Two callers of any kind at a time over two blocks after the boost file, one
\* wipe and one fault
CONSTANTS
    Syncs = {y1}
    Refreshes = {r1}
    Repairs = {p1}
    Rescans = {w1}
    Nobody = nobody
    PerBlock = 1
    FirstTip = 2
    MaxHeight = 3
    Every = 1
    Enough = 50
    MaxCallers = 2
    MaxWipes = 1
    MaxFaults = 1
SPECIFICATION Spec
INVARIANTS
    TypeOK
    FlagsHaveOwners
    NothingMissed
PROPERTIES
    AdvanceIsFetched
    CatchesUp
