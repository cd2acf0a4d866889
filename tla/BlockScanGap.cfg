\* Five blocks after the boost file, of which a scan goes on with four
CONSTANTS
    Syncs = {y1}
    Refreshes = {r1}
    Repairs = {}
    Rescans = {}
    Nobody = nobody
    PerBlock = 1
    FirstTip = 6
    MaxHeight = 6
    Every = 1
    Enough = 80
    MaxCallers = 2
    MaxWipes = 0
    MaxFaults = 1
SPECIFICATION Spec
PROPERTIES
    GapStaysAbove
