\* Every interleaving, with two crashes and restarts and the balance screen
\* giving up once
CONSTANTS
    t1 = t1
    none = none
    NoTx = none
    Tx <- OneTx
    MaxCrash = 2
    MaxForget = 1
SPECIFICATION FairSpec
CHECK_DEADLOCK FALSE
INVARIANTS
    TypeOK
    RecordedOnlyIfMined
    ChangeIsRecognised
    PendingBlocksSends
PROPERTIES
    UndoneByRepair
    AcceptedIsKept
    FullRowStays
    MinedIsRecorded
    MinedIsReleased
