\* The start-up repair against the confirmation
CONSTANTS
    t1 = t1
    none = none
    NoTx = none
    Tx <- OneTx
    MaxCrash = 1
    MaxForget = 0
SPECIFICATION Spec
CHECK_DEADLOCK FALSE
INVARIANTS
    SpendNotForgotten
