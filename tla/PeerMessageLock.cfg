\* Safety, order and starvation freedom, with up to two forced releases
SPECIFICATION FairSpec
CONSTANTS
    Request = {r1, r2, r3}
    MaxForce = 2
INVARIANTS
    TypeOK
    ExclusiveUntilForced
    OverlapBounded
    WaiterHasHolder
PROPERTIES
    UntimedIsServed
CHECK_DEADLOCK FALSE
