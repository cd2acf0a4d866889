\* One send to three peers, with its retry
CONSTANTS
    p1 = p1
    p2 = p2
    p3 = p3
    Peer <- ThreePeers
SPECIFICATION FairSpec
INVARIANTS
    TypeOK
    SentHasEvidence
    AcceptedIsTracked
PROPERTIES
    KeepsPromise
    SendEnds
