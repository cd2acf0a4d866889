CONSTANTS
    p1 = p1
    p2 = p2
    p3 = p3
    Peer <- ThreePeers
SPECIFICATION Spec
INVARIANTS
    VerifiedIsSent
