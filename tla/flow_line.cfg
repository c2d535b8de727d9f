\* Every kind of packet on a line of three switches; switch 1 does not forward.
SPECIFICATION Spec
CONSTANTS
    NoAddr = NoAddr
    NoRoute = NoRoute
    Node <- LineNode
    Addr <- LineAddr
    Owner <- LineOwner
    Peer <- LinePeer
    DefaultAddress <- LineDefault
    Controller <- EndController
    Path <- LinePath
    NoForward <- OneStops
    Traffic <- LineTraffic
    QueueMax = 2
    MaxPackets = 3
INVARIANTS
    TypeOK
    WaitingHasCause
PROPERTIES
    LeavesInOrder
