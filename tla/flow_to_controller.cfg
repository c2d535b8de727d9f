\* A flow to the node that is the controller of its source.
SPECIFICATION Spec
CONSTANTS
    NoAddr = NoAddr
    NoRoute = NoRoute
    Node <- LineNode
    Addr <- LineAddr
    Owner <- LineOwner
    Peer <- LinePeer
    DefaultAddress <- LineDefault
    Controller <- EndController
    Path <- LinePath
    NoForward <- AllForward
    Traffic <- ToController
    QueueMax = 2
    MaxPackets = 2
INVARIANTS
    KnownPathHasRoute
