\* Both directions of a flow over two switches that only forward.
SPECIFICATION FairSpec
CONSTANTS
    NoAddr = NoAddr
    NoRoute = NoRoute
    Node <- ChainNode
    Addr <- ChainAddr
    Owner <- ChainOwner
    Peer <- ChainPeer
    DefaultAddress <- ChainDefault
    Controller <- TwoControllers
    Path <- ChainPath
    NoForward <- AllForward
    Traffic <- ChainTraffic
    QueueMax = 2
    MaxPackets = 2
INVARIANTS
    RoutesFollowPath
    AnsweredEverywhere
PROPERTIES
    ForwardsAlongPath
    DropsOnlyBeforeReply
    AnswerableIsServed
    DiscoverySpec
