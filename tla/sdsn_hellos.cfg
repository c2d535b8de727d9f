\* Hellos of two switches, with hand-overs.
SPECIFICATION HelloSpec
CONSTANTS
    c1 = c1
    c2 = c2
    s1 = s1
    s2 = s2
    Node = {c1, s1, s2, c2}
    Views <- Line
    NoAddr = NoAddr
    NoRoute = NoRoute
    Pairs <- LinePairs
    UserRoutes <- LineRoutes
    Traffic <- NoTraffic
    Slash24 <- Addr
    MaxPairs = 3
    QueueMax = 1
    MaxTime = 2
    MaxDowns = 1
PROPERTIES
    HellosRefresh
    MessagesApproach
CHECK_DEADLOCK FALSE
