\* A request is answered and no route is created.
SPECIFICATION RequestSpec
CONSTANTS
    c1 = c1
    c2 = c2
    s1 = s1
    s2 = s2
    Node = {c1, s1, c2}
    Views <- Between
    NoAddr = NoAddr
    NoRoute = NoRoute
    Pairs <- BetweenPairs
    UserRoutes <- NoRoutes
    Traffic <- ReplyTraffic
    Slash24 <- Addr
    MaxPairs = 1
    QueueMax = 1
    MaxTime = 1
    MaxDowns = 0
PROPERTIES
    ReplyCreatesRoute
CHECK_DEADLOCK FALSE
