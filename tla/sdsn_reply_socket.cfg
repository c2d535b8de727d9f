\* A switch whose controllers are neighbours is handed over from one to the
\* other: the route of the first keeps its source.
SPECIFICATION RequestSpec
CONSTANTS
    c1 = c1
    c2 = c2
    s1 = s1
    s2 = s2
    Node = {c1, c2, s1}
    Views <- Behind
    NoAddr = NoAddr
    NoRoute = NoRoute
    Pairs <- BetweenPairs
    UserRoutes <- NoRoutes
    Traffic <- BehindTraffic
    Slash24 <- Addr
    MaxPairs = 2
    QueueMax = 1
    MaxTime = 1
    MaxDowns = 0
INVARIANTS
    RequestFindsSocket
CHECK_DEADLOCK FALSE
