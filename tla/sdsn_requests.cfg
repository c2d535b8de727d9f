\* Requests and replies of a switch that is handed over between its neighbours.
SPECIFICATION FairRequestSpec
CONSTANTS
    c1 = c1
    c2 = c2
    s1 = s1
    s2 = s2
    Node = {c1, s1, c2}
    Views <- BetweenOrBehind
    NoAddr = NoAddr
    NoRoute = NoRoute
    Pairs <- RolePairs
    UserRoutes <- BetweenRoutes
    Traffic <- BetweenTraffic
    Slash24 <- Addr
    MaxPairs = 2
    QueueMax = 2
    MaxTime = 1
    MaxDowns = 1
INVARIANTS
    TypeOK
    WaitingHasCause
    MessagesHaveRoutes
PROPERTIES
    RequestsEnd
CHECK_DEADLOCK FALSE
