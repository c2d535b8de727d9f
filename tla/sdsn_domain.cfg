\* Every connected network of four nodes, with hand-overs.
SPECIFICATION Spec
CONSTANTS
    Node = {n1, n2, n3, n4}
    Views <- AllViews
    NoAddr = NoAddr
    NoRoute = NoRoute
    MaxPairs = 3
    Planes = 3
    PerPlane = 4
    Links <- Torus
    NoHop = NoHop
    MaxRoutes = 1
SYMMETRY Interchangeable
INVARIANTS
    DomainTypeOK
    ControlPathsWork
    RoutesAreShortest
    RepliesFromConIP
    
CHECK_DEADLOCK FALSE
