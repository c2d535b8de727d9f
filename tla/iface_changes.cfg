\* Interfaces and addresses change in every order.
SPECIFICATION FairSpec
CONSTANTS
    Interface = {i1, i2}
    Addr = {a, b, c}
    MaxSockets = 3
INVARIANTS
    TypeOK
    SocketsMatchInterfaces
    UpInterfaceListens
PROPERTIES
    ChangesAreAnnounced
