\* The whole public interface of the queue, limits and timeout changing.
SPECIFICATION Spec
CONSTANTS
    Uid = {u1, u2}
    Addr = {a, b}
    Limit = {1, 2}
    Timeout = {0, 1}
    MaxTime = 2
    MaxArrivals = 3
SYMMETRY Interchangeable
INVARIANTS
    TypeOK
    NoDuplicate
PROPERTIES
    CustodySpec
    ServesEarliestFresh
    EvictsMostAged
    StaysWithinLimit
