\* An interface loses its last address and goes down.
SPECIFICATION Spec
CONSTANTS
    Interface = {i1, i2}
    Addr = {a, b, c}
    MaxSockets = 2
INVARIANTS
    DownFindsSocket
