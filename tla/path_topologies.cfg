\* Every connected topology of five nodes.
SPECIFICATION Spec
CONSTANTS
    m_num = 5
    Delays = {0, 1}
INVARIANTS
    PathsAreShortest
    HellosKeepPaths
