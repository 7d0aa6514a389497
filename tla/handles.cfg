CONSTANTS
    Graphs = {g1, g2}
    NoGraph = NoGraph
    MAX_CACHED_GRAPHS = 1
    MaxVersions = 5
    MaxOpens = 4
SPECIFICATION Spec
SYMMETRY Symmetry
INVARIANTS
    HandlesAreCurrent
    OneHandlePerGraph
PROPERTIES
    ImplementsContents
