SPECIFICATION Spec
CONSTANTS
    a = a
    b = b
    o = o
    c1 = c1
    c2 = c2
    Gone = Gone
    Inside <- MCInside
    Outside <- MCOutside
    Contents <- MCContents
    MaxEdits = 2
    MaxCommits = 2
    MaxCalls = 2
    MaxFaults = 1
CHECK_DEADLOCK FALSE
SYMMETRY Symmetry
INVARIANT BootstrapFills
PROPERTY CaughtUp
