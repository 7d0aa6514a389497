CONSTANTS
    Files = {fa, fb}
    Contents = {c1, c2}
    Gone = Gone
    MaxEdits = 3
    MaxCalls = 3
    MaxFaults = 1
SPECIFICATION Spec
CHECK_DEADLOCK FALSE
INVARIANTS
    ManifestIsOfGraph
    FreshIsCurrent
PROPERTIES
    SavedGraphIsFullIndex
    IndexCallReturns
