CONSTANTS
    Files = {fa}
    Contents = {c1, c2}
    Gone = Gone
    MaxEdits = 2
    MaxCalls = 2
    MaxFaults = 1
SPECIFICATION Spec
CHECK_DEADLOCK FALSE
INVARIANT FreshIsComplete
