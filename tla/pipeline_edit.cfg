CONSTANTS
    Files = {fa}
    Contents = {c1, c2}
    Gone = Gone
    MaxEdits = 2
    MaxCalls = 1
    MaxFaults = 0
SPECIFICATION Spec
CHECK_DEADLOCK FALSE
INVARIANT FreshIsIndexed
