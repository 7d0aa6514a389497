CONSTANTS
    Findings = {f1}
    Contents = {c1}
    MaxTurns = 4
    MaxFaults = 1
SPECIFICATION Spec
INVARIANT FinalizedIsPublished
