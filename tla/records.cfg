CONSTANTS
    Findings = {f1, f2}
    Contents = {c1}
    MaxTurns = 4
    MaxFaults = 2
SYMMETRY Symmetry
SPECIFICATION Spec
INVARIANTS
    VerifiedEntryIsBacked
PROPERTIES
    HistoryKept
    DownstreamFieldsKept
    ImplementsLedger
