SPECIFICATION Spec
CONSTANTS
    QUERY_GRAPH_ROW_LIMIT = 4
    MAX_RESPONSE_CHARS = 6
    U64_MAX = 1000
    MaxDepth = 2
    MaxLine = 12
    LogLimit = 3
    OVERFETCH_FACTOR = 2
    MIXED_CORPUS_HEADROOM = 2
    MAX_FETCH_LIMIT = 8
    K = 2
    Unit = 840
    MostAsked = 2
CHECK_DEADLOCK FALSE
PROPERTIES
    TwinIsCompiled
    FlagsAreSound
    CallsLink
    PathsNameTargets
    MacroTargetsAreCalled
    CyclesAreComponents
    ClusteringHolds
    ChangedSymbolsAreNamed
    PagesAreTheAnswer
    ExactIsComplete
    SearchServes
