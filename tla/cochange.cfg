SPECIFICATION Spec
CONSTANTS
    Files = {a, b, c}
    Changes = {{a, b}, {a, o}, {a, b, c}}
    Trees = {{a, b, c}, {a, c}}
    MaxFiles = 2
    MinCochange = 2
    MinCoupling = 70
    MaxCommits = 4
    MaxMoves = 1
    MaxAge = 1
    MaxMines = 2
    MaxFaults = 1
CHECK_DEADLOCK FALSE
INVARIANTS
    NothingMissed
    CountedOnce
