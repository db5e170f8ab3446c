SPECIFICATION Spec
CONSTANTS
    Threads = {t1}
    Results = {r1, r2, r3}
    Players = {p1, p2}
    Vectors = {v1}
    NoEvent = none
    PendingCap = 2
    MaxDepth = 3
    MaxSolves = 3
    MaxTick = 2
    MaxSessions = 2
SYMMETRY Symmetry
INVARIANTS AcceptedOfSession UsedOnce PendingIsClean
PROPERTIES TakesLatest
