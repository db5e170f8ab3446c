SPECIFICATION Spec
CONSTANTS
    Producers = {p1, p2}
    Callers = {c1}
    Readers = {r1}
    Worker = worker
    NoOne = noone
    QueueCap = 2
    HistoryCap = 2
    PublishTries = 1
    MaxBoards = 2
    MaxSessions = 2
INVARIANTS NeverMixesSessions SnapshotNewestFirst
PROPERTY ImplementsFeed
SYMMETRY Symmetry
