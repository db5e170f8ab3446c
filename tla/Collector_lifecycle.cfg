SPECIFICATION Spec
CONSTANTS
    Producers = {p1}
    Callers = {c1, c2}
    Readers = {r1}
    Worker = worker
    NoOne = noone
    QueueCap = 1
    HistoryCap = 1
    PublishTries = 1
    MaxBoards = 1
    MaxSessions = 2
SYMMETRY Symmetry
INVARIANTS TypeOK ExitedIsQuiet SingleDisplayWriter RunningIsLive
PROPERTIES StopMeansStopped ImplementsSwitch ImplementsControl
