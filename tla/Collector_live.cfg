SPECIFICATION LiveSpec
CONSTANTS
    Producers = {p1}
    Callers = {c1}
    Readers = {r1}
    Worker = worker
    NoOne = noone
    QueueCap = 1
    HistoryCap = 1
    PublishTries = 1
    MaxBoards = 1
    MaxSessions = 2
PROPERTIES StopCompletes CallsReturn QueuedIsTaken
