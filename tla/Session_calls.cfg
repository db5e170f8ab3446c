SPECIFICATION Spec
CONSTANTS
    Callers = {c1, c2}
    Hotkey = hotkey
    Frames = {f1}
    NoOne = noone
    Settings = {TRUE}
    MaxStarts = 2
SYMMETRY Symmetry
INVARIANTS TypeOK SoleHotkeyWorker ExitedHudIsQuiet
PROPERTIES StopMeansStopped FailedStartStopsCollector StartMeansRunning StrayPaintIsByReload
