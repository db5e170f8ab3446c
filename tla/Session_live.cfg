SPECIFICATION LiveSpec
CONSTANTS
    Callers = {c1}
    Hotkey = hotkey
    Frames = {f1}
    NoOne = noone
    Settings = {TRUE}
    MaxStarts = 1
PROPERTIES StopEndsHud WaitEnds
