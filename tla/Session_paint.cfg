SPECIFICATION Spec
CONSTANTS
    Callers = {c1}
    Hotkey = hotkey
    Frames = {}
    NoOne = noone
    Settings = {TRUE, FALSE}
    MaxStarts = 1
PROPERTY StopDisablesPaint
