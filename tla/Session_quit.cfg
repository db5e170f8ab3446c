SPECIFICATION Spec
CONSTANTS
    Callers = {c1}
    Hotkey = hotkey
    Frames = {}
    NoOne = noone
    Settings = {TRUE}
    MaxStarts = 2
INVARIANT QuitClosesAll
