SPECIFICATION Spec
CONSTANTS
    Keys = {"Corner", "X", "PaintInNoclip", "Grade.Good.MaxLossPercent"}
    Absent = absent
    None = none
    Reloaders = {hotkey, caller}
    Widths = {1, 1920}
    Heights = {1080}
    Losses = {0, 20}
    Angles = {70, 90}
    Speeds = {2000}
    MaxEdits = 1
SYMMETRY Symmetry
INVARIANTS TypeOK SavedIsApplied RedirectIsWanted PanelFits BetterNeverGradesWorse
