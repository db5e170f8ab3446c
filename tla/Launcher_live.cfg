SPECIFICATION LiveSpec
CONSTANTS
    Launchers = {l1}
    User = u
    ByHand <- UserStartsAndStops
    NoOne = NoOne
INVARIANT SuccessMeansOver
PROPERTIES HungGameIsLeft LauncherEnds
