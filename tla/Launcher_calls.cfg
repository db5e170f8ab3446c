SPECIFICATION Spec
CONSTANTS
    Launchers = {l1, l2, l3}
    User = u
    ByHand = {}
    NoOne = NoOne
SYMMETRY Symmetry
INVARIANTS TypeOK ArgumentStays OneOwner
