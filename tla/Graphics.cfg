SPECIFICATION Spec
CONSTANTS
    Threads = {t1, t2}
    Chains = {s1, s2}
    Addresses = {d1, d2}
    None = none
    Boards = {b1}
    MaxDevices = 2
    MaxReloads = 2
SYMMETRY Symmetry
INVARIANTS TypeOK NothingLeaks DrawsWhatItPainted
CHECK_DEADLOCK FALSE
