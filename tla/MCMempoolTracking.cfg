SPECIFICATION Spec
CONSTANTS
    t1 = t1 t2 = t2 t3 = t3
    Tx = {t1, t2, t3}
    Block = {0, 1, 2, 3, 4, 5, 6, 7, 8, 9}
    Delay = 2
    FailedCap = 1
    RecentCap = 2
    MaxClock = 4
    FilterCap = 1
    StartBlock = 1
    MaxBlock = 4
INVARIANTS IndexedIsQueued NoneOverdue FailuresJust
PROPERTIES NothingLost
SYMMETRY Symmetry
CHECK_DEADLOCK FALSE
