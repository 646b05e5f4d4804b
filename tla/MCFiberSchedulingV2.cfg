CONSTANTS
    p1 = p1
    N = 2
    Waiters = {0, 1}
    Pushers = {p1}
    Capacity = 2
    LocalCap = 1
    Reactors = {0, 1}
    Hogs = {0}
    MaxStarts = 4
SPECIFICATION SchedSpec
INVARIANT SchedInv
PROPERTIES GlobalFiberRuns LocalFiberRuns StoppedLeaves
CHECK_DEADLOCK FALSE
