CONSTANTS
    p1 = p1
    N = 2
    Waiters = {0, 1}
    Pushers = {p1}
    Capacity = 2
    LocalCap = 1
    Reactors = {0}
    Hogs = {}
    MaxStarts = 3
SPECIFICATION SchedSpec
PROPERTY PushedFiberRuns
CHECK_DEADLOCK FALSE
