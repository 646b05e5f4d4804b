CONSTANTS
    p1 = p1  b1 = b1  
    NoFiber = NoFiber  ShuttingDown = ShuttingDown
    N = 2
    kMaximumSpinners = 1
    Pushers = {p1}
    Batchers = {b1}
    Fibers = {1, 2}
    Batch = 2
    MaxPushes = 2
    MaxBeforeStop = 1
SPECIFICATION FairSchedSpec
INVARIANT ChecksHold
PROPERTIES ReadyFiberRuns StoppedLeaves
CHECK_DEADLOCK FALSE
