CONSTANTS
    f1 = f1  f3 = f3  p1 = p1
    NoOne = NoOne
    Fibers = {f1, f3}
    Pthreads = {p1}
    Group <- MCGroup
    Waiting = {f1, p1}
    Notifying = {f3, p1}
    Timed <- MCTimed
    MaxWaits <- MCMaxWaits
SPECIFICATION FairCvSpec
INVARIANTS TouchedBlockIsAlive ResumedOnce TimeoutLosesNoNotify
PROPERTY FiberWaitReturns
CHECK_DEADLOCK FALSE
