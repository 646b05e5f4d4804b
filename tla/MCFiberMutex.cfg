CONSTANTS
    f1 = f1  f2 = f2  f3 = f3  p1 = p1  p2 = p2
    NoOne = NoOne
    Fibers = {f1, f2, f3}
    Pthreads = {p1}
    Group <- MCGroup
SPECIFICATION FairMutexSpec
INVARIANTS MutexInv MutualExclusion WakeOneFindsAWaiter
PROPERTIES ImplementsFifoLock ChainedGetsMutex
