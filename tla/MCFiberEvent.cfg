CONSTANTS
    f1 = f1  f2 = f2  p1 = p1  s1 = s1  s2 = s2  s3 = s3
    Fibers = {f1, f2}
    Pthreads = {p1}
    Setters = {s1, s2, s3}
    Oneshot = {s1, s2}
SPECIFICATION EventSpec
INVARIANTS NoReturnBeforeSet BlocksAlive
PROPERTY WaitReturns
CHECK_DEADLOCK FALSE
