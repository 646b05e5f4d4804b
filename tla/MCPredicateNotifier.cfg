CONSTANTS
    w1 = w1  w2 = w2  n1 = n1  n2 = n2
    Nobody = Nobody
    Waiters = {w1, w2}
    Notifiers = {n1, n2}
    EpochMod = 32
SPECIFICATION NotifierSpec
INVARIANT NotifierInv
PROPERTIES ImplementsEventCount TasksGetDone WaitersDecide
CHECK_DEADLOCK FALSE
