CONSTANTS
    a1 = a1  a2 = a2  a3 = a3  a4 = a4  e1 = e1  e2 = e2  e3 = e3  t1 = t1  t2 = t2
    Pushers = {a1}
    Batchers = {a2}
    Poppers = {a3}
    Stealers = {a4}
    Capacity = 4
    Load <- MCLoad
    Entities = {e1, e2, e3}
    Local = {e2}
    None = None
    MaxSeq = 5
    Thieves = {t1, t2}
    LocalCapacity = 2
    MaxPushed = 4
SPECIFICATION MCSpec
INVARIANTS FirstInFirstOut FilledNodeIsFree StealsNoLocal TakenOnce NoneLost
PROPERTY BatchPushReturns
CHECK_DEADLOCK FALSE
