CONSTANTS
    s1 = s1  s2 = s2
    Streams = {s1, s2}
    AppStops = {s1}
    Lengthy <- MCLengthy
SPECIFICATION StreamSpec
INVARIANTS StreamInv SilentAfterJoin
PROPERTIES AcceptedIsTaken JoinReturns
CHECK_DEADLOCK FALSE
