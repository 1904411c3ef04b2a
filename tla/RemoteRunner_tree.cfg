\* A TERM between the start of osdtrace and the store of its pid.
SPECIFICATION Spec
CONSTANTS
    s1 = s1
    s2 = s2
    m = m
    n = n
    Sessions = {s1}
    Names = {n}
    Name <- Alone
    Watched = {s1}
    Stops = {}
INVARIANT TreeRemoved
CHECK_DEADLOCK FALSE
