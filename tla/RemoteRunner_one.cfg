\* One watched run whose connection may close, that may be stopped, and whose
\* TTL may expire.
SPECIFICATION FairSpec
CONSTANTS
    s1 = s1
    s2 = s2
    m = m
    n = n
    Sessions = {s1}
    Names = {n}
    Name <- Alone
    Watched = {s1}
    Stops = {s1}
INVARIANTS
    TypeOK
PROPERTIES
    ClosedEnds
    TtlEnds
CHECK_DEADLOCK FALSE
