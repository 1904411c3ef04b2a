\* Two runs on one host: the install of each cleans up what the other left.
SPECIFICATION Spec
CONSTANTS
    s1 = s1
    s2 = s2
    m = m
    n = n
    Sessions = {s1, s2}
    Names = {m, n}
    Name <- Apart
    Watched = {s1, s2}
    Stops = {}
INVARIANTS
    CleanExit
    CleanedTree
CHECK_DEADLOCK FALSE
