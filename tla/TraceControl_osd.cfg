\* osdtrace alone, on up to two hosts that the config screen changes.
SPECIFICATION Spec
CONSTANTS
    h1 = h1
    h2 = h2
    c1 = c1
    c2 = c2
    kfstrace = kfstrace
    radostrace = radostrace
    Hosts = {h1, h2}
    ClientHosts = {}
    ClientSources = {}
    MaxArcs = 3
    MaxChan = 1
SYMMETRY HostSymmetry
INVARIANTS
    TypeOK
    NoUnstoppableWorker
    OsdFollowed
    OsdCounted
CHECK_DEADLOCK FALSE
