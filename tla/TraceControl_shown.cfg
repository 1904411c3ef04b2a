\* The t key against an osdtrace worker that the counters have lost.
SPECIFICATION Spec
CONSTANTS
    h1 = h1
    h2 = h2
    c1 = c1
    c2 = c2
    kfstrace = kfstrace
    radostrace = radostrace
    Hosts = {h1, h2}
    ClientHosts = {}
    ClientSources = {}
    MaxArcs = 2
    MaxChan = 1
INVARIANTS
    RunningShown
CHECK_DEADLOCK FALSE
