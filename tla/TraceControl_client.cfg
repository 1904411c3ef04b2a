\* One client source on two hosts, next to osdtrace on one.
SPECIFICATION FairSpec
CONSTANTS
    h1 = h1
    h2 = h2
    c1 = c1
    c2 = c2
    kfstrace = kfstrace
    radostrace = radostrace
    Hosts = {h1}
    ClientHosts = {c1, c2}
    ClientSources = {kfstrace}
    MaxArcs = 2
    MaxChan = 1
INVARIANTS
    Reports
    ClientCounted
    ClientSession
    ClientView
    ClientStopCleaned
PROPERTIES
    RunsSpec
    StopCompletes
CHECK_DEADLOCK FALSE
