\* One change of the profile's host, between any two steps of the threads.
SPECIFICATION Spec
CONSTANTS
    a = a
    b = b
    Hosts = {a, b}
    Configs <- OtherNode
    SnapshotLimit = 0
    MaxEpochs = 2
    Chatty <- NoIds
    Payloads <- AnyLine
    MaxPer = 1
    MaxChan = 1
VIEW ButStatuses
INVARIANTS
    TypeOK
    OneStreamEach
    SnapshotConfigured
CHECK_DEADLOCK FALSE
