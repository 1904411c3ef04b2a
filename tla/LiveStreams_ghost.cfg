\* A late message of a stream of the profile before.
SPECIFICATION Spec
CONSTANTS
    a = a
    b = b
    Hosts = {a, b}
    Configs <- OtherNode
    SnapshotLimit = 0
    MaxEpochs = 2
    Chatty <- NoIds
    Payloads <- AnyLine
    MaxPer = 1
    MaxChan = 1
INVARIANTS
    ProfileShown
CHECK_DEADLOCK FALSE
