\* A profile is replaced while its threads are anywhere; nobody quits.
SPECIFICATION FairSpec
CONSTANTS
    a = a
    b = b
    Hosts = {a}
    Configs <- OneProfile
    SnapshotLimit = 0
    MaxEpochs = 2
    Chatty <- NoIds
    Payloads <- BadLine
    MaxPer = 1
    MaxChan = 1
CONSTRAINT Stays
PROPERTIES
    StoppedStreamsEnd
CHECK_DEADLOCK FALSE
