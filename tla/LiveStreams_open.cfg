\* One profile, of which the file names its host once or twice; nobody quits.
SPECIFICATION FairSpec
CONSTANTS
    a = a
    b = b
    Hosts = {a}
    Configs <- OnceOrTwice
    SnapshotLimit = 0
    MaxEpochs = 1
    Chatty <- NodeIds
    Payloads <- AnyLine
    MaxPer = 1
    MaxChan = 1
CONSTRAINT Stays
INVARIANTS
    OneStreamEach
    LiveIsOpen
PROPERTIES
    LossShown
CHECK_DEADLOCK FALSE
