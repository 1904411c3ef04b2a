\* Each part of the TUI's main loop on a small instance.
SPECIFICATION CockpitSpec
CONSTANTS
    hostA = hostA
    hostB = hostB
    badValue = badValue
    someUrl = someUrl
    someSum = someSum
    Blank = Blank
    Absent = Absent
    Broken = Broken
    NoFile = NoFile
    NoSave = NoSave
    Words <- MCWords
    NameOrder <- MCNames
    DefaultHosts <- MCDefaultHosts
    Files <- MCFiles
    CommandLines <- MCCommandLines
    Typed <- MCTyped
    Dests = {hostA, hostB}
    Urls = {someUrl}
    Sums = {someSum}
    MaxEdits = 2
    osdtrace = osdtrace
    kfstrace = kfstrace
    radostrace = radostrace
    TraceSources = {osdtrace, kfstrace, radostrace}
    FirstSource = osdtrace
    Recordings = {1, 2}
    UsizeMax = 2
    Page = 2
    Rows = 1
    Lengths = {2}
    Heights = {12, 15}
    MaxPresses = 3
    LabelOrder <- MCLabels
    RadosLines <- MCRadosLines
    OsdLines <- MCOsdLines
    HostOfOsd <- MCHostOfOsd
    Empty = ""
    NoPrimary = "none"
    MAX_OSDS = 2
    MAX_CHILDREN = 1
    MaxLines = 3
    Lines <- MCLines
    OsdOrder <- MCOsdOrder
    PgOrder <- MCPgOrder
    SnapshotOsds = {"osd.2"}
    Dash = "-"
    BUCKET_SECS = 2
    Ttls = {1, 3}
    Windows = {2, 3}
    Limit = 2
    Drop = 2
    MaxTime = 2
    MaxEvents = 3
    HostOrder <- MCHostOrder
    OsdPlaces <- MCOsdPlaces
    OpPlaces <- MCOpPlaces
    None = None
    Snapshots <- FewSnapshots
    NodeStates <- FewNodes
    Traces <- FewTraces
    StreamCounts <- MCStreamCounts
    NodeHosts = {"node-a"}
    SomeEvidence <- WideEvidence
    Keep = 2
    Dedup = 1
    HistoryLimit = 3
    LastSecond = 3
INVARIANTS
    TypesOK
    DraftSaves
    CleanMeansLive
    StreamsMatch
    
    KeysMeetTheScreen
    StartedIsCleaned
    QuestionsAsked
    FlowReads
    ReplicasStay
    SeriesIsTrue
    VerdictsTrue
    NoEcho
    CapturedStays
PROPERTIES
    AdminFollowsHosts
    OthersKept
    KeysShow
CHECK_DEADLOCK FALSE
