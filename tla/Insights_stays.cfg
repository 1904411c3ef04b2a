\* A symptom of a node that comes and goes between two cluster lines.
SPECIFICATION InsightsSpec
CONSTANTS
    HostOrder <- MCHostOrder
    OsdPlaces <- MCOsdPlaces
    OpPlaces <- MCOpPlaces
    None = None
    Snapshots <- FewSnapshots
    NodeStates <- FewNodes
    Traces <- FewTraces
    StreamCounts <- MCStreamCounts
    NodeHosts = {"node-a"}
    Keep = 2
    Dedup = 1
    HistoryLimit = 3
    LastSecond = 3
PROPERTIES
    EvidenceStays
CHECK_DEADLOCK FALSE
