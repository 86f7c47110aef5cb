CONSTANTS
    None = None
    Servers <- SmallServers
    Limits <- SmallLimits
SPECIFICATION CollectorsSpec
INVARIANTS
    OrderDoesNotMatter
    WorseIsNeverMilder
    ChainIsLongestWalk
    RedundantIndexIsCovered
    UnreportedIsWarned
    StoppedIsReal
PROPERTIES
    FindingsSurviveMoreEvidence
CHECK_DEADLOCK FALSE
