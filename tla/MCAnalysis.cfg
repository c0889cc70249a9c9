SPECIFICATION Spec
CONSTANTS
    NoInfo = NoInfo
    NoRepo = NoRepo
    Malformed = Malformed
    Fails = Fails
    Salvaged <- MCSalvaged
    Root = "app"
    Text <- MCText
    Unparsed = Unparsed
    TransitiveDepth = 2
    PathDepth = 2
    MaxPaths = 3
    NoGraph = NoGraph
    TraceLimit = 3
    MaxActionDepth = 2
    Pending = Pending
    Requests <- MCRequests
    WorkflowScan <- ScanAndSummarise
INVARIANTS ScoreIsWeightedMean RiskTravelsUp PassesCompose TreeFollowsLock NoFalseSafe BlastIsExact CompromisedAreFound ActionsAreExpanded
CHECK_DEADLOCK FALSE
