SPECIFICATION Spec
CONSTANTS
    Graphs <- MCGraphs
    Matches <- MCMatches
    Heights = {3, 5}
    PathDepth = 2
    MaxTrail = 3
    Diverges = Diverges
    None = None
INVARIANTS ScreenIsCurrent
PROPERTIES ZoomKeepsSelection
CHECK_DEADLOCK FALSE
