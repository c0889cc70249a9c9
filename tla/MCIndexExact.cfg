SPECIFICATION Spec
CONSTANTS
    A = A
    B = B
    P1 = P1
    P2 = P2
    Paths <- MCPaths
    Order <- MCOrder
    Pkgs <- MCPkgs
    Projects <- MCPkgs
    ProjectOf <- MCProjectOf
    Contents <- MCContents
    PkgsOf <- MCPkgsOf
    EdgesOf <- MCEdgesOf
    MtimeKept = FALSE
    DbFails = FALSE
    Killed = FALSE
    MaxRuns = 2
    MaxEdits = 1
INVARIANTS RunIsExact
CHECK_DEADLOCK FALSE
