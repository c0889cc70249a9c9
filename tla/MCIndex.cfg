SPECIFICATION Spec
CONSTANTS
    A = A
    B = B
    P1 = P1
    P2 = P2
    Paths <- MCPaths
    Order <- MCOrder
    Pkgs <- MCPkgs
    Projects <- MCPkgs
    ProjectOf <- MCProjectOf
    Contents <- MCContents
    PkgsOf <- MCPkgsOf
    EdgesOf <- MCEdgesOf
    MtimeKept = TRUE
    DbFails = TRUE
    Killed = TRUE
    MaxRuns = 2
    MaxEdits = 1
INVARIANTS TypeOK ForeignKeys VersionBehindLink IndexMatchesTree FirstRunExact
PROPERTIES PruneSafe
CHECK_DEADLOCK FALSE
