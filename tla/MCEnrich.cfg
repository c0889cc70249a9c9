SPECIFICATION Spec
CONSTANTS
    a = a
    b = b
    u = u
    c = c
    k = k
    r = r
    none = none
    Pkgs <- MCPkgs
    Order <- MCOrder
    Named <- MCNamed
    Known <- MCKnown
    Versioned <- MCVersioned
    Advised <- MCAdvised
    Repos = {r}
    RepoOf <- MCRepoOf
    NoRepo = none
    Pool = 2
    MaxRuns = 2
    MaxTroubles = 1
INVARIANTS TypeOK Accounting AsksBounded RepoNotMissed NoFalseClean CompleteRun
PROPERTIES NoNeedlessFetch RunEnds
CHECK_DEADLOCK FALSE
