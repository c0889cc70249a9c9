SPECIFICATION Spec
CONSTANTS
    a = a
    b = b
    u = u
    c = c
    k = k
    r = r
    none = none
    Pkgs <- MCPkgs
    Order <- MCOrder
    Named <- MCNamed
    Known <- MCKnown
    Versioned <- MCVersioned
    Advised <- MCAdvised
    Repos = {r}
    RepoOf <- MCRepoOf
    NoRepo = none
    Pool = 2
    MaxRuns = 2
    MaxTroubles = 1
PROPERTIES EnrichedAreSkipped
CHECK_DEADLOCK FALSE
