CONSTANTS
    r1 = r1
    r2 = r2
    r3 = r3
    r4 = r4
    pkg = pkg
    act = act
    p1 = p1
    p2 = p2
    p3 = p3
    p4 = p4
    v1 = v1
    v2 = v2
    v3 = v3
    v4 = v4
    Refs <- MCRefs4
    Sources <- MCSources
    Projects <- MCProjects4
    VKs <- MCVKs4
    SourceOf <- MCSourceOf4
    ProjectOf <- MCProjectOf4
    VKOf <- MCOwnVK4
    PackageSource = pkg
    MaxDepth = 4
    HasCache = FALSE
    DetectFails = {}
    Outcomes = {"dep", "error"}
    Worlds <- MCFreshWorlds
SPECIFICATION Spec
INVARIANTS ShallowestFirst NoTimeoutBlame Complete
PROPERTIES Terminates
