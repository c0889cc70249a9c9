CONSTANTS
    r1 = r1
    r2 = r2
    r3 = r3
    r4 = r4
    pkg = pkg
    act = act
    p1 = p1
    p2 = p2
    p3 = p3
    p4 = p4
    v1 = v1
    v2 = v2
    v3 = v3
    v4 = v4
    Refs <- MCRefs
    Sources <- MCSources
    Projects <- MCProjects
    VKs <- MCVKs
    SourceOf <- MCTagSource
    ProjectOf <- MCProjectOf
    VKOf <- MCOneTag
    PackageSource = pkg
    MaxDepth = 3
    HasCache = FALSE
    DetectFails = {}
    Outcomes = {"dep"}
    Worlds <- MCTagWorlds
SPECIFICATION Spec
INVARIANTS EveryProjectShown
