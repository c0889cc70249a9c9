CONSTANTS
    s1 = s1
    s2 = s2
    Ids = {s1}
    Servers <- MCSqlite
    StoreFails = FALSE
    MaxCrashes = 0
SPECIFICATION Spec
CHECK_DEADLOCK FALSE
INVARIANTS GraphAfterReport
