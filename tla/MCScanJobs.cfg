CONSTANTS
    s1 = s1
    s2 = s2
    Ids <- MCIds
    Servers <- MCServers
    StoreFails = TRUE
    MaxCrashes = 1
SPECIFICATION Spec
CHECK_DEADLOCK FALSE
INVARIANTS TypeOK WholeOutcome ReportIsShareable
PROPERTIES StatusForward EveryScanAnswered
