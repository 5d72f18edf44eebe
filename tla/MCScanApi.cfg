CONSTANTS
    r1 = r1
    r2 = r2
    r3 = r3
    r4 = r4
    r5 = r5
    name = name
    a = a
    b = b
    Requests <- MCRequests
    Settings <- MCSettings
    Values <- MCValues
    Default = a
    MaxJobs = 2
    PageSize = 2
SPECIFICATION Spec
SYMMETRY Symmetry
INVARIANTS
    RunningHasHistory
    PagesShowEverything
CHECK_DEADLOCK FALSE
