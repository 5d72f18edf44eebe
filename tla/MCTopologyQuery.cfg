CONSTANTS
    t1 = t1
    t2 = t2
    d1 = d1
    d2 = d2
    Triples <- MCTriples
    Devices <- MCDevices
    Endpoints <- MCEndpoints
    MaxObservations = 2
    MaxStarts = 1
    MaxFailures = 1
SPECIFICATION QuerySpec
INVARIANTS
    NeverOvercounts
    EdgesHaveNodes
PROPERTIES
    QuietQueryExact
CHECK_DEADLOCK FALSE
