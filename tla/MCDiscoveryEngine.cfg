CONSTANTS
    t1 = t1
    t2 = t2
    d1 = d1
    d2 = d2
    Triples <- MCTriples
    Devices <- MCDevices
    Endpoints <- MCEndpoints
    MaxObservations = 2
    MaxStarts = 2
    MaxFailures = 1
SPECIFICATION Spec
INVARIANTS
    TypeOK
    Accounting
    FlushesNeverOverlap
    TimestampsExact
    AnnouncedOnce
PROPERTIES
    StopCompletes
    EventuallyPersisted
    ImplementsLedger
CHECK_DEADLOCK FALSE
