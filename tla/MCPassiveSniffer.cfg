CONSTANTS
    p1 = p1
    p2 = p2
    p3 = p3
    Packets <- MCPackets
    MaxStarts = 3
SPECIFICATION Spec
INVARIANTS
    RecordsAccounted
    StoredOnce
    OneCapture
PROPERTIES
    StopReturns
CHECK_DEADLOCK FALSE
