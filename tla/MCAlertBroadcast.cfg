CONSTANTS
    s1 = s1
    s2 = s2
    Sockets <- MCSockets
    NoSocket = NoSocket
    MaxAlerts = 4
SPECIFICATION Spec
INVARIANTS
    TypeOK
    InOrder
    NothingSkipped
PROPERTIES
    AlertsDispatched
    ClosedForgotten
CHECK_DEADLOCK FALSE
