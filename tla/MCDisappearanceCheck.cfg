CONSTANTS
    d1 = d1
    d2 = d2
    c1 = c1
    c2 = c2
    Devices <- MCDevices
    Checks <- MCChecks
    Timeouts = {0, 1, 3}
    MinTimeout = 0
    MaxTimeout = 1
    MaxClock = 2
SPECIFICATION AbsenceSpec
INVARIANTS
    OneAlertPerAbsence
PROPERTIES
    AbsenceReported
