CONSTANTS
    t1 = t1
    t2 = t2
    t3 = t3
    d1 = d1
    d2 = d2
    modbus = modbus
    dnp3 = dnp3
    f1 = f1
    Tasks <- MCTasks
    Devices <- MCDevices
    Protocols <- MCProtocols
    Secure = {}
    Firmwares <- MCFirmwares
    Unknown = Unknown
    Fingerprints <- MCFingerprints
    HasDatabase = TRUE
    Severities = {100}
    NoAnswer = NoAnswer
    PeerSteps = {1}
    MaxFailures = 1
SPECIFICATION Spec
SYMMETRY Symmetry
INVARIANTS
    ScoreSettles
PROPERTIES
    ScoreFallsForAReason
CHECK_DEADLOCK FALSE
