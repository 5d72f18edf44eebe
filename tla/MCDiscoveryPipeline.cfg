CONSTANTS
    h1 = h1
    h2 = h2
    h3 = h3
    address = address
    modbus = modbus
    dnp3 = dnp3
    s7comm = s7comm
    v1 = v1
    v2 = v2
    Handlers <- MCHandlers
    Addresses <- MCAddresses
    Protocols <- MCProtocols
    Versions <- MCVersions
    Unknown = Unknown
    NoDevice = NoDevice
    Fingerprints <- MCFingerprints
    Registered <- MCRegistered
    MaxProtocols = 2
    MaxHistory = 1
    MaxMissed = 1
    MaxDeletions = 1
SYMMETRY Symmetric
SPECIFICATION Spec
INVARIANTS
    NothingUnannounced
    
    
    HistoryBounded
CHECK_DEADLOCK FALSE
