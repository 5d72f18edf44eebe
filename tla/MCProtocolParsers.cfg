CONSTANTS
    Lengths = {0, 3, 26}
    MaxText = 25
    MaxFirmware = 24
    Counts = {0, 1, 4}
    ItemLengths = {0, 10, 20, 33, 36, 59}
    LinkLengths = {5, 10, 35, 50}
    Frames <- MCFrames
SPECIFICATION ParsingSpec
INVARIANTS
    ValuesApart
    VerdictMatchesFields
    FingerprintsReadable
CHECK_DEADLOCK FALSE
