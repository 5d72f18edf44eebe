CONSTANTS
    b1 = b1
    b2 = b2
    Batches <- MCBatches
    Size <- MCSize
    MAX_CONCURRENT = 1
    MAX_RETRIES = 1
SPECIFICATION Spec
INVARIANTS
    SlotsExact
    OneVerdict
PROPERTIES
    BatchesEnd
CHECK_DEADLOCK FALSE
