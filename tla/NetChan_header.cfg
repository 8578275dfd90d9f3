SPECIFICATION Spec
CONSTANTS
    MaxSize = 3
    BlockSizes = {1}
    MaxWritten = 3
    MaxSeq = 4
    MaxInFlight = 2
    MaxFaults = 1
INVARIANTS NoSendOverflow
CHECK_DEADLOCK FALSE
