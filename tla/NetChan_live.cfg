SPECIFICATION PacedSpec
CONSTANTS
    MaxSize = 3
    BlockSizes = {1}
    MaxWritten = 1
    MaxSeq = 16
    MaxInFlight = 2
    MaxFaults = 1
    MaxLag = 2
PROPERTIES ReliableArrives
CHECK_DEADLOCK FALSE
