SPECIFICATION Spec
CONSTANTS
    MaxSize = 3
    BlockSizes = {2, 3}
    MaxWritten = 6
    MaxSeq = 4
    MaxInFlight = 2
    MaxFaults = 2
INVARIANTS NetChanInv ExactlyOnce NoSilentGap
PROPERTIES NoSpuriousResend ImplementsStream
CHECK_DEADLOCK FALSE
