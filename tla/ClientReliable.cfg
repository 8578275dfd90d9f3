SPECIFICATION FairSpec
CONSTANTS
    MaxSize = 3
    MAX_BACK_BUFFERS = 2
    BlockSizes = {1, 3, 4}
    ReplySizes = {2}
    ListLimit = 2
    MaxWritten = 6
    MaxDrops = 1
INVARIANTS BackbufInv InOrder OverflowDropsClient
PROPERTIES Drains
CHECK_DEADLOCK FALSE
