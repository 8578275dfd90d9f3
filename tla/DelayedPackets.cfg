SPECIFICATION FairSpec
CONSTANTS
    MAX_CLIENTS = 2
    MAX_DELAYED_PACKETS = 2
    Addresses = {"a", "b"}
    MaxDelay = 2
    MaxArrivals = 5
    MaxSocket = 2
INVARIANTS ListsInv InArrivalOrder
PROPERTIES LostOnlyWithSlot ImplementsQueues PacketsMoveOn
CHECK_DEADLOCK FALSE
