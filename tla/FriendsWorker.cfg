SPECIFICATION FairSpec
CONSTANTS
    MaxCommands = 16
    MaxPeers = 2
    MaxCalls = 2
    Uses = {"host", "join"}
    Failures = {"open", "rotate", "broker", "peer"}
INVARIANTS WorkerInv
PROPERTIES JoinSettlesOrIsLost CommandsTaken ShutdownEnds RoomCloses LinklessGuestsLeave
CHECK_DEADLOCK FALSE
