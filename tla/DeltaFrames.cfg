SPECIFICATION Spec
CONSTANTS
    Entities = {1}
    Fields = {"origin"}
    UPDATE_BACKUP = 5
    ByteRange = 5
    MaxExtrapolated = 4
    ImpulseBackup = 3
    MaxSeq = 6
    MaxImpulse = 2
    MaxInFlight = 1
    MaxFaults = 1
INVARIANTS DeltaInv SameFrame ImpulseArrives
PROPERTIES CommandsOnce
CHECK_DEADLOCK FALSE
