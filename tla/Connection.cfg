SPECIFICATION FairSpec
CONSTANTS
    Clients = {"a"}
    MAX_CLIENTS = 2
    MaxPlayers = 2
    MaxWishes = 2
    MaxRequests = 1
    MaxFaults = 1
INVARIANTS ConnectionInv GameMatchesSlots
PROPERTIES PlaysOrIsTold HalfOpenEnds
CHECK_DEADLOCK FALSE
