SPECIFICATION FairSpec
CONSTANTS
    a = a
    b = b
    c = c
    lobby = lobby
    None = None
    Conns <- Three
    RoomIds <- OneRoom
    Calls <- OneMaker
    Mortals <- Other
    MaxBroadcasts = 2
INVARIANTS TypeOK SameOrder AudienceFrozen
PROPERTIES ReachesAll CreateKeepsRooms ImplementsRegistry EveryOpReturns
CHECK_DEADLOCK FALSE
