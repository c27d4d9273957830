SPECIFICATION Spec
CONSTANTS
    a = a
    b = b
    c = c
    lobby = lobby
    None = None
    Conns <- Two
    RoomIds <- OneRoom
    Calls <- TwoMakers
    Mortals <- Nobody
    MaxBroadcasts = 0
PROPERTIES CreateKeepsRooms
CHECK_DEADLOCK FALSE
