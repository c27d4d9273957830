SPECIFICATION Spec
CONSTANTS
    r1 = r1
    r2 = r2
    Null = Null
    First = r1
    Readers <- OneReader
    Frames <- Fragments
    MaxFrames = 3
    MaxUnread = 1
INVARIANT PongsAreHarmless
CHECK_DEADLOCK FALSE
