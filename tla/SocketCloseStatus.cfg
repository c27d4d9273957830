SPECIFICATION Spec
CONSTANTS
    reader = reader
    w1 = w1
    s1 = s1
    Null = Null
    Reader = reader
    Closers <- Nobody
    Waiters <- Nobody
    Senders <- Nobody
    Requests <- OneRequest
    Frames <- Bad
    MaxFrames = 1
    Window = 1
INVARIANT StatusTellsUnclean
CHECK_DEADLOCK FALSE
