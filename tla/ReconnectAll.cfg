SPECIFICATION FairSpec
CONSTANTS
    s1 = s1
    c1 = c1
    Handler = Handler
    Reader = Reader
    Null = Null
    Closers <- OneCloser
    Senders <- OneSender
    Capacity = 1
    MaxDelay = 60
    MaxCommands = 2
    MaxOpened = 3
    MaxFrames = 1
INVARIANTS TypeOK HalvesAgree WaitsBounded
PROPERTIES CallsEnd
CHECK_DEADLOCK FALSE
