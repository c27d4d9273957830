SPECIFICATION FairSpec
CONSTANTS
    reader = reader
    w1 = w1
    s1 = s1
    Null = Null
    Reader = reader
    Closers <- Nobody
    Waiters <- OneWaiter
    Senders <- OneSender
    Requests <- WaitOrNot
    Frames <- ClientFrames
    MaxFrames = 2
    Window = 1
INVARIANTS TypeOK ReaderLeavesNothingOpen OkMeansShut StatusAfterShutdown CloseBeforeShutdown
PROPERTIES ClosersReturn CloseAnswered
CHECK_DEADLOCK FALSE
