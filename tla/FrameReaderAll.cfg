SPECIFICATION FairSpec
CONSTANTS
    r1 = r1
    r2 = r2
    Null = Null
    First = r1
    Readers <- TwoReaders
    Frames <- All
    MaxFrames = 3
    MaxUnread = 1
INVARIANTS TypeOK SequenceJudged NothingLost PingsAnswered
PROPERTY EverythingRead
CHECK_DEADLOCK FALSE
