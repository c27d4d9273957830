SPECIFICATION Spec
CONSTANTS
    d1 = d1
    d2 = d2
    b1 = b1
    b2 = b2
    c1 = c1
    NoTask = NoTask
    DirectTasks <- Direct
    BroadcastTasks <- None
    ControlTasks <- None
    MaxPayload = 2
    MaxLen = 3
    CallLengths <- TwoFrames
    MaxCalls = 1
    ChunkSizes <- Chunks
INVARIANT ClientDecodes
CHECK_DEADLOCK FALSE
