SPECIFICATION DisciplinedSpec
CONSTANTS
    d1 = d1
    d2 = d2
    b1 = b1
    b2 = b2
    c1 = c1
    NoTask = NoTask
    DirectTasks <- One
    BroadcastTasks <- Broadcast2
    ControlTasks <- Control
    MaxPayload = 2
    MaxLen = 5
    CallLengths <- Long
    MaxCalls = 2
    ChunkSizes <- Chunks
INVARIANTS TypeOK ClientDecodes DeliveredInOrder
PROPERTIES EveryCallReturns ImplementsChannel
CHECK_DEADLOCK FALSE
