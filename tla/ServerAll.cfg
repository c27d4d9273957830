SPECIFICATION FairSpec
CONSTANTS
    c1 = c1
    c2 = c2
    k1 = k1
    k2 = k2
    Null = Null
    Clients <- TwoClients
    Closers <- TwoClosers
    Requests <- AnyRequests
INVARIANTS TypeOK ClosedOnce CloseTakesEffect
PROPERTIES EveryoneServed CloserReturns
CHECK_DEADLOCK FALSE
