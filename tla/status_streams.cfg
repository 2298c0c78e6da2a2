SPECIFICATION FairSpec
CONSTANTS
    h1 = h1
    h2 = h2
    s1 = s1
    s2 = s2
    Nobody = Nobody
    Handlers = {h1, h2}
    Senders = {s1, s2}
    MaxEvents = 3
    MayShutdown = TRUE
INVARIANTS
    TypeOK
    StreamComplete
PROPERTIES
    CancelledWaiterReturns
CHECK_DEADLOCK FALSE
