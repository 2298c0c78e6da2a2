SPECIFICATION FairSpec
CONSTANTS
    h1 = h1
    h2 = h2
    s1 = s1
    s2 = s2
    Nobody = Nobody
    Handlers = {h1}
    Senders = {s1}
    MaxEvents = 0
    MayShutdown = TRUE
PROPERTIES
    HandlersExit
CHECK_DEADLOCK FALSE
