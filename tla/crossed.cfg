SPECIFICATION Spec
VIEW ReadByActions
CONSTANTS
    MinFreq = 2
    MaxFreq = 4
    FreqStep = 2
    WbOffset = 1
    t1 = t1
    t2 = t2
    NoClient = NoClient
    Clients = {t1, t2}
    Calls <- Crossed
    Requests <- FewRequests
    PipeMax = 2
    ReadMax = 2
    CmdMax = 1
    MayExit = TRUE
INVARIANTS
    OneReader
    ScanOnlyWhilePlaying
