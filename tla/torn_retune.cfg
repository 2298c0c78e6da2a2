SPECIFICATION Spec
CONSTANTS
    MinFreq = 100
    MaxFreq = 200
    FreqStep = 50
    WbOffset = 16
    t1 = t1
    t2 = t2
    NoClient = NoClient
    Clients = {t1, t2}
    Calls <- ScanAndTune
    Requests <- MCRequests
    PipeMax = 3
    ReadMax = 2
    CmdMax = 2
    MayExit = FALSE
INVARIANTS
    StationsAreChannels
