SPECIFICATION FairSpec
CONSTANTS
    MinFreq = 100
    MaxFreq = 200
    FreqStep = 50
    WbOffset = 16
    t1 = t1
    t2 = t2
    NoClient = NoClient
    Clients = {t1}
    Calls <- OneClient
    Requests <- MCRequests
    PipeMax = 3
    ReadMax = 2
    CmdMax = 3
    MayExit = TRUE
INVARIANTS
    TypeOK
    OnGrid
    ScanAgreement
PROPERTIES
    StationFoundIsTuned
    EveryCallReturns
    ImplementsRadio
