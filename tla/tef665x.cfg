SPECIFICATION FairSpec
CONSTANTS
    AmMin = 522
    AmMax = 531
    AmStep = 9
    FmMin = 87500
    FmMax = 87600
    FmStep = 50
    MayFail = TRUE
    LookAhead = 12
    c1 = c1
    keys = keys
    s1 = s1
    s2 = s2
    r1 = r1
    r2 = r2
    Callers = {c1, keys}
    ScanThreads = {s1, s2}
    RdsThreads = {r1, r2}
    Calls <- UserAndKeys
INVARIANTS
    TypeOK
    OneScan
    ChipAgreement
    OneRdsThread
PROPERTY
    ScanEnds
