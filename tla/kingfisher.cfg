SPECIFICATION Spec
CONSTANTS
    MinFreq = 3
    MaxFreq = 5
    FreqStep = 2
    c1 = c1
    c2 = c2
    Clients = {c1, c2}
    Calls <- TwoClients
    Corking = TRUE
    BusMax = 1
INVARIANTS
    TypeOK
    TunerAgreement
    PlaybackAgreement
    StoppedIsSilent
    ScanFlagMeansScan
PROPERTY
    ImplementsRadio
