SPECIFICATION Spec
CONSTANTS
    MinFreq = 100
    MaxFreq = 200
    FreqStep = 50
    c1 = c1
    c2 = c2
    Clients = {c1, c2}
    Calls <- OnePlays
INVARIANTS
    TypeOK
    StatusAgreement
PROPERTIES
    ImplementsRadio
    StationIsAnnounced
