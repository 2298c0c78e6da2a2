SPECIFICATION FairSpec
CONSTANT
    Spurious = TRUE
INVARIANTS
    TypeOK
    OneSetOfThreads
    MuteAtMostOnce
PROPERTIES
    StopReturns
    AudioFlows
CHECK_DEADLOCK FALSE
