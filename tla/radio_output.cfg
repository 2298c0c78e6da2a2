SPECIFICATION PathSpec
CONSTANTS
    BlockLen = 5
    Downsample = 2
    RateOut = 3
    RateOut2 = 2
    MaxBlocks = 5
    MaxLen = 2
    MaxSamples = 10
INVARIANTS
    PathTypeOK
    WholeFrames
    CountKept
    HeardInOrder
    NothingMissing
