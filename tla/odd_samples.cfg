SPECIFICATION Spec
CONSTANTS
    MaxLen = 4
    MaxSamples = 12
PROPERTY
    WrittenInOrder
