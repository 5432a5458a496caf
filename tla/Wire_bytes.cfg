CONSTANTS
    WordLen = 2
    Base = 3
    MaxAlloc = 6
    MaxBytes = 6
    Types <- MCTypes
    Writings <- NoWritings
    Streams <- AllStreams
SPECIFICATION FairSpec
INVARIANTS TypeOK ForwardsTheValue ForwardsTheBytes
PROPERTIES Ends
