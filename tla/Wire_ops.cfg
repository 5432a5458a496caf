CONSTANTS
    WordLen = 4
    Base = 256
    MaxAlloc = 1000
    Types <- NixTypes
    Writings <- AllWritings
    Streams <- NoStreams
    Logs <- MessageLogs
    MaxSteps = 80
SPECIFICATION Spec
INVARIANTS ReadsBack NothingShort ForwardsTheBytes ClosedBetweenMessages EmptyBufferEndsFrames
