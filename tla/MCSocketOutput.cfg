SPECIFICATION Spec
CONSTANTS
    Sizes = {1, 2, 3}
    OutBufferSize = 2
    HighWaterMark = 4
    KernelSize = 2
    MaxPackets = 5
INVARIANT TypeOK
PROPERTY ImplementsStream
