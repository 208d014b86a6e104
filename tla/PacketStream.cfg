SPECIFICATION FairSpec
CONSTANTS
    INPUT_BUFFER_SIZE = 4
    BYTE = 3
    MAX_PACKET_SIZE = 4
    BATCH_LIMIT = 6
    Bodies <- MCBodies
    StartIndices <- MCAllIndices
    MaxComposed = 2
    SocketBuffer = 5
    Period = 3
    Pad <- MCPad
INVARIANTS
    RingHoldsStream
    DrainedBeforeFill
    NeverOutOfStep
    InOrder
    EofAfterLastPacket
    BatchAccounted
PROPERTIES
    ImplementsFifo
    CloseIsNoticed
CHECK_DEADLOCK FALSE
