\* The request and one write share five buffers with two receptions.
SPECIFICATION Spec
CONSTANTS
    NBufs = 5
    QueueSize = 9
    RxBuffers = 2
    MaxWrites = 1
    MaxPackets = 3
INVARIANTS FreeBuffersIdle AvailableNotForgotten PacketsNotOverwritten
