\* Packets of two characters, in a buffer that holds three.
CONSTANTS
    NPipes = 1
    Size = 4
    NChars = 4
    MaxPush = 2
    MaxRead = 2
    OnlyIfRoom = TRUE
    Hwms = {0}
    QueueSize = 2
    PacketLen = 2
SPECIFICATION StreamSpec
INVARIANTS BufferIsFifo 
PROPERTY PacketsWhole
