\* Two pipes on one device with buffers of four slots; a usb device with
\* packets of two bytes.
CONSTANTS
    NPipes = 2
    Size = 4
    NChars = 1
    MaxPush = 3
    MaxRead = 2
    OnlyIfRoom = TRUE
    Hwms = {0, 1}
    QueueSize = 3
    EpSize = 2
    Descriptors <- MCDescriptors
    Lengths = {2, 5}
    MaxResets = 2
    OutChars = 3
    Room = 2
    Backlog = 2
SPECIFICATION SerialSpec
INVARIANTS NoStall  
CHECK_DEADLOCK FALSE
