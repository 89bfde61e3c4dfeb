\* A port whose interrupt_disable() works, with the default idle() of main.c,
\* which triggers the timer tick.
CONSTANTS
    NEvts = 4
    Events = {a, b}
    TickEvent = a
    NrHandlers <- MCHandlers
    NrInterrupts = 2
    BitsPerLong = 4
    HasHl = {0}
    TickIrqs = {1}
    MaxTriggers = 1
    IrqsOff = TRUE
    IdleSleeps = FALSE
    NoEvent = NoEvent
    NoIrq = NoIrq
SPECIFICATION Spec
INVARIANT ReservedSlotsSafe
PROPERTY ImplementsFifo
