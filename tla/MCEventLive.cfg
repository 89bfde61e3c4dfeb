\* An idle() that sleeps (atmega), a timer that ticks for ever, and two words
\* of interrupt flags: two irqs with high level handlers in the first, of
\* which ffs prefers the lower one, and the timer's in the second.
CONSTANTS
    NEvts = 2
    Events = {a}
    TickEvent = a
    NrHandlers <- MCHandlers
    NrInterrupts = 3
    BitsPerLong = 2
    HasHl = {0, 1}
    TickIrqs = {2}
    MaxTriggers = 1
    IrqsOff = TRUE
    IdleSleeps = TRUE
    NoEvent = NoEvent
    NoIrq = NoIrq
SPECIFICATION FairSpec
INVARIANTS MaskedIffPending NoRequestLost
PROPERTY Served
