\* Sixteen gpios, of which one changes; three events in the queue.
CONSTANTS
    Harvard = TRUE
    MCUIO_NGPIO = 16
    Scripts <- MCScripts
    MaxChanges = 3
    MaxI2cIrqs = 1
    Pins = {0}
    Outstanding = 1
    QueueSize = 3
SPECIFICATION FairSpec
INVARIANTS EdgesReportedOnce InterruptOnItsWay 
PROPERTIES AnswersMatch InterruptsServed
CHECK_DEADLOCK FALSE
