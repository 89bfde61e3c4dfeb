\* A buffer of four bytes and accesses of one and two: five bytes of input
\* do not fit, and the host may start with less than its output.
CONSTANTS
    Size = 4
    Burst = 2
    Outs = {0, 3}
    Ins = {0, 1, 5}
    MaxTransactions = 3
    MaxPolls = 1
    QueueSize = 8
SPECIFICATION FairSpec
INVARIANT BytesInOrder
PROPERTY TransactionsEnd
CHECK_DEADLOCK FALSE
