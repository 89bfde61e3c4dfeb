\* Two tick buffers for three tasks: pts_init cannot schedule the third.
\* jiffies wraps.
CONSTANTS
    NTasks = 3
    Period <- MCPeriod
    Release0 <- MCRelease0
    HZ = 1
    Wrap = 16
    Jiffies0 = 6
    NBufs = 2
    QueueSize = 5
    MaxLag = 2
    MaxOther = 1
SPECIFICATION FairSpec
  
PROPERTY TasksRun
