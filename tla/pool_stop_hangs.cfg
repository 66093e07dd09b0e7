SPECIFICATION FairSpec
CONSTANTS
    Task = {a1}
    Thread = {t1}
    WorkerCounts = {1}
    MaxQueueSize = 0
    MaxStarts = 1
    MaxInterrupts = 0
    None = None
PROPERTY StopReturns
CHECK_DEADLOCK FALSE
