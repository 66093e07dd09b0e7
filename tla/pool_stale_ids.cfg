SPECIFICATION FairSpec
CONSTANTS
    Task = {a1}
    Thread = {t1, t2}
    WorkerCounts = {2}
    MaxQueueSize = 0
    MaxStarts = 2
    MaxInterrupts = 1
    None = None
PROPERTY DeadWorkerReplaced
CHECK_DEADLOCK FALSE
