SPECIFICATION FairSpec
CONSTANTS
    Task = {a1}
    Thread = {t1, t2}
    WorkerCounts = {2}
    MaxQueueSize = 0
    MaxStarts = 1
    MaxInterrupts = 2
    None = None
PROPERTIES QueuedTaskRuns DeadWorkerReplaced StopReturnsUnlessBlocking
CHECK_DEADLOCK FALSE
