SPECIFICATION Spec
CONSTANTS
    Task = {a1}
    Thread = {t1, t2}
    WorkerCounts = {1}
    MaxQueueSize = 0
    MaxStarts = 1
    MaxInterrupts = 1
    None = None
INVARIANT StopJoinsAll
CHECK_DEADLOCK FALSE
