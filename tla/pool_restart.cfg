SPECIFICATION Spec
CONSTANTS
    Task = {a1, a2, a3}
    Thread = {t1, t2, t3}
    WorkerCounts = {1, 2}
    MaxQueueSize = 2
    MaxStarts = 2
    MaxInterrupts = 1
    None = None
SYMMETRY Symmetry
INVARIANTS TypeOK QueueBounded TaskAccounting StopJoinsAllUnlessInterrupted NoSleepWithWork
CHECK_DEADLOCK FALSE
