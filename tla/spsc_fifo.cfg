SPECIFICATION Spec
CONSTANTS
    Value = {v1, v2}
    Requested = 3
    Capacity <- MCCapacity
    MaxPushes = 8
    None = None
INVARIANTS TypeOK NoSlotRace CountersAgree
PROPERTY ImplementsFifo
CHECK_DEADLOCK FALSE
