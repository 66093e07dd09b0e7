SPECIFICATION Spec
CONSTANTS
    Transfer = {d1}
    MaxLen = 2
    ChunkSize = 1
    None = None
INVARIANT StrategyEndsResponse
CHECK_DEADLOCK FALSE
