SPECIFICATION FairSpec
CONSTANTS
    Transfer = {d1, d2}
    MaxLen = 3
    ChunkSize = 2
    None = None
INVARIANTS TypeOK ReportedOnce EndedOnceAndWhole NoPumpInPump CallbacksInstalled
PROPERTIES ReleasedOutsideCallbacks TransferEnds WriterReleased
CHECK_DEADLOCK FALSE
