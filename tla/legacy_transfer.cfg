SPECIFICATION FairSpec
CONSTANTS
    Transfer = {t1}
    Call = {c1, c2, c3}
    NoCall = NoCall
    MaxLen = 5
    ChunkSize = 2
    MaxPolls = 3
INVARIANTS TypeOK CountedOnce ReportIsTrue EndedOnce
PROPERTIES ImplementsRemoteCall NothingAfterEnd SendReturns
CHECK_DEADLOCK FALSE
