SPECIFICATION Spec
CONSTANTS
    Caller = {a, b}
    Host = {h1, h2}
    NoHost = NoHost
    MaxCalls = 2
    MaxDisconnects = 1
    Milliseconds <- MCMilliseconds
    MaxHttpCalls = 4
INVARIANTS TypesOK RightPeer AnswersInStep FreshAnswers NothingRunsAfterDisconnect
INVARIANTS AnswersOwnRequest UnderItsSettings TimeoutHonoured
PROPERTIES RefusalIsRecent
CHECK_DEADLOCK FALSE
SYMMETRY Interchangeable
