SPECIFICATION Spec
CONSTANTS
    Caller = {a}
    Host = {h1}
    NoHost = NoHost
    MaxCalls = 1
    MaxDisconnects = 1
INVARIANTS NoNullClient
CHECK_DEADLOCK FALSE
