SPECIFICATION Spec
CONSTANTS
    Producer = {p1, p2, p3}
    Consumer = {q1}
    Limits = {1, 2}
    MaxAttempts = 5
    Thread = {a, b}
    MaxSequence = 1
    MaxWait = 2
    IdSpace = 4
    HostHashes <- MCHostHashes
    ThreadHash <- MCThreadHash
    CustomIds <- MCCustomIds
    MaxTime = 2
    MaxIds = 4
    Token = {j1, j2}
    NoToken = NoToken
    Verifier = {v}
    Lifetimes = {1, 2}
    MaxEntries = {0, 1}
    DefaultEntries = 2
    StartTimes = {0, 2, 4}
    MaxNow = 3
    MaxRestarts = 1
INVARIANTS ServicesTypesOK RevokedStaysOut OverrunBounded
PROPERTIES IdsIncrease
CHECK_DEADLOCK FALSE
