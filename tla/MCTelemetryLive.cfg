SPECIFICATION FairSpec
CONSTANTS
    s1 = s1
    a = a
    b = b
    Source = {s1}
    Payload <- MCPayload
    Hash = {a, b}
    Handler = {h1, h2}
    NoHash = NoHash
    NoSource = NoSource
    NoTime = NoTime
    NoPayload = NoPayload
    Free = Free
    Worker = Worker
    ExpectedHeartbeat = 1
    MaxTime = 4
PROPERTIES
    EveryRequestAnswered
    SilentSourceTurnsCritical
