SPECIFICATION Spec
CONSTANTS
    s1 = s1
    a = a
    b = b
    aa = aa
    bb = bb
    c = c
    Source = {s1}
    Payload <- MCPayload
    Hash <- MCHash
    Handler = {h1, h2}
    NoHash = NoHash
    NoSource = NoSource
    NoTime = NoTime
    NoPayload = NoPayload
    Free = Free
    Worker = Worker
    ExpectedHeartbeat = 1
    MaxTime = 4
INVARIANT StatusNoBetterThanScore
