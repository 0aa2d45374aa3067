SPECIFICATION Spec
CONSTANTS
    s1 = s1
    s2 = s2
    s3 = s3
    a = a
    b = b
    Subs = {s1, s2, s3}
    Chans = {a, b}
    InitLive = {s1, s2}
    Ends = {s2}
    Wanted <- MCWanted
    LastFor = {s1}
    Closers = {a}
    MaxUpdates <- MCMaxUpdates
    ChanCap = 1
    MaxPool = 1
    None = none
CHECK_DEADLOCK FALSE
INVARIANT BatchIsFresh
