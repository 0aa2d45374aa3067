SPECIFICATION FairSpec
CONSTANTS
    Paths = {p1}
    Addrs = {a1}
    Users = {u1}
    Cancellable = {}
    Resub = resub
    None = none
    MaxId = 2
    MaxCalls = 1
    MaxTries = 1
    MaxGen = 1
    MaxResub = 2
    Timeouts = {FALSE}
    Streams = FALSE
    MaxListeners = 1
    MaxStreams = 1
    Repeats = FALSE
    Auth = "Anonymous"
CHECK_DEADLOCK FALSE
PROPERTY DoResubAlwaysEnds
