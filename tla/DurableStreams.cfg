SPECIFICATION Spec
CONSTANTS
    Paths = {p1}
    Addrs = {a1}
    Users = {u1}
    Cancellable = {}
    Resub = resub
    None = none
    MaxId = 2
    MaxCalls = 0
    MaxTries = 1
    MaxGen = 1
    MaxResub = 2
    Timeouts = {FALSE}
    Streams = TRUE
    MaxListeners = 2
    MaxStreams = 2
    Repeats = FALSE
    Auth = "Anonymous"
CHECK_DEADLOCK FALSE
INVARIANT ListenerHearsState
INVARIANT StreamIsAttached
