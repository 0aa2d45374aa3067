SPECIFICATION Spec
CONSTANTS
    Paths = {p1}
    Addrs = {a1}
    Users = {u1}
    Cancellable = {}
    Resub = resub
    None = none
    MaxId = 1
    MaxCalls = 0
    MaxTries = 1
    MaxGen = 2
    MaxResub = 1
    Timeouts = {FALSE}
    Streams = FALSE
    MaxListeners = 1
    MaxStreams = 1
    Repeats = FALSE
    Auth = "Anonymous"
SYMMETRY UserSymmetry
CHECK_DEADLOCK FALSE
INVARIANT DurableInOneMap
