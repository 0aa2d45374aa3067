SPECIFICATION Spec
CONSTANTS
    Paths = {p1}
    Addrs = {a1}
    Users = {u1}
    Cancellable = {}
    Resub = resub
    None = none
    MaxId = 2
    MaxCalls = 0
    MaxTries = 2
    MaxGen = 2
    MaxResub = 3
    Timeouts = {FALSE}
    Streams = FALSE
    MaxListeners = 1
    MaxStreams = 1
    Repeats = FALSE
    Auth = "Anonymous"
SYMMETRY UserSymmetry
CHECK_DEADLOCK FALSE
INVARIANT LiveDValRegistered
INVARIANT NoLostWakeup
INVARIANT DurableStateMatchesMap
INVARIANT NoPanic
