SPECIFICATION Spec
CONSTANTS
    Paths = {p1}
    Addrs = {a1}
    Users = {u1, u2}
    Cancellable = {}
    Resub = resub
    None = none
    MaxId = 2
    MaxCalls = 2
    MaxTries = 1
    MaxGen = 0
    MaxResub = 0
    Timeouts = {TRUE}
    Streams = FALSE
    MaxListeners = 1
    MaxStreams = 1
    Repeats = FALSE
    Auth = "Anonymous"
SYMMETRY UserSymmetry
CHECK_DEADLOCK FALSE
INVARIANT TypeOK
INVARIANT SingleFlight
INVARIANT PendingHasOwner
INVARIANT NoOrphanWaiter
INVARIANT NoOrphanRequest
INVARIANT NoPanic
