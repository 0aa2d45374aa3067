SPECIFICATION Spec
CONSTANTS
    Paths = {p1}
    Addrs = {a1, a2}
    Users = {u1, u2}
    Cancellable = {u1, u2}
    Resub = resub
    None = none
    MaxId = 2
    MaxCalls = 1
    MaxTries = 1
    MaxGen = 0
    MaxResub = 0
    Timeouts = {TRUE, FALSE}
    Streams = FALSE
    MaxListeners = 1
    MaxStreams = 1
    Repeats = FALSE
    Auth = "Krb5"
SYMMETRY UserSymmetry
CHECK_DEADLOCK FALSE
INVARIANT LiveSubIsRegistered
INVARIANT GrantIsTracked
INVARIANT SingleFlight
INVARIANT NoOrphanRequest
