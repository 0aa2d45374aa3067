SPECIFICATION Spec
CONSTANTS
    Clients = {c1, c2, c3}
    WAddrs = {w1}
    RPaths = {r1}
    Ttls = {0, 1, 3}
    MaxTtl = 2
    MaxConnections = 2
    Secure = TRUE
    MaxCtx = 2
    None = none
SYMMETRY ClientSymmetry
CHECK_DEADLOCK FALSE
INVARIANT AcceptedIsKept
