SPECIFICATION FairSpec
CONSTANTS
    Clients = {c1, c2, c3}
    WAddrs = {w1}
    RPaths = {r1}
    Ttls = {0, 1, 3}
    MaxTtl = 2
    MaxConnections = 2
    Secure = TRUE
    MaxCtx = 1
    None = none
CHECK_DEADLOCK FALSE
INVARIANT TypeOK
INVARIANT ConnectionLimit
INVARIANT OneWriterPerAddr
PROPERTY DeadClientIsReaped
