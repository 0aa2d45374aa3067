SPECIFICATION FairSpec
CONSTANTS
    Msgs <- MCMsgs
    HdrLen = 2
    Base = 2
    WireCap = 3
    MaxRead = 2
    MaxSend = 3
    TimeoutDuring = {"vectored"}
INVARIANT TypeOK
PROPERTY Refines
PROPERTY FlushCompletes
CHECK_DEADLOCK FALSE
