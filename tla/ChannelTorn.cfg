SPECIFICATION FairSpec
CONSTANTS
    Msgs <- MCMsgs
    HdrLen = 2
    Base = 2
    WireCap = 3
    MaxRead = 2
    MaxSend = 3
    TimeoutDuring = {"vectored", "write_all"}
PROPERTY Refines
CHECK_DEADLOCK FALSE
