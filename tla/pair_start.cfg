CONSTANTS
    n1 = n1
    n2 = n2
    n3 = n3
    None = None
    Node <- Members
    Live <- FirstTwo
    Route <- Everywhere
    Ts <- Ts2
    MaxMailbox = 2
    MaxWire = 8
    MaxTimers = 2
    MaxBreaks = 0
    MaxStops = 0
    MaxOpenFails = 0
    MaxTimeouts = 2
SPECIFICATION FairSpec
PROPERTIES EventuallyElected
CHECK_DEADLOCK FALSE
