CONSTANTS
    n1 = n1
    n2 = n2
    n3 = n3
    None = None
    Node <- Members
    Live <- FirstTwo
    Route <- Everywhere
    Ts <- Ts2
    MaxMailbox = 1
    MaxWire = 8
    MaxTimers = 1
    MaxBreaks = 1
    MaxStops = 0
    MaxOpenFails = 0
    MaxTimeouts = 2
SPECIFICATION Spec
ACTION_CONSTRAINT HandleFirst
INVARIANTS QuietHasLeader
CHECK_DEADLOCK FALSE
