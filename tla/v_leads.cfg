CONSTANTS
    n1 = n1
    n2 = n2
    n3 = n3
    n4 = n4
    n5 = n5
    None = None
    Node <- Members
    Live <- Running
    Route <- OneCandidate
    Ts <- Ts1
    MaxMailbox = 1
    MaxWire = 8
    MaxTimers = 1
    MaxBreaks = 0
    MaxStops = 0
    MaxOpenFails = 0
    MaxTimeouts = 0
SPECIFICATION Spec
ACTION_CONSTRAINT HandleFirst
PROPERTIES LeadsWithQuorum
CHECK_DEADLOCK FALSE
