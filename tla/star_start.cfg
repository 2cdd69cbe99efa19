CONSTANTS
    n1 = n1
    n2 = n2
    n3 = n3
    None = None
    Node <- Members
    Live <- Members
    Route <- ViaN3
    Ts <- Ts2
    MaxMailbox = 1
    MaxWire = 8
    MaxTimers = 1
    MaxBreaks = 0
    MaxStops = 0
    MaxOpenFails = 0
    MaxTimeouts = 0
SPECIFICATION Spec
SYMMETRY SwapFirstTwo
ACTION_CONSTRAINT HandleFirst
INVARIANTS QuietHasLeader PriorityWins
CHECK_DEADLOCK FALSE
