CONSTANTS
    n1 = n1
    n2 = n2
    n3 = n3
    None = None
    Node <- Members
    Live <- Members
    Route <- Everywhere
    Wired <- Everywhere
    Ts <- Ts2
    MaxMailbox = 1
    MaxWire = 8
    MaxTimers = 1
    MaxBreaks = 0
    MaxStops = 1
    MaxOpenFails = 0
    MaxTimeouts = 0
SPECIFICATION SteadySpec
SYMMETRY SwapFollowers
ACTION_CONSTRAINT HandleFirst
INVARIANTS QuietHasLeader LeaderMatchesState
CHECK_DEADLOCK FALSE
