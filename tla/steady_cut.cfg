CONSTANTS
    n1 = n1
    n2 = n2
    n3 = n3
    None = None
    Node <- Members
    Live <- Nobody
    Route <- Nobody
    Wired <- Five
    Ts <- Ts3
    MaxMailbox = 1
    MaxWire = 12
    MaxTimers = 1
    MaxBreaks = 1
    MaxStops = 1
    MaxOpenFails = 0
    MaxTimeouts = 1
SPECIFICATION SteadySpec
ACTION_CONSTRAINT HandleFirst
INVARIANTS PublishedUsable FollowerHasClient TimestampNamesLeader OnlySwitchAckPanics WaitsAreTimed
PROPERTIES ImplementsMembership
CHECK_DEADLOCK FALSE
