CONSTANTS
    n1 = n1
    n2 = n2
    n3 = n3
    c1 = c1
    c2 = c2
    None = None
    Node <- Pair
    Call <- Two
    Offer <- LookAndWrite
    Views <- QuorumLost
    Stopping <- JustLead
    Lead = n1
    Running <- Pair
    Faults <- AnyFault
    MaxFaults = 2
SPECIFICATION FairSpec
PROPERTIES OnlyStrandedWait
CHECK_DEADLOCK FALSE
