CONSTANTS
    n1 = n1
    n2 = n2
    n3 = n3
    c1 = c1
    c2 = c2
    None = None
    Node <- Members
    Call <- Two
    Offer <- Inserts
    Views <- NoViews
    Stopping <- Nobody
    Lead = n1
    Running <- Members
    Faults <- NoFault
    MaxFaults = 0
SPECIFICATION Spec
SYMMETRY SwapCalls
INVARIANTS CachesAgree
CHECK_DEADLOCK FALSE
