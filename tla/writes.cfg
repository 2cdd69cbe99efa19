CONSTANTS
    n1 = n1
    n2 = n2
    n3 = n3
    c1 = c1
    c2 = c2
    None = None
    Node <- Members
    Call <- Two
    Offer <- AnyCalls
    Views <- NoViews
    Stopping <- Nobody
    Lead = n1
    Running <- Members
    Faults <- JustBreak
    MaxFaults = 1
SPECIFICATION Spec
INVARIANTS TypeOK FollowersAgree MissHeardFromAll
PROPERTIES LookupsFind
CHECK_DEADLOCK FALSE
