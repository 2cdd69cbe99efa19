CONSTANTS
    n1 = n1
    n2 = n2
    n3 = n3
    c1 = c1
    c2 = c2
    None = None
    Node <- Members
    Call <- Two
    Offer <- OneWrite
    Views <- LeadLost
    Stopping <- JustLead
    Lead = n1
    Running <- Members
    Faults <- AnyFault
    MaxFaults = 2
SPECIFICATION Spec
INVARIANTS AckedInsertsSurvive
PROPERTIES ImplementsAckedWrite
CHECK_DEADLOCK FALSE
